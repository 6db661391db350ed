----------------------------- MODULE Credentials -----------------------------
(***************************************************************************)
(* The Google row of the credential store (src/auth/credential-store.ts),  *)
(* the routes that write it (src/dashboard/credential-routes.ts), the      *)
(* buttons of the dashboard, and the model provider that asks for an       *)
(* access token before each request.  The rows of Anthropic and OpenRouter *)
(* are written in one step and behave as the saved key does here.          *)
(*                                                                         *)
(* Two operations read, wait for an answer and write: the refresh of an    *)
(* expired token, and the import of the Gemini CLI's login.                *)
(***************************************************************************)
EXTENDS Integers, FiniteSets

CONSTANTS
  Accounts,   \* Google accounts
  Uses,       \* calls of getValidGoogleAccessToken() under way at once
  Imports,    \* imports under way at once: one in a tab
  MaxSteps,   \* bound: what the user does
  MaxExpiries,\* bound: expiries, and refreshes by the CLI
  NoCred

ASSUME CredentialsAssumption ==
  /\ NoCred \notin Accounts
  /\ {MaxSteps, MaxExpiries} \subseteq Nat

VARIABLES
  google,    \* the row: NoCred, or [type, account, fresh]
  cliFile,   \* ~/.gemini/oauth_creds.json: NoCred, or [account, fresh]
  use,       \* a call that refreshes: the credential it has read, or NoCred
  import,    \* an import that waits: the account it has read, or NoCred
  googleBadge,     \* what the page shows of the row
  gone,      \* history: the row was "removed" and nothing was saved since, "quietly" when
             \* nothing was under way
  steps, expiries

credentialVars == <<google, cliFile, use, import, googleBadge, gone, steps, expiries>>

Key == [type |-> "api_key", account |-> NoCred, fresh |-> TRUE]
Login(a, f) == [type |-> "oauth", account |-> a, fresh |-> f]
Quiet == (\A u \in Uses : use[u] = NoCred) /\ \A i \in Imports : import[i] = NoCred

CredentialsInit ==
  /\ google = NoCred /\ googleBadge = NoCred
  /\ cliFile \in {[account |-> a, fresh |-> TRUE] : a \in Accounts} \cup {NoCred}
  /\ use = [u \in Uses |-> NoCred]
  /\ import = [i \in Imports |-> NoCred]
  /\ gone = "no"
  /\ steps = 0 /\ expiries = 0

\* A button of the page that is answered at once, and the status it then loads.
Clicked ==
  /\ steps < MaxSteps /\ steps' = steps + 1
  /\ UNCHANGED expiries

SaveGoogleKey ==
  /\ Clicked
  /\ google' = Key /\ googleBadge' = google'
  /\ gone' = "no"
  /\ UNCHANGED <<cliFile, use, import>>

\* clearCred(): DELETE.
ClearCred ==
  /\ Clicked
  /\ google' = NoCred /\ googleBadge' = google'
  /\ gone' = IF Quiet THEN "quietly" ELSE "removed"
  /\ UNCHANGED <<cliFile, use, import>>

LoadStatus ==
  /\ googleBadge # google
  /\ googleBadge' = google
  /\ UNCHANGED <<google, cliFile, use, import, gone, steps, expiries>>

(***************************************************************************)
(* The import of the CLI's login.                                          *)
(***************************************************************************)
ImportBegins(i) ==
  /\ Clicked
  /\ import[i] = NoCred /\ cliFile # NoCred
  /\ import' = [import EXCEPT ![i] = cliFile.account]
  /\ gone' = "no"
  /\ UNCHANGED <<google, cliFile, use, googleBadge>>

\* The project is found or not; the email is optional.
ImportEnds(i) ==
  /\ import[i] # NoCred
  /\ \/ google' = Login(import[i], TRUE) /\ googleBadge' = google'
     \/ UNCHANGED <<google, googleBadge>>
  /\ import' = [import EXCEPT ![i] = NoCred]
  /\ UNCHANGED <<cliFile, use, gone, steps, expiries>>

(***************************************************************************)
(* getValidGoogleAccessToken(), of an expired login: the CLI's file when   *)
(* it is fresh, whoever's it is, or else a request for a new token.  With  *)
(* a fresh login, an API key or no row it changes nothing.                 *)
(***************************************************************************)
\* Mutant of UseCliFile: the file stands in for a row that is not there.
UseCliFileFirst ==
  /\ google = NoCred
  /\ cliFile # NoCred /\ cliFile.fresh
  /\ google' = Login(cliFile.account, TRUE)
  /\ UNCHANGED <<cliFile, use, import, googleBadge, gone, steps, expiries>>

UseCliFile ==
  /\ google # NoCred /\ ~ google.fresh
  /\ cliFile # NoCred /\ cliFile.fresh
  /\ google' = [google EXCEPT !.fresh = TRUE]
  /\ UNCHANGED <<cliFile, use, import, googleBadge, gone, steps, expiries>>

RefreshBegins(u) ==
  /\ use[u] = NoCred
  /\ google # NoCred /\ ~ google.fresh
  /\ cliFile = NoCred \/ ~ cliFile.fresh
  /\ use' = [use EXCEPT ![u] = google]
  /\ UNCHANGED <<google, cliFile, import, googleBadge, gone, steps, expiries>>

\* The answer has a token or not; the row is what was read, with that token.
RefreshEnds(u) ==
  /\ use[u] # NoCred
  /\ \/ google' = [use[u] EXCEPT !.fresh = TRUE]
     \/ UNCHANGED google
  /\ use' = [use EXCEPT ![u] = NoCred]
  /\ UNCHANGED <<cliFile, import, googleBadge, gone, steps, expiries>>

Expires ==
  /\ expiries < MaxExpiries /\ expiries' = expiries + 1
  /\ \/ /\ google # NoCred /\ google.type = "oauth" /\ google.fresh
        /\ google' = [google EXCEPT !.fresh = FALSE]
        /\ UNCHANGED cliFile
     \/ /\ cliFile # NoCred /\ cliFile.fresh
        /\ cliFile' = [cliFile EXCEPT !.fresh = FALSE]
        /\ UNCHANGED google
  /\ UNCHANGED <<use, import, googleBadge, gone, steps>>

\* The Gemini CLI signs in or refreshes its file.
CliWrites ==
  /\ expiries < MaxExpiries /\ expiries' = expiries + 1
  /\ \E a \in Accounts : cliFile' = [account |-> a, fresh |-> TRUE]
  /\ cliFile' # cliFile
  /\ UNCHANGED <<google, use, import, googleBadge, gone, steps>>

CredentialsNext ==
  \/ SaveGoogleKey \/ ClearCred \/ LoadStatus
  \/ \E i \in Imports : ImportBegins(i) \/ ImportEnds(i)
  \/ UseCliFile \/ \E u \in Uses : RefreshBegins(u) \/ RefreshEnds(u)
  \/ Expires \/ CliWrites

CredentialsSpec == CredentialsInit /\ [][CredentialsNext]_credentialVars

(***************************************************************************)
(* Properties.                                                             *)
(***************************************************************************)
Row == [type : {"api_key", "oauth"}, account : Accounts \cup {NoCred}, fresh : BOOLEAN]

\* Every variable holds a value of its kind.
CredentialsTypeOK ==
  /\ {google, googleBadge} \subseteq Row \cup {NoCred}
  /\ cliFile \in [account : Accounts, fresh : BOOLEAN] \cup {NoCred}
  /\ use \in [Uses -> Row \cup {NoCred}]
  /\ import \in [Imports -> Accounts \cup {NoCred}]
  /\ gone \in {"no", "removed", "quietly"}

\* A row removed while no refresh and no import is under way stays removed until the
\* user saves or imports again, whatever calls for a token there are and whatever the
\* CLI writes.
RemovedStays == gone = "quietly" => google = NoCred

=============================================================================
