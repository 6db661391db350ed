------------------------------ MODULE Webhooks ------------------------------
(***************************************************************************)
(* Webhooks: src/dashboard/webhook-store.ts and webhook-routes.ts, the     *)
(* agent run a delivery starts (onWebhookTrigger in                        *)
(* src/gateway/server.ts), and the page's tab from loadWebhooks to         *)
(* deleteWebhook in src/dashboard/dashboard-html.ts.                       *)
(*                                                                         *)
(* A delivery is one POST /webhook/:id.  Its body arrives over time; when  *)
(* it is whole, checking the secret, counting the trigger and starting the *)
(* run is one stretch of the gateway's thread.  A sender that gets no      *)
(* answer sends again: the gateway cannot tell, and runs again.            *)
(***************************************************************************)
EXTENDS Naturals, FiniteSets, FiniteSetsExt, Functions

CONSTANTS
  Hooks,        \* webhook ids, random and never given twice
  Deliveries,   \* requests a sender makes
  MaxReloads    \* bound on lists the page asks for at once

ASSUME WebhooksAssumption == IsFiniteSet(Deliveries) /\ MaxReloads \in Nat

VARIABLES
  hookRows,     \* webhooks: trigger_count of each row
  retired,      \* ids deleted
  delivery,     \* per request: stage, hook, and whether it carries the secret
  started,      \* agent runs started per hook
  hookList,     \* hooks the page shows
  reloads,      \* lists on their way to the page
  known         \* hooks whose address and secret somebody copied from the page

hookVars == <<hookRows, retired, delivery, started, hookList, reloads, known>>

Unsent == [stage |-> "unsent", hook |-> "none", signed |-> FALSE]
Registered == DOMAIN hookRows

WebhooksInit ==
  /\ hookRows = [h \in {} |-> 0]
  /\ retired = {}
  /\ delivery = [d \in Deliveries |-> Unsent]
  /\ started = [h \in Hooks |-> 0]
  /\ hookList = {} /\ reloads = {} /\ known = {}

\* Both end with await loadWebhooks(): the list as the server has it by then.
Reload(hooks) ==
  IF Cardinality(reloads) < MaxReloads THEN reloads' = reloads \cup {hooks} ELSE UNCHANGED reloads

\* createWebhook of the page, POST /webhooks: a row, enabled for good.
CreateWebhook(h) ==
  /\ h \notin Registered \cup retired
  /\ hookRows' = [g \in Registered \cup {h} |-> IF g = h THEN 0 ELSE hookRows[g]]
  /\ Reload(Registered \cup {h})
  /\ UNCHANGED <<retired, delivery, started, hookList, known>>

\* deleteWebhook: from the row of a list that may be old.
DeleteWebhook(h) ==
  /\ h \in hookList
  /\ hookRows' = Restrict(hookRows, Registered \ {h})
  /\ retired' = retired \cup {h}
  /\ IF h \in Registered THEN Reload(Registered \ {h}) ELSE UNCHANGED reloads
  /\ UNCHANGED <<delivery, started, hookList, known>>

\* loadWebhooks, from the tab.
OpenTab ==
  /\ Reload(Registered)
  /\ UNCHANGED <<hookRows, retired, delivery, started, hookList, known>>

\* A list arrives, in whatever order, and replaces the one shown.
ListArrives(hooks) ==
  /\ hooks \in reloads
  /\ reloads' = reloads \ {hooks}
  /\ hookList' = hooks
  /\ UNCHANGED <<hookRows, retired, delivery, started, known>>

\* copyToClipboard
CopySecret(h) ==
  /\ h \in hookList
  /\ known' = known \cup {h}
  /\ UNCHANGED <<hookRows, retired, delivery, started, hookList, reloads>>

\* handlePublic: the request line is in, the body is awaited.
Send(d, h, signed) ==
  /\ delivery[d] = Unsent
  /\ h \in known
  /\ delivery' = [delivery EXCEPT ![d] = [stage |-> "body", hook |-> h, signed |-> signed]]
  /\ UNCHANGED <<hookRows, retired, started, hookList, reloads, known>>

\* verifySecret: a wrong secret, or no such row any more, is a refusal.
VerifySecret(d) == delivery[d].signed /\ delivery[d].hook \in Registered

Reach(d, stage) == delivery' = [delivery EXCEPT ![d].stage = stage]

\* Mutant of BodyArrives: the secret was checked before the body was awaited.
BodyArrivesUnchecked(d) ==
  /\ delivery[d].stage = "body"
  /\ LET h == delivery[d].hook
         begins == delivery[d].signed
     IN  /\ hookRows' = [g \in Registered |-> IF begins /\ g = h THEN hookRows[g] + 1 ELSE hookRows[g]]
         /\ started' = [started EXCEPT ![h] = @ + IF begins THEN 1 ELSE 0]
         /\ Reach(d, IF begins THEN "running" ELSE "unauthorized")
  /\ UNCHANGED <<retired, hookList, reloads, known>>

\* handleTrigger: verifySecret, recordTrigger, and the agent's run begins.
BodyArrives(d) ==
  /\ delivery[d].stage = "body"
  /\ LET h == delivery[d].hook
         begins == VerifySecret(d)
     IN  /\ hookRows' = [g \in Registered |-> IF begins /\ g = h THEN hookRows[g] + 1 ELSE hookRows[g]]
         /\ started' = [started EXCEPT ![h] = @ + IF begins THEN 1 ELSE 0]
         /\ Reach(d, IF begins THEN "running" ELSE "unauthorized")
  /\ UNCHANGED <<retired, hookList, reloads, known>>

\* A body over the limit, or a connection that breaks: 413.
BodyFails(d) ==
  /\ delivery[d].stage = "body"
  /\ Reach(d, "refused")
  /\ UNCHANGED <<hookRows, retired, started, hookList, reloads, known>>

\* The run ended: 200 with its text, also when the run did not succeed.
RunAnswers(d) ==
  /\ delivery[d].stage = "running"
  /\ Reach(d, "answered")
  /\ UNCHANGED <<hookRows, retired, started, hookList, reloads, known>>

\* The run threw: 500.
RunThrows(d) ==
  /\ delivery[d].stage = "running"
  /\ Reach(d, "error")
  /\ UNCHANGED <<hookRows, retired, started, hookList, reloads, known>>

WebhooksNext ==
  \/ \E h \in Hooks : CreateWebhook(h) \/ DeleteWebhook(h) \/ CopySecret(h)
  \/ OpenTab
  \/ \E hooks \in SUBSET Hooks : ListArrives(hooks)
  \/ \E d \in Deliveries, h \in Hooks, signed \in BOOLEAN : Send(d, h, signed)
  \/ \E d \in Deliveries :
       BodyArrives(d) \/ BodyFails(d) \/ RunAnswers(d) \/ RunThrows(d)

WebhooksSpec == WebhooksInit /\ [][WebhooksNext]_hookVars

----------------------------------------------------------------------------
(* Properties *)

\* A row is of a hook not deleted, and what the page knows once existed.
WebhooksTypeOK ==
  /\ Registered \subseteq Hooks \ retired
  /\ retired \subseteq Hooks
  /\ \A h \in Registered : hookRows[h] \in 0 .. Cardinality(Deliveries)
  /\ \A d \in Deliveries : delivery[d] = Unsent \/ delivery[d].hook \in known
  /\ hookList \cup known \subseteq Registered \cup retired
  /\ reloads \subseteq SUBSET (Registered \cup retired)

\* Every run a webhook started is counted on its row, once, and a webhook that
\* was deleted starts no run any more - not for a request whose body was still
\* on its way when the row went either.
RunsAreCounted ==
  [][\A h \in Hooks : started'[h] # started[h] =>
       /\ h \in Registered /\ h \notin retired'
       /\ started'[h] = started[h] + 1
       /\ hookRows'[h] = started'[h]]_hookVars
=============================================================================
