-------------------------------- MODULE Access -------------------------------
(***************************************************************************)
(* Who gets in: the tokens of src/auth/token-store.ts, and the count of    *)
(* failed attempts by address with its lock (src/auth/auth-manager.ts).    *)
(* Every message auth:response of a socket, every request of the dashboard *)
(* and every attempt of the login page is one call of authenticateToken(); *)
(* the command line makes and revokes tokens in the same table.            *)
(***************************************************************************)
EXTENDS Integers, FiniteSets

CONSTANTS
  Addresses,  \* remote addresses
  Tokens,     \* tokens that are made
  MaxFailed,  \* config.gateway.auth.maxFailedAttempts
  Lockout,    \* lockoutDurationMs, in ticks
  Expiry,     \* tokenExpiryMs, in ticks
  LastTick,   \* bound: the clock
  MaxTries,   \* bound: attempts by an address and tick
  NoEntry

ASSUME AccessAssumption ==
  /\ {MaxFailed, Lockout, Expiry, LastTick} \subseteq Nat \ {0}
  /\ MaxTries \in Nat
  /\ NoEntry \notin [count : Nat, first : Nat, until : Nat]

VARIABLES
  now,
  entry,   \* failedAttempts: [count, first, until], until = 0 for null
  row,     \* a row of the token table: [made, expires, revoked]
  failed   \* history: the failures of an address since its last success, each a
           \* tick at which a token was looked at and a number within the tick

accessVars == <<now, entry, row, failed>>

Ticks == 0..LastTick
Locked(a) == entry[a] # NoEntry /\ entry[a].until > now
Failures == Ticks \X (1..MaxTries)

AccessInit ==
  /\ now = 1
  /\ entry = [a \in Addresses |-> NoEntry]
  /\ row = [k \in Tokens |-> [made |-> FALSE, expires |-> 0, revoked |-> FALSE]]
  /\ failed = [a \in Addresses |-> {}]

Valid(k) == row[k].made /\ ~ row[k].revoked /\ row[k].expires > now

\* createToken().
Make(k) == [row EXCEPT ![k] = [made |-> TRUE, expires |-> now + Expiry, revoked |-> FALSE]]

\* The command token create.
CreateToken(k) ==
  /\ ~ row[k].made
  /\ row' = Make(k)
  /\ UNCHANGED <<now, entry, failed>>

\* A gateway starts: it forgets the attempts, and makes a token when the table has
\* no row, expired and revoked ones included.
StartGateway ==
  /\ entry' = [a \in Addresses |-> NoEntry]
  /\ failed' = [a \in Addresses |-> {}]
  /\ IF \A k \in Tokens : ~ row[k].made THEN \E k \in Tokens : row' = Make(k) ELSE UNCHANGED row
  /\ UNCHANGED now

\* The command token revoke.
RevokeToken(k) ==
  /\ row[k].made /\ ~ row[k].revoked
  /\ row' = [row EXCEPT ![k].revoked = TRUE]
  /\ UNCHANGED <<now, entry, failed>>

\* checkLockout() forgets a lock that has ended.
Seen(a) == IF entry[a] # NoEntry /\ entry[a].until # 0 THEN NoEntry ELSE entry[a]

\* authenticateToken() of a valid token.
Succeeds(a, k) ==
  /\ ~ Locked(a) /\ Valid(k)
  /\ entry' = [entry EXCEPT ![a] = NoEntry]
  /\ failed' = [failed EXCEPT ![a] = {}]
  /\ UNCHANGED <<now, row>>

\* Mutant of Recorded: one failure more than the limit.
RecordedOver(e) ==
  IF e = NoEntry THEN [count |-> 1, first |-> now, until |-> 0]
  ELSE [e EXCEPT !.count = @ + 1,
                 !.until = IF e.count + 1 > MaxFailed THEN now + Lockout ELSE @]

\* recordFailedAttempt(): the first failure sets no lock, whatever the limit.
Recorded(e) ==
  IF e = NoEntry THEN [count |-> 1, first |-> now, until |-> 0]
  ELSE [e EXCEPT !.count = @ + 1,
                 !.until = IF e.count + 1 >= MaxFailed THEN now + Lockout ELSE @]

\* authenticateToken() of any other.
Unused(a) == {f \in Failures : f[1] = now} \ failed[a]
Fails(a) ==
  /\ ~ Locked(a) /\ Unused(a) # {}
  /\ entry' = [entry EXCEPT ![a] = Recorded(Seen(a))]
  /\ failed' = [failed EXCEPT ![a] = @ \cup {CHOOSE f \in Unused(a) : TRUE}]
  /\ UNCHANGED <<now, row>>

\* authenticateToken() or createChallenge() of a locked address, and createChallenge()
\* of an address whose lock has ended.
Refused(a) ==
  /\ entry' = [entry EXCEPT ![a] = IF Locked(a) THEN @ ELSE Seen(a)]
  /\ UNCHANGED <<now, row, failed>>

\* cleanupAttempts(), every minute: by the first attempt, locked or not.
CleanupAttempts ==
  /\ entry' = [a \in Addresses |->
       IF entry[a] # NoEntry /\ now - entry[a].first > 2 * Lockout THEN NoEntry ELSE entry[a]]
  /\ UNCHANGED <<now, row, failed>>

PassTime ==
  /\ now < LastTick /\ now' = now + 1
  /\ UNCHANGED <<entry, row, failed>>

AccessNext ==
  \/ \E k \in Tokens : CreateToken(k) \/ RevokeToken(k) \/ \E a \in Addresses : Succeeds(a, k)
  \/ \E a \in Addresses : Fails(a) \/ Refused(a)
  \/ StartGateway \/ CleanupAttempts \/ PassTime

AccessSpec == AccessInit /\ [][AccessNext]_accessVars

(***************************************************************************)
(* Properties.                                                             *)
(***************************************************************************)
Entries == [count : Nat, first : Ticks, until : Nat]

\* Every variable holds a value of its kind.
AccessTypeOK ==
  /\ now \in Ticks
  /\ entry \in [Addresses -> Entries \cup {NoEntry}]
  /\ row \in [Tokens -> [made : BOOLEAN, expires : Nat, revoked : BOOLEAN]]
  /\ failed \in [Addresses -> SUBSET Failures]

\* The failures of an address after a tick.
After(a, tick) == {f \in failed[a] : tick < f[1]}
Limit == IF MaxFailed < 2 THEN 2 ELSE MaxFailed

\* "Failed-attempt counter per IP with configurable lockout duration" (README.md:483):
\* between two successes no more than 2 * MaxFailed - 1 wrong tokens of an address are
\* looked at in any time of the length of the lock.  It is not MaxFailed: counts do not
\* age with the attempts, and the clean-up drops a count, even one that holds a lock, by
\* the age of its first attempt.
AttemptsBounded ==
  \A a \in Addresses : Cardinality(After(a, now - Lockout)) <= 2 * Limit - 1

=============================================================================
