--------------------------- MODULE GatewayProofs ---------------------------
(***************************************************************************)
(* That no tool runs without a permission, and that each approval that     *)
(* waits has somebody to hear from, for any clients, calls, tools and      *)
(* capacity.                                                               *)
(*                                                                         *)
(* Neither is inductive alone.  An answer runs whatever call it finds an   *)
(* entry for, so entries must belong to calls the policy has asked about;  *)
(* and a connection's end rejects what names it, so entries must name      *)
(* connections that can still end.                                         *)
(***************************************************************************)
EXTENDS Gateway, FiniteSetTheorems, TLAPS

\* A call that waits for a person was put to one by the policy; so was one whose
\* button is pressed; and only calls by Telegram show buttons.
AskedFirst ==
  /\ \A k \in Calls : call[k] \in {"waiting", "sending", "shown"} =>
       decision[k] = "ask" /\ tool[k] \notin Denied
  /\ \A k \in presses : told[k] # "none"

\* Only sockets with handlers authenticate.
AuthedLive == \A c \in authed : Live(c)

IInv == TypeOK /\ PendingExact /\ ListedExact /\ RunsArePermitted /\ AskedFirst /\ AuthedLive

(* The list of connections stays finite, and grows below the capacity only. *)
LEMMA ListedBound ==
  ASSUME TypeOK, NEW c \in Conns
  PROVE  /\ Cardinality(listed \ {c}) <= MaxConnections
         /\ Cardinality(listed) < MaxConnections =>
              Cardinality(listed \cup {c}) <= MaxConnections
<1>1. IsFiniteSet(listed) /\ MaxConnections \in Nat /\ Cardinality(listed) <= MaxConnections
  BY GatewayAssumption, FS_Subset DEF TypeOK
<1>2. Cardinality(listed) \in Nat
  BY <1>1, FS_CardinalityType
<1>3. Cardinality(listed \ {c}) <= Cardinality(listed) /\ Cardinality(listed \ {c}) \in Nat
  BY <1>1, FS_Subset, FS_CardinalityType, listed \ {c} \subseteq listed
<1>4. Cardinality(listed \cup {c}) = Cardinality(listed) \/ Cardinality(listed \cup {c}) = Cardinality(listed) + 1
  BY <1>1, FS_AddElement
<1> QED
  BY <1>1, <1>2, <1>3, <1>4

(* The order of authentication stays one when a connection becomes the latest, *)
(* and when one goes.                                                          *)
LEMMA LatestIsOrdered ==
  ASSUME TypeOK, NEW c \in Conns
  PROVE  LET a == authed \cup {c}
             l == PairsWithout(c) \cup ({c} \X (authed \ {c}))
         IN  /\ a \subseteq Conns /\ l \subseteq a \X a
             /\ \A d, e \in a : d # e => (<<d, e>> \in l <=> <<e, d>> \notin l)
BY DEF TypeOK, PairsWithout

\* The order of the list of connections without one of them is an order of the others.
LEMMA OthersAreOrdered ==
  ASSUME TypeOK, NEW c \in Conns
  PROVE  LET a == authed \ {c}
             l == PairsWithout(c)
         IN  /\ a \subseteq Conns /\ l \subseteq a \X a
             /\ \A d, e \in a : d # e => (<<d, e>> \in l <=> <<e, d>> \notin l)
BY DEF TypeOK, PairsWithout

\* The invariant holds before the first connection.
LEMMA InitInv == Init => IInv
<1> SUFFICES ASSUME Init PROVE IInv
  OBVIOUS
<1>1. Cardinality({}) = 0 /\ MaxConnections \in Nat
  BY FS_EmptySet, GatewayAssumption
<1>2. TypeOK
  BY <1>1 DEF Init, TypeOK
<1> QED
  BY <1>2, GatewayAssumption
     DEF Init, IInv, PendingExact, ListedExact, RunsArePermitted, AskedFirst, AuthedLive

(* The steps of a connection. *)
LEMMA ConnStepInv ==
  ASSUME IInv, NEW c \in Conns, Running(ConnStep(c))
  PROVE  IInv'
<1> USE DEF IInv, Running
<1>1. CASE TurnAway(c)
  BY <1>1 DEF TurnAway, callVars, TypeOK, PendingExact, ListedExact, RunsArePermitted, AskedFirst, AuthedLive, Live
<1>2. CASE Connect(c)
  BY <1>2, ListedBound DEF Connect, callVars, TypeOK, PendingExact, ListedExact, RunsArePermitted, AskedFirst, AuthedLive, Live
<1>3. CASE AuthTimeout(c)
  BY <1>3, ListedBound DEF AuthTimeout, callVars, TypeOK, PendingExact, ListedExact, RunsArePermitted, AskedFirst, AuthedLive, Live
<1>4. CASE AuthSucceeds(c)
  <2>1. TypeOK'
    BY <1>4, LatestIsOrdered DEF AuthSucceeds, callVars, TypeOK
  <2> QED
    BY <2>1, <1>4 DEF AuthSucceeds, callVars, PendingExact, ListedExact, RunsArePermitted, AskedFirst, AuthedLive, Live
<1>5. CASE AuthFails(c)
  BY <1>5 DEF AuthFails, callVars, TypeOK, PendingExact, ListedExact, RunsArePermitted, AskedFirst, AuthedLive, Live
<1>6. CASE CloseDoomed(c)
  BY <1>6 DEF CloseDoomed, callVars, TypeOK, PendingExact, ListedExact, RunsArePermitted, AskedFirst, AuthedLive, Live
<1>7. CASE Closed(c)
  <2>1. TypeOK'
    BY <1>7, ListedBound, OthersAreOrdered DEF Closed, TypeOK
  <2>2. PendingExact' /\ ListedExact' /\ AuthedLive'
    BY <1>7, GatewayAssumption DEF Closed, TypeOK, PendingExact, ListedExact, AuthedLive, Live
  <2>3. RunsArePermitted' /\ AskedFirst'
    BY <1>7 DEF Closed, TypeOK, RunsArePermitted, AskedFirst
  <2> QED
    BY <2>1, <2>2, <2>3
<1> QED
  BY <1>1, <1>2, <1>3, <1>4, <1>5, <1>6, <1>7 DEF ConnStep

(* A step of a call leaves the connections alone. *)
LEMMA CallStepConns ==
  ASSUME IInv, NEW k \in Calls, Running(CallStep(k))
  PROVE  UNCHANGED connVars
BY DEF Running, CallStep, Timers, Decide, AskClient, AskTelegram, HandleCallback, Answer, Press,
       ApprovalTimeout, Register, TelegramTimeout

(* The steps of a call. *)
LEMMA CallStepInv ==
  ASSUME IInv, NEW k \in Calls, Running(CallStep(k))
  PROVE  IInv'
<1> USE DEF IInv, Running
<1>1. UNCHANGED connVars /\ ListedExact' /\ AuthedLive'
  BY CallStepConns DEF connVars, ListedExact, AuthedLive, Live
<1>2. ASSUME NEW t \in Tools, Decide(k, t)
      PROVE  IInv'
  BY <1>1, <1>2 DEF Decide, Permission, Outcome, connVars, TypeOK, PendingExact, RunsArePermitted, AskedFirst, Live
<1>3. ASSUME NEW t \in Tools, AskClient(k, t)
      PROVE  IInv'
  <2>1. CASE Askable = {} /\ call' = [call EXCEPT ![k] = "denied"] /\ UNCHANGED <<pending, asked>>
    BY <1>1, <1>3, <2>1 DEF AskClient, Permission, connVars, TypeOK, PendingExact, RunsArePermitted, AskedFirst, Live
  <2>2. ASSUME NEW c \in Conns, IsNewest(c),
               call' = [call EXCEPT ![k] = "waiting"],
               pending' = [pending EXCEPT ![k] = c], asked' = [asked EXCEPT ![k] = c]
        PROVE  IInv'
    <3>1. c \in authed /\ c \in listed /\ sock[c] = "open" /\ c # None
      BY <2>2, GatewayAssumption DEF IsNewest, Askable
    <3>2. TypeOK'
      BY <1>1, <1>3, <2>2 DEF AskClient, connVars, TypeOK
    <3>3. PendingExact'
      BY <1>1, <2>2, <3>1 DEF connVars, TypeOK, PendingExact, Live
    <3>4. RunsArePermitted' /\ AskedFirst'
      BY <1>3, <2>2 DEF AskClient, Permission, TypeOK, RunsArePermitted, AskedFirst
    <3> QED
      BY <1>1, <3>2, <3>3, <3>4
  <2> QED
    BY <1>3, <2>1, <2>2 DEF AskClient
<1>4. ASSUME NEW t \in Tools, AskTelegram(k, t)
      PROVE  IInv'
  BY <1>1, <1>4 DEF AskTelegram, Permission, connVars, TypeOK, PendingExact, RunsArePermitted, AskedFirst, Live
<1>5. CASE HandleCallback(k)
  BY <1>1, <1>5 DEF HandleCallback, Outcome, connVars, TypeOK, PendingExact, RunsArePermitted, AskedFirst, Live
<1>6. ASSUME NEW ans \in {"approve", "deny"}, Answer(k, ans)
      PROVE  IInv'
  BY <1>1, <1>6 DEF Answer, Outcome, connVars, TypeOK, PendingExact, RunsArePermitted, AskedFirst, Live
<1>7. ASSUME NEW ans \in {"approve", "deny"}, Press(k, ans)
      PROVE  IInv'
  BY <1>1, <1>7 DEF Press, connVars, TypeOK, PendingExact, RunsArePermitted, AskedFirst, Live
<1>8. CASE Timers(k)
  BY <1>1, <1>8 DEF Timers, ApprovalTimeout, Register, TelegramTimeout, connVars,
                    TypeOK, PendingExact, RunsArePermitted, AskedFirst, Live
<1> QED
  BY <1>2, <1>3, <1>4, <1>5, <1>6, <1>7, <1>8 DEF CallStep

(* The steps of the whole process. *)
LEMMA ProcessStepInv ==
  ASSUME IInv, ToggleSkill \/ StopBot \/ Shutdown \/ Exit
  PROVE  IInv'
<1> USE DEF IInv
<1>1. CASE ToggleSkill \/ StopBot \/ Exit
  BY <1>1 DEF ToggleSkill, StopBot, Exit, connVars, callVars, TypeOK, PendingExact, ListedExact,
              RunsArePermitted, AskedFirst, AuthedLive, Live
<1>2. CASE Shutdown
  <2>1. Cardinality({}) <= MaxConnections
    BY FS_EmptySet, GatewayAssumption
  <2>2. TypeOK'
    BY <1>2, <2>1 DEF Shutdown, TypeOK
  <2>3. PendingExact' /\ ListedExact' /\ AuthedLive'
    BY <1>2 DEF Shutdown, TypeOK, PendingExact, ListedExact, AuthedLive, Live
  <2>4. RunsArePermitted' /\ AskedFirst'
    BY <1>2 DEF Shutdown, TypeOK, RunsArePermitted, AskedFirst
  <2> QED
    BY <2>2, <2>3, <2>4
<1> QED
  BY <1>1, <1>2

(* The inductive invariant of the gateway. *)
THEOREM Heard == Spec => []IInv
<1>1. IInv /\ [Next]_vars => IInv'
  <2> SUFFICES ASSUME IInv, [Next]_vars PROVE IInv'
    OBVIOUS
  <2>1. CASE UNCHANGED vars
    BY <2>1 DEF IInv, vars, connVars, callVars, TypeOK, PendingExact, ListedExact, RunsArePermitted,
                AskedFirst, AuthedLive, Live
  <2> QED
    BY <2>1, ConnStepInv, CallStepInv, ProcessStepInv DEF Next
<1> QED
  BY <1>1, InitInv, PTL DEF Spec

(* Type correctness, and with it the capacity and the order of authentication, *)
(* for any connections, calls and tools (Gateway's TypeOK).                    *)
THEOREM TypeCorrect == Spec => []TypeOK
<1>1. IInv => TypeOK
  BY DEF IInv
<1> QED
  BY <1>1, Heard, PTL

(* An approval waits exactly as long as it has an entry, and the entry names a *)
(* client that can still answer or go (pendingApprovals of gateway/server.ts). *)
THEOREM ApprovalsHaveClients == Spec => []PendingExact
<1>1. IInv => PendingExact
  BY DEF IInv
<1> QED
  BY <1>1, Heard, PTL

(* Open sockets are listed and closed ones are not (connections of             *)
(* gateway/server.ts).                                                         *)
THEOREM ListIsExact == Spec => []ListedExact
<1>1. IInv => ListedExact
  BY DEF IInv
<1> QED
  BY <1>1, Heard, PTL

(* The gateway's two lists: approvals that wait, connections that are open.    *)
THEOREM ListsAreExact == Spec => []ListsExact
BY TypeCorrect, ApprovalsHaveClients, ListIsExact, PTL DEF ListsExact

(* No tool runs that the deny list names, and none without the policy's leave  *)
(* or a person's (execute of agents/tool-executor.ts).                         *)
THEOREM NothingRunsUnasked == Spec => []RunsArePermitted
<1>1. IInv => RunsArePermitted
  BY DEF IInv
<1> QED
  BY <1>1, Heard, PTL

============================================================================
