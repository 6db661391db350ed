---------------------------- MODULE AgentsProofs ----------------------------
(***************************************************************************)
(* What an agent works with: its runs and sessions, its budget, its        *)
(* skills. That runs are counted, kept apart and remembered, that usage    *)
(* passes a limit by a call of each loop at most, and that no skill is in  *)
(* force that nobody approved, for any runs, loops, skills and processes.  *)
(***************************************************************************)
EXTENDS MCAgents, FiniteSetTheorems, TLAPS

----------------------------------------------------------------------------
(***************************************************************************)
(* Runs and sessions. A transcript is written back whole, so what it keeps *)
(* depends on what the runs in flight have read: the invariant says that   *)
(* they have read every ended run that shared its session with nobody,     *)
(* that a session of two runs in flight is known to be shared, and that a  *)
(* row's number is never given again.                                      *)
(***************************************************************************)

Kept == {"done", "empty", "failed"}
FlightOf(a) == {r \in Runs : InFlight(r) /\ Agent(r) = a}

\* A run that waits for the model has a step left.
StepLeft == \A r \in Runs : pc[r] = "model" => steps[r] < MaxSteps

\* A run's session and what it has read belong to its conversation.
OwnSession ==
  \A r \in Runs : /\ session[r].conv = ConvOf[r]
                  /\ \A q \in working[r] : ConvOf[q] = ConvOf[r]
                  /\ InFlight(r) => r \in working[r]

\* Rows are numbered upwards.
RowsGrow ==
  /\ \A c \in Conversations : row[c] # 0 => row[c] = lastRow[c]
  /\ \A r \in Runs : session[r].number <= lastRow[session[r].conv]

\* Two runs in flight on one session are known to overlap.
OverlapKnown ==
  \A q, r \in Runs : InFlight(q) /\ InFlight(r) /\ q # r /\ session[q] = session[r] =>
    q \in overlapped /\ r \in overlapped

\* A run in flight has read every ended run of its session that overlapped none.
HasRead ==
  \A q, r \in Runs :
    pc[r] \in Kept /\ r \notin overlapped /\ RowExists(r) /\ InFlight(q) /\ session[q] = session[r]
    => r \in working[q]

RunsInv == RunsExact /\ StepLeft /\ OwnSession /\ RowsGrow /\ OverlapKnown /\ HasRead

----------------------------------------------------------------------------
(* The count of an agent's runs *)

(* An agent's runs in flight are finitely many. *)
LEMMA FlightFinite ==
  ASSUME NEW a
  PROVE  IsFiniteSet(FlightOf(a)) /\ Cardinality(FlightOf(a)) \in Nat
<1>1. IsFiniteSet(Runs) /\ FlightOf(a) \subseteq Runs
  BY AgentRunAssumption DEF FlightOf
<1> QED
  BY <1>1, FS_Subset, FS_CardinalityType

(* A run that begins is counted in. *)
LEMMA CountIn ==
  ASSUME RunTypeOK, ActiveRunsExact, NEW r \in Runs, ~InFlight(r), InFlight(r)',
         \A q \in Runs \ {r} : pc'[q] = pc[q],
         active' = [active EXCEPT ![Agent(r)] = @ + 1]
  PROVE  ActiveRunsExact' /\ active' \in [AgentIds -> Nat]
<1>1. SUFFICES ASSUME NEW a \in AgentIds
               PROVE  active'[a] = Cardinality(FlightOf(a)') /\ active'[a] \in Nat
  BY DEF ActiveRunsExact, FlightOf, RunTypeOK
<1>2. active[a] = Cardinality(FlightOf(a)) /\ active[a] \in Nat
  BY DEF ActiveRunsExact, FlightOf, RunTypeOK
<1>3. CASE a = Agent(r)
  <2>1. FlightOf(a)' = FlightOf(a) \cup {r} /\ r \notin FlightOf(a)
    BY <1>3 DEF FlightOf, InFlight, Agent
  <2>2. Cardinality(FlightOf(a)') = Cardinality(FlightOf(a)) + 1
    BY <2>1, FlightFinite, FS_AddElement
  <2> QED
    BY <1>2, <1>3, <2>2 DEF RunTypeOK
<1>4. CASE a # Agent(r)
  <2>1. FlightOf(a)' = FlightOf(a)
    BY <1>4 DEF FlightOf, InFlight, Agent
  <2> QED
    BY <1>2, <1>4, <2>1 DEF RunTypeOK
<1> QED
  BY <1>3, <1>4

(* A run that ends is counted out. *)
LEMMA CountOut ==
  ASSUME RunTypeOK, ActiveRunsExact, NEW r \in Runs, InFlight(r), ~InFlight(r)',
         \A q \in Runs \ {r} : pc'[q] = pc[q],
         active' = [active EXCEPT ![Agent(r)] = @ - 1]
  PROVE  ActiveRunsExact' /\ active' \in [AgentIds -> Nat]
<1>1. SUFFICES ASSUME NEW a \in AgentIds
               PROVE  active'[a] = Cardinality(FlightOf(a)') /\ active'[a] \in Nat
  BY DEF ActiveRunsExact, FlightOf, RunTypeOK
<1>2. active[a] = Cardinality(FlightOf(a)) /\ active[a] \in Nat
  BY DEF ActiveRunsExact, FlightOf, RunTypeOK
<1>3. CASE a = Agent(r)
  <2>1. FlightOf(a)' = FlightOf(a) \ {r} /\ r \in FlightOf(a)
    BY <1>3 DEF FlightOf, InFlight, Agent
  <2>2. /\ Cardinality(FlightOf(a)') = Cardinality(FlightOf(a)) - 1
        /\ Cardinality(FlightOf(a)') \in Nat
    BY <2>1, FlightFinite, FS_RemoveElement, FS_CardinalityType
  <2> QED
    BY <1>2, <1>3, <2>2 DEF RunTypeOK
<1>4. CASE a # Agent(r)
  <2>1. FlightOf(a)' = FlightOf(a)
    BY <1>4 DEF FlightOf, InFlight, Agent
  <2> QED
    BY <1>2, <1>4, <2>1 DEF RunTypeOK
<1> QED
  BY <1>3, <1>4

(* When the same runs are in flight, and the counts are as they were. *)
LEMMA CountKept ==
  ASSUME RunTypeOK, ActiveRunsExact, \A q \in Runs : InFlight(q)' <=> InFlight(q),
         active' = active
  PROVE  ActiveRunsExact'
<1>1. \A a \in AgentIds : FlightOf(a)' = FlightOf(a)
  BY DEF FlightOf, Agent
<1> QED
  BY <1>1 DEF ActiveRunsExact, FlightOf

----------------------------------------------------------------------------
(* The actions *)

(* A run that begins. *)
LEMMA StartStep ==
  ASSUME RunsInv, NEW r \in Runs, Start(r)
  PROVE  RunsInv'
<1> USE DEF RunsInv, RunsExact
<1> DEFINE c == ConvOf[r]
           number == IF row[c] # 0 THEN row[c] ELSE lastRow[c] + 1
           s == [conv |-> c, number |-> number]
<1>1. c \in Conversations /\ Agent(r) \in AgentIds /\ number \in Nat \ {0}
  BY AgentRunAssumption DEF Agent, RunTypeOK
<1>2. /\ pc[r] = "new" /\ pc' = [pc EXCEPT ![r] = "context"]
      /\ row' = [row EXCEPT ![c] = number] /\ lastRow' = [lastRow EXCEPT ![c] = number]
      /\ stored' = [stored EXCEPT ![c] = IF row[c] # 0 THEN @ ELSE {}]
      /\ session' = [session EXCEPT ![r] = s]
      /\ working' = [working EXCEPT ![r] = stored'[c] \cup {r}]
      /\ overlapped' = overlapped \cup Overlaps(r, s)
      /\ active' = [active EXCEPT ![Agent(r)] = @ + 1]
      /\ began' = [began EXCEPT ![r] = version]
      /\ UNCHANGED <<steps, timeout, config, crashes>>
  <2>1. PICK d \in IF Found(r) = {} THEN {ConvOf[r]} ELSE Found(r) :
          LET n == IF row[d] # 0 THEN row[d] ELSE lastRow[d] + 1
              t == [conv |-> d, number |-> n] IN
          /\ row' = [row EXCEPT ![d] = n]
          /\ lastRow' = [lastRow EXCEPT ![d] = n]
          /\ stored' = [stored EXCEPT ![d] = IF row[d] # 0 THEN @ ELSE {}]
          /\ session' = [session EXCEPT ![r] = t]
          /\ working' = [working EXCEPT ![r] = stored'[d] \cup {r}]
          /\ overlapped' = overlapped \cup Overlaps(r, t)
    BY DEF Start
  <2>2. d = c
    BY <2>1 DEF Found
  <2> QED
    BY <2>1, <2>2 DEF Start
<1>3. /\ ~InFlight(r) /\ InFlight(r)'
      /\ \A q \in Runs \ {r} : /\ pc'[q] = pc[q] /\ session'[q] = session[q]
                               /\ working'[q] = working[q] /\ (InFlight(q)' <=> InFlight(q))
      /\ session'[r] = s /\ working'[r] = stored'[c] \cup {r}
      /\ stored'[c] = IF row[c] # 0 THEN stored[c] ELSE {}
  BY <1>1, <1>2 DEF InFlight, Awaits, RunTypeOK
<1>4. ActiveRunsExact' /\ active' \in [AgentIds -> Nat]
  BY <1>2, <1>3, CountIn
<1>5. Overlaps(r, s) \subseteq Runs
  BY DEF Overlaps, Sharing
<1>6. RunTypeOK'
  BY <1>1, <1>2, <1>3, <1>4, <1>5 DEF RunTypeOK, Awaits, config
<1>7. SessionsIsolated'
  BY <1>1, <1>2 DEF SessionsIsolated, RunTypeOK
<1>8. StepLeft'
  BY <1>2 DEF StepLeft, RunTypeOK
<1>9. OwnSession'
  <2>1. \A q \in stored'[c] : ConvOf[q] = c
    BY <1>1, <1>3 DEF SessionsIsolated, RunTypeOK
  <2> QED
    BY <1>3, <2>1 DEF OwnSession, RunTypeOK
<1>10. \A d \in Conversations : lastRow[d] <= lastRow'[d] /\ (d # c => row'[d] = row[d])
  BY <1>1, <1>2 DEF RowsGrow, RunTypeOK
<1>11. RowsGrow'
  <2>1. \A d \in Conversations : row'[d] # 0 => row'[d] = lastRow'[d]
    BY <1>1, <1>2 DEF RowsGrow, RunTypeOK
  <2>2. ASSUME NEW q \in Runs PROVE session'[q].number <= lastRow'[session'[q].conv]
    <3>1. CASE q = r
      BY <1>1, <1>2, <1>3, <3>1 DEF RunTypeOK
    <3>2. CASE q # r
      <4>1. session'[q] = session[q] /\ session[q].conv \in Conversations
            /\ session[q].number \in Nat /\ session[q].number <= lastRow[session[q].conv]
        BY <1>3, <3>2 DEF RowsGrow, RunTypeOK
      <4>2. lastRow[session[q].conv] \in Nat /\ lastRow'[session[q].conv] \in Nat
        BY <1>6, <4>1 DEF RunTypeOK
      <4> QED
        BY <1>10, <4>1, <4>2
    <3> QED
      BY <3>1, <3>2
  <2> QED
    BY <2>1, <2>2 DEF RowsGrow
<1>12. OverlapKnown'
  <2>1. SUFFICES ASSUME NEW p \in Runs, NEW q \in Runs, InFlight(p)', InFlight(q)', p # q,
                        session'[p] = session'[q]
                 PROVE  p \in overlapped' /\ q \in overlapped'
    BY DEF OverlapKnown
  <2>2. CASE p # r /\ q # r
    BY <1>2, <1>3, <2>1, <2>2 DEF OverlapKnown
  <2>3. ASSUME NEW o \in Runs, o # r, InFlight(o)', session'[o] = s
        PROVE  o \in overlapped' /\ r \in overlapped'
    BY <1>2, <1>3, <2>3 DEF Overlaps, Sharing
  <2> QED
    BY <1>3, <2>1, <2>2, <2>3
(* An ended run whose row is there now had its row before. *)
<1>13. ASSUME NEW q \in Runs, pc'[q] \in Kept, RowExists(q)'
       PROVE  /\ q # r /\ pc[q] = pc'[q] /\ session'[q] = session[q] /\ RowExists(q)
              /\ session[q].conv = c => row[c] # 0
  <2>1. q # r /\ pc[q] = pc'[q] /\ session'[q] = session[q]
    BY <1>2, <1>3, <1>13 DEF Kept, RunTypeOK
  <2>2. /\ session[q].conv \in Conversations /\ session[q].number \in Nat \ {0}
        /\ row'[session[q].conv] = session[q].number
        /\ session[q].number <= lastRow[session[q].conv]
    BY <1>13, <2>1 DEF RowExists, RunTypeOK, RowsGrow
  <2>3. session[q].conv = c => row[c] # 0 /\ row'[c] = row[c]
    BY <1>1, <1>2, <2>2 DEF RunTypeOK
  <2> QED
    BY <1>10, <2>1, <2>2, <2>3 DEF RowExists
<1>14. AloneIsKept'
  <2>1. SUFFICES ASSUME NEW q \in Runs, pc'[q] \in Kept, q \notin overlapped', RowExists(q)'
                 PROVE  q \in stored'[session'[q].conv]
    BY DEF AloneIsKept, Kept
  <2>2. q \in stored[session[q].conv] /\ session'[q] = session[q]
        /\ (session[q].conv = c => row[c] # 0)
    BY <1>2, <1>13, <2>1 DEF AloneIsKept, Kept
  <2> QED
    BY <1>2, <2>2 DEF RunTypeOK
<1>15. HasRead'
  <2>1. SUFFICES ASSUME NEW p \in Runs, NEW q \in Runs, pc'[q] \in Kept, q \notin overlapped',
                        RowExists(q)', InFlight(p)', session'[p] = session'[q]
                 PROVE  q \in working'[p]
    BY DEF HasRead
  <2>2. /\ q # r /\ pc[q] \in Kept /\ session'[q] = session[q] /\ RowExists(q)
        /\ q \notin overlapped /\ (session[q].conv = c => row[c] # 0)
    BY <1>2, <1>13, <2>1
  <2>3. CASE p = r
    <3>1. session[q].conv = c
      BY <1>3, <2>1, <2>2, <2>3
    <3>2. q \in stored[c]
      BY <2>2, <3>1 DEF AloneIsKept, Kept
    <3> QED
      BY <1>3, <2>2, <2>3, <3>1, <3>2
  <2>4. CASE p # r
    BY <1>3, <2>1, <2>2, <2>4 DEF HasRead
  <2> QED
    BY <2>3, <2>4
<1> QED
  BY <1>4, <1>6, <1>7, <1>8, <1>9, <1>11, <1>12, <1>14, <1>15

(* A run that goes on, from one await to the next. *)
LEMMA AdvanceStep ==
  ASSUME RunsInv, NEW r \in Runs, NEW await \in Awaits, InFlight(r),
         pc' = [pc EXCEPT ![r] = await],
         UNCHANGED <<session, working, began, active, rowVars, config, overlapped, crashes>>,
         steps' \in [Runs -> 0 .. MaxSteps], timeout' \in [Runs -> Int],
         await = "model" => steps'[r] < MaxSteps,
         \A q \in Runs \ {r} : steps'[q] = steps[q]
  PROVE  RunsInv'
<1> USE DEF RunsInv, RunsExact, rowVars, config
<1>1. /\ \A q \in Runs : InFlight(q)' <=> InFlight(q)
      /\ \A q \in Runs : pc'[q] \in Kept => pc[q] = pc'[q]
      /\ \A q \in Runs : RowExists(q)' <=> RowExists(q)
  BY DEF InFlight, Awaits, Kept, RunTypeOK, RowExists
<1>2. ActiveRunsExact'
  BY <1>1, CountKept
<1>3. RunTypeOK'
  BY DEF RunTypeOK
<1>4. SessionsIsolated' /\ StepLeft' /\ OwnSession' /\ RowsGrow'
  BY <1>1 DEF SessionsIsolated, StepLeft, OwnSession, RowsGrow, RunTypeOK
<1>5. AloneIsKept'
  BY <1>1 DEF AloneIsKept, Kept
<1>6. OverlapKnown' /\ HasRead'
  BY <1>1 DEF OverlapKnown, HasRead
<1> QED
  BY <1>2, <1>3, <1>4, <1>5, <1>6

(* A run that ends with its transcript written back, or with a rejection when its row *)
(* is gone.                                                                            *)
LEMMA SettleStep ==
  ASSUME RunsInv, NEW r \in Runs, NEW how \in Kept, InFlight(r), Settle(r, how),
         UNCHANGED <<session, working, began, row, lastRow, config, overlapped, crashes>>,
         steps' \in [Runs -> 0 .. MaxSteps], timeout' \in [Runs -> Int],
         \A q \in Runs \ {r} : steps'[q] = steps[q]
  PROVE  RunsInv'
<1> USE DEF RunsInv, RunsExact, config
<1> DEFINE c == session[r].conv
<1>1. /\ pc' = [pc EXCEPT ![r] = IF RowExists(r) THEN how ELSE "rejected"]
      /\ stored' = [stored EXCEPT ![c] = IF RowExists(r) THEN working[r] ELSE @]
      /\ active' = [active EXCEPT ![Agent(r)] = @ - 1]
      /\ c \in Conversations /\ c = ConvOf[r] /\ r \in working[r]
  BY DEF Settle, RunTypeOK, OwnSession
<1>2. /\ ~InFlight(r)' /\ \A q \in Runs \ {r} : pc'[q] = pc[q]
      /\ \A q \in Runs : InFlight(q)' => InFlight(q) /\ q # r
      /\ \A q \in Runs : RowExists(q)' <=> RowExists(q)
  BY <1>1 DEF InFlight, Awaits, Kept, RunTypeOK, RowExists
<1>3. ActiveRunsExact' /\ active' \in [AgentIds -> Nat]
  BY <1>1, <1>2, CountOut
<1>4. RunTypeOK'
  BY <1>1, <1>3 DEF RunTypeOK, Kept, Ended
<1>5. SessionsIsolated'
  BY <1>1 DEF SessionsIsolated, OwnSession, RunTypeOK
<1>6. StepLeft'
  BY <1>1, <1>2 DEF StepLeft, RunTypeOK, Kept
<1>7. OwnSession' /\ RowsGrow' /\ OverlapKnown'
  BY <1>2 DEF OwnSession, RowsGrow, OverlapKnown
<1>8. pc'[r] \in Kept => RowExists(r) /\ r \in stored'[c]
  BY <1>1 DEF Kept, RunTypeOK
<1>9. ASSUME NEW q \in Runs, RowExists(q), RowExists(r), session[q].conv = c
      PROVE  session[q] = session[r]
  BY <1>9 DEF RowExists, RunTypeOK
<1>10. AloneIsKept'
  <2>1. SUFFICES ASSUME NEW q \in Runs, pc'[q] \in Kept, q \notin overlapped, RowExists(q)
                 PROVE  q \in stored'[session[q].conv]
    BY <1>2 DEF AloneIsKept, Kept
  <2>2. CASE q = r
    BY <1>8, <2>1, <2>2
  <2>3. CASE q # r
    <3>1. pc[q] \in Kept /\ q \in stored[session[q].conv]
      BY <1>2, <2>1, <2>3 DEF AloneIsKept, Kept
    <3>2. RowExists(r) /\ session[q].conv = c => q \in working[r]
      BY <1>9, <2>1, <3>1 DEF HasRead
    <3> QED
      BY <1>1, <3>1, <3>2 DEF RunTypeOK
  <2> QED
    BY <2>2, <2>3
<1>11. HasRead'
  <2>1. SUFFICES ASSUME NEW p \in Runs, NEW q \in Runs, pc'[q] \in Kept, q \notin overlapped,
                        RowExists(q), InFlight(p), p # r, session[p] = session[q]
                 PROVE  q \in working[p]
    BY <1>2 DEF HasRead
  <2>2. CASE q = r
    BY <2>1, <2>2 DEF OverlapKnown
  <2>3. CASE q # r
    BY <1>2, <2>1, <2>3 DEF HasRead
  <2> QED
    BY <2>2, <2>3
<1> QED
  BY <1>3, <1>4, <1>5, <1>6, <1>7, <1>10, <1>11

(* A run that is rejected before its first call. *)
LEMMA ContextFailsStep ==
  ASSUME RunsInv, NEW r \in Runs, ContextFails(r)
  PROVE  RunsInv'
<1> USE DEF RunsInv, RunsExact, config, rowVars, own
<1>1. /\ pc[r] = "context" /\ pc' = [pc EXCEPT ![r] = "rejected"]
      /\ active' = [active EXCEPT ![Agent(r)] = @ - 1]
      /\ UNCHANGED <<session, working, steps, began, timeout, row, lastRow, stored>>
      /\ UNCHANGED <<agents, version, overlapped, crashes>>
  BY DEF ContextFails
<1>2. /\ InFlight(r) /\ ~InFlight(r)' /\ \A q \in Runs \ {r} : pc'[q] = pc[q]
      /\ \A q \in Runs : InFlight(q)' => InFlight(q)
      /\ \A q \in Runs : pc'[q] \in Kept => pc[q] = pc'[q]
      /\ \A q \in Runs : RowExists(q)' <=> RowExists(q)
  BY <1>1 DEF InFlight, Awaits, Kept, RunTypeOK, RowExists
<1>3. ActiveRunsExact' /\ active' \in [AgentIds -> Nat]
  BY <1>1, <1>2, CountOut
<1>4. RunTypeOK'
  BY <1>1, <1>3 DEF RunTypeOK, Ended
<1>5. SessionsIsolated' /\ StepLeft' /\ OwnSession' /\ RowsGrow'
  BY <1>1, <1>2 DEF SessionsIsolated, StepLeft, OwnSession, RowsGrow, RunTypeOK
<1>6. AloneIsKept'
  BY <1>1, <1>2 DEF AloneIsKept, Kept
<1>7. OverlapKnown' /\ HasRead'
  BY <1>1, <1>2 DEF OverlapKnown, HasRead
<1> QED
  BY <1>3, <1>4, <1>5, <1>6, <1>7

(* A call that is turned away, a reload, a crash: no transcript is touched. *)
LEMMA AsideStep ==
  ASSUME RunsInv,
         (\E r \in Runs : TurnAway(r)) \/ (\E list \in SUBSET AgentIds : Reload(list))
           \/ Crash \/ UNCHANGED runVars
  PROVE  RunsInv'
<1> USE DEF RunsInv, RunsExact, config, rowVars, own, runVars
<1>1. /\ UNCHANGED <<session, working, steps, began, timeout, row, lastRow, stored, overlapped>>
      /\ RunTypeOK'
  BY DEF TurnAway, Reload, Crash, RunTypeOK, InFlight, Awaits, Ended
<1>2. /\ \A q \in Runs : InFlight(q)' => InFlight(q)
      /\ \A q \in Runs : pc'[q] \in Kept \cup {"model"} => pc[q] = pc'[q]
      /\ \A q \in Runs : RowExists(q)' <=> RowExists(q)
  BY <1>1 DEF TurnAway, Reload, Crash, RunTypeOK, InFlight, Awaits, Kept, RowExists
<1>3. ActiveRunsExact'
  <2>1. CASE Crash
    <3>1. \A a \in AgentIds : active'[a] = 0 /\ FlightOf(a)' = {}
      BY <2>1 DEF Crash, FlightOf, InFlight, Awaits
    <3> QED
      BY <3>1, FS_EmptySet DEF ActiveRunsExact, FlightOf
  <2>2. CASE ~Crash
    <3>1. active' = active /\ \A q \in Runs : InFlight(q)' <=> InFlight(q)
      BY <2>2 DEF TurnAway, Reload, RunTypeOK, InFlight, Awaits
    <3> QED
      BY <3>1, CountKept
  <2> QED
    BY <2>1, <2>2
<1>4. SessionsIsolated' /\ StepLeft' /\ OwnSession' /\ RowsGrow'
  BY <1>1, <1>2 DEF SessionsIsolated, StepLeft, OwnSession, RowsGrow
<1>5. AloneIsKept'
  BY <1>1, <1>2 DEF AloneIsKept, Kept
<1>6. OverlapKnown' /\ HasRead'
  BY <1>1, <1>2 DEF OverlapKnown, HasRead
<1> QED
  BY <1>1, <1>3, <1>4, <1>5, <1>6

(* A session that is deleted. *)
LEMMA PurgeStep ==
  ASSUME RunsInv, NEW c \in Conversations, Purge(c)
  PROVE  RunsInv'
<1> USE DEF RunsInv, RunsExact, config, own
<1>1. /\ row' = [row EXCEPT ![c] = 0] /\ stored' = [stored EXCEPT ![c] = {}]
      /\ UNCHANGED <<pc, session, working, steps, began, timeout, active, lastRow>>
      /\ UNCHANGED <<agents, version, overlapped, crashes>>
  BY DEF Purge
<1>2. \A q \in Runs : /\ InFlight(q)' <=> InFlight(q)
                      /\ RowExists(q)' => RowExists(q) /\ session[q].conv # c
  BY <1>1 DEF InFlight, RowExists, RunTypeOK
<1>3. RunTypeOK' /\ ActiveRunsExact'
  BY <1>1, <1>2, CountKept DEF RunTypeOK
<1>4. SessionsIsolated' /\ StepLeft' /\ OwnSession' /\ RowsGrow'
  BY <1>1, <1>2 DEF SessionsIsolated, StepLeft, OwnSession, RowsGrow, RunTypeOK
<1>5. AloneIsKept'
  BY <1>1, <1>2 DEF AloneIsKept, Kept, RunTypeOK
<1>6. OverlapKnown' /\ HasRead'
  BY <1>1, <1>2 DEF OverlapKnown, HasRead
<1> QED
  BY <1>3, <1>4, <1>5, <1>6

(* A step of a run in flight goes on, settles, or is rejected. *)
LEMMA RunStep ==
  ASSUME RunsInv, NEW r \in Runs, Step(r)
  PROVE  RunsInv'
<1> USE DEF own, rowVars
<1>1. /\ steps \in [Runs -> 0 .. MaxSteps] /\ timeout \in [Runs -> Int] /\ version \in Nat
      /\ MaxSteps \in Nat \ {0} /\ (pc[r] = "model" => steps[r] < MaxSteps)
  BY AgentRunAssumption DEF RunsInv, RunsExact, RunTypeOK, StepLeft
<1>2. CASE ContextFails(r)
  BY <1>2, ContextFailsStep
<1>3. CASE CallModel(r) \/ CachedTools(r) \/ ModelAsksForTools(r)
  <2>1. /\ InFlight(r) /\ (pc'= [pc EXCEPT ![r] = "model"] \/ pc' = [pc EXCEPT ![r] = "tools"])
        /\ UNCHANGED <<session, working, began, active, rowVars, config, overlapped, crashes>>
    BY <1>3 DEF CallModel, CachedTools, ModelAsksForTools, AtLoopHead, InFlight, Awaits
  <2>2. /\ steps' \in [Runs -> 0 .. MaxSteps] /\ timeout' \in [Runs -> Int]
        /\ \A q \in Runs \ {r} : steps'[q] = steps[q]
    BY <1>1, <1>3 DEF CallModel, CachedTools, ModelAsksForTools, AtLoopHead
  <2>3. pc' = [pc EXCEPT ![r] = "model"] => steps'[r] < MaxSteps
    BY <1>1, <1>3 DEF CallModel, CachedTools, ModelAsksForTools, AtLoopHead, RunsInv, RunsExact,
                      RunTypeOK
  <2>4. "model" \in Awaits /\ "tools" \in Awaits
    BY DEF Awaits
  <2> QED
    BY <2>1, <2>2, <2>3, <2>4, AdvanceStep
<1>4. CASE CachedAnswer(r) \/ Abort(r) \/ ModelAnswers(r) \/ ModelFails(r) \/ OutOfSteps(r)
  <2>1. PICK how \in Kept : Settle(r, how)
    BY <1>4 DEF CachedAnswer, Abort, ModelAnswers, ModelFails, OutOfSteps, Kept
  <2>2. /\ InFlight(r)
        /\ UNCHANGED <<session, working, began, row, lastRow, config, overlapped, crashes>>
    BY <1>4 DEF CachedAnswer, Abort, ModelAnswers, ModelFails, OutOfSteps, AtLoopHead,
                InFlight, Awaits
  <2>3. /\ steps' \in [Runs -> 0 .. MaxSteps] /\ timeout' \in [Runs -> Int]
        /\ \A q \in Runs \ {r} : steps'[q] = steps[q]
    BY <1>1, <1>4 DEF CachedAnswer, Abort, ModelAnswers, ModelFails, OutOfSteps, AtLoopHead
  <2> QED
    BY <2>1, <2>2, <2>3, SettleStep
<1> QED
  BY <1>2, <1>3, <1>4 DEF Step

\* The invariant holds of a gateway that has just started.
LEMMA RunsInit == RunInit => RunsInv
<1>1. SUFFICES ASSUME RunInit PROVE RunsInv
  OBVIOUS
<1>2. \A r \in Runs : ~InFlight(r) /\ pc[r] \notin Kept /\ pc[r] # "model"
  BY <1>1 DEF RunInit, InFlight, Awaits, Kept
<1>3. RunTypeOK
  BY <1>1, AgentRunAssumption DEF RunInit, RunTypeOK, NoSession
<1>4. ActiveRunsExact
  <2>1. \A a \in AgentIds : FlightOf(a) = {} /\ active[a] = 0
    BY <1>1, <1>2 DEF FlightOf, RunInit
  <2> QED
    BY <2>1, FS_EmptySet DEF ActiveRunsExact, FlightOf
<1>5. SessionsIsolated /\ OwnSession /\ RowsGrow
  BY <1>1, <1>2, AgentRunAssumption DEF RunInit, SessionsIsolated, OwnSession, RowsGrow, NoSession
<1>6. AloneIsKept /\ StepLeft /\ OverlapKnown /\ HasRead
  BY <1>2 DEF AloneIsKept, StepLeft, OverlapKnown, HasRead, Kept
<1> QED
  BY <1>3, <1>4, <1>5, <1>6 DEF RunsInv, RunsExact

(* The invariant holds throughout. *)
THEOREM RunsInvariance == RunSpec => []RunsInv
<1>1. RunInit => RunsInv
  BY RunsInit
<1>2. RunsInv /\ [RunNext]_runVars => RunsInv'
  BY StartStep, RunStep, PurgeStep, AsideStep DEF RunNext
<1> QED
  BY <1>1, <1>2, PTL DEF RunSpec

(* The dashboard's count of an agent's runs is true on every exit, conversations are  *)
(* apart, and a run that shared its session with no other stays in the transcript     *)
(* while the row lives (AgentRuntime.run, SessionStore.create, update and purge).     *)
THEOREM RunsAreExact == RunSpec => []RunsExact
<1>1. RunsInv => RunsExact
  BY DEF RunsInv
<1> QED
  BY <1>1, RunsInvariance, PTL

(* A call returns success only for an exchange that is in its conversation's row. *)
THEOREM SuccessesAreStored == RunSpec => SuccessIsStored
<1>1. ASSUME RunsInv, [RunNext]_runVars, NEW r \in Runs, pc[r] # "done", pc'[r] = "done"
      PROVE  /\ row'[ConvOf[r]] = session[r].number
             /\ r \in stored'[ConvOf[r]]
  <2> USE DEF RunsInv, RunsExact
  <2>1. PICK q \in Runs : Step(q)
    BY <1>1 DEF RunNext, runVars, TurnAway, Start, Purge, Reload, Crash, RunTypeOK
  <2>2. PICK how \in Kept : InFlight(q) /\ Settle(q, how) /\ UNCHANGED <<session, row>>
    <3>1. CASE ContextFails(q) \/ CallModel(q) \/ CachedTools(q) \/ ModelAsksForTools(q)
      BY <1>1, <3>1 DEF ContextFails, CallModel, CachedTools, ModelAsksForTools, RunTypeOK
    <3>2. CASE CachedAnswer(q) \/ Abort(q) \/ ModelAnswers(q) \/ ModelFails(q) \/ OutOfSteps(q)
      BY <3>2 DEF CachedAnswer, Abort, ModelAnswers, ModelFails, OutOfSteps, AtLoopHead,
                  InFlight, Awaits, own, Kept
    <3> QED
      BY <2>1, <3>1, <3>2 DEF Step
  <2>3. q = r /\ RowExists(r)
    BY <1>1, <2>2 DEF Settle, RunTypeOK
  <2>4. session[r].conv = ConvOf[r] /\ r \in working[r] /\ ConvOf[r] \in Conversations
    BY <1>1, <2>2, <2>3, AgentRunAssumption DEF OwnSession
  <2>5. stored'[ConvOf[r]] = working[r] /\ row'[ConvOf[r]] = session[r].number
    BY <1>1, <2>2, <2>3, <2>4 DEF Settle, RowExists, RunTypeOK
  <2> QED
    BY <2>4, <2>5
<1>2. RunsInv /\ [RunNext]_runVars =>
        [\A r \in Runs : pc[r] # "done" /\ pc'[r] = "done" =>
           /\ row'[ConvOf[r]] = session[r].number
           /\ r \in stored'[ConvOf[r]]]_runVars
  BY <1>1
<1> QED
  BY <1>2, RunsInvariance, PTL DEF RunSpec, SuccessIsStored

----------------------------------------------------------------------------
(***************************************************************************)
(* The budget. That usage stays below the limit plus a call of every loop  *)
(* is not inductive: a loop that has passed the check may record at any    *)
(* time, so the calls in flight are counted as if they had been recorded.  *)
(***************************************************************************)

BudgetInv == TypeOK /\ InFlightAccounted

\* What all calls in flight for an agent may still add.
Due(a) == Cardinality(Calling(a)) * MaxUse

\* What every loop together may add.
Slack == Cardinality(Loops) * MaxUse

(* The calls in flight for an agent are finitely many: at most one a loop. *)
LEMMA CallingFinite ==
  ASSUME NEW a \in Agents
  PROVE  /\ IsFiniteSet(Calling(a))
         /\ Cardinality(Calling(a)) \in Nat
         /\ Cardinality(Loops) \in Nat
         /\ Cardinality(Calling(a)) <= Cardinality(Loops)
<1>1. Calling(a) \subseteq Loops
  BY DEF Calling
<1>2. IsFiniteSet(Loops)
  BY BudgetAssumption
<1>3. IsFiniteSet(Calling(a)) /\ Cardinality(Calling(a)) <= Cardinality(Loops)
  BY <1>1, <1>2, FS_Subset
<1> QED
  BY <1>2, <1>3, FS_CardinalityType

(* A product with a smaller factor is smaller. *)
LEMMA TimesMonotone ==
  ASSUME NEW j \in Nat, NEW k \in Nat, NEW m \in Nat, j <= k
  PROVE  j * m \in Nat /\ k * m \in Nat /\ j * m <= k * m
<1>1. PICK d \in Nat : k = j + d
  <2> DEFINE d == k - j
  <2>1. d \in Nat /\ k = j + d
    OBVIOUS
  <2> QED
    BY <2>1
<1>2. k * m = j * m + d * m
  BY <1>1
<1>3. j * m \in Nat /\ d * m \in Nat /\ k * m \in Nat
  BY <1>1
<1> QED
  BY <1>2, <1>3

(* One loop more in flight, one call more due. *)
LEMMA TimesSuccessor ==
  ASSUME NEW k \in Nat, NEW m \in Nat
  PROVE  (k + 1) * m = k * m + m
OBVIOUS

(* The calls in flight after a step are at most one a loop as well. *)
LEMMA CallingFiniteNext ==
  ASSUME NEW a \in Agents
  PROVE  /\ IsFiniteSet(Calling(a)')
         /\ Cardinality(Calling(a)') \in Nat
         /\ Cardinality(Calling(a)') <= Cardinality(Loops)
<1>1. Calling(a)' \subseteq Loops
  BY DEF Calling
<1> QED
  BY <1>1, BudgetAssumption, FS_Subset, FS_CardinalityType

(* If no call begins and nothing is recorded, nothing more is due. *)
LEMMA FewerCallsLessDue ==
  ASSUME NEW a \in Agents, Calling(a)' \subseteq Calling(a)
  PROVE  Cardinality(Calling(a)') * MaxUse <= Due(a)
<1>1. Cardinality(Calling(a)') <= Cardinality(Calling(a))
  BY CallingFinite, FS_Subset
<1> QED
  BY <1>1, CallingFinite, CallingFiniteNext, TimesMonotone, BudgetAssumption DEF Due

(* A window that only shrinks while no call begins stays accounted for. *)
LEMMA Shrinking ==
  ASSUME TypeOK, InFlightAccounted, TypeOK', action' = action,
         \A a \in Agents : Calling(a)' \subseteq Calling(a),
         \A a \in Agents : day'[a] <= day[a] /\ month'[a] <= month[a]
  PROVE  InFlightAccounted'
<1> SUFFICES ASSUME NEW a \in Agents, action # "warn"
             PROVE  /\ MonthlyLimit > 0 =>
                         month'[a] + Cardinality(Calling(a)') * MaxUse
                           <= MonthlyLimit + Cardinality(Loops) * MaxUse
                    /\ DailyLimit > 0 =>
                         day'[a] + Cardinality(Calling(a)') * MaxUse
                           <= DailyLimit + Cardinality(Loops) * MaxUse
  BY DEF InFlightAccounted
<1>1. Cardinality(Calling(a)') * MaxUse <= Due(a)
  BY FewerCallsLessDue
<1>2. /\ Cardinality(Calling(a)') * MaxUse \in Nat
      /\ Due(a) \in Nat /\ Slack \in Nat
  BY CallingFinite, CallingFiniteNext, TimesMonotone, BudgetAssumption DEF Due, Slack
<1>3. /\ MonthlyLimit > 0 => month[a] + Due(a) <= MonthlyLimit + Slack
      /\ DailyLimit > 0 => day[a] + Due(a) <= DailyLimit + Slack
  BY DEF InFlightAccounted, Due, Slack
<1>4. /\ month[a] \in Nat /\ day[a] \in Nat /\ month'[a] \in Nat /\ day'[a] \in Nat
      /\ day'[a] <= day[a] /\ month'[a] <= month[a]
  BY DEF TypeOK
<1> QED
  BY <1>1, <1>2, <1>3, <1>4, BudgetAssumption DEF Slack

(* The type invariant is kept by every step. *)
LEMMA TypeStep ==
  ASSUME TypeOK, [Next]_vars
  PROVE  TypeOK'
<1> USE BudgetAssumption DEF TypeOK, usage, loops
<1>1. ASSUME NEW l \in Loops, Begin(l) PROVE TypeOK'
  BY <1>1 DEF Begin
<1>2. ASSUME NEW l \in Loops, End(l) PROVE TypeOK'
  BY <1>2 DEF End
<1>3. ASSUME NEW l \in Loops, NEW e \in 0 .. MaxEstimate, Call(l, e) PROVE TypeOK'
  BY <1>3 DEF Call
<1>4. ASSUME NEW l \in Loops, NEW e \in 0 .. MaxEstimate, Refuse(l, e) PROVE TypeOK'
  BY <1>4 DEF Refuse, PausedAfter
<1>5. ASSUME NEW l \in Loops, NEW e \in 0 .. MaxEstimate, CacheHit(l, e) PROVE TypeOK'
  BY <1>5 DEF CacheHit
<1>6. ASSUME NEW l \in Loops, NEW u \in 1 .. MaxUse, Record(l, u) PROVE TypeOK'
  BY <1>6 DEF Record
<1>7. ASSUME NEW a \in Agents, NEW left \in 0 .. MaxUsage, DayPasses(a, left)
      PROVE  TypeOK'
  BY <1>7, BudgetAssumption DEF DayPasses
<1>8. ASSUME NEW a \in Agents, NEW left \in 0 .. MaxUsage, MonthPasses(a, left)
      PROVE  TypeOK'
  BY <1>8, BudgetAssumption DEF MonthPasses
<1>9. ASSUME NEW a \in Agents, CliResume(a) PROVE TypeOK'
  BY <1>9 DEF CliResume
<1>10. CASE Restart
  BY <1>10 DEF Restart
<1>11. CASE UNCHANGED vars
  BY <1>11 DEF vars
<1> QED
  BY <1>1, <1>2, <1>3, <1>4, <1>5, <1>6, <1>7, <1>8, <1>9, <1>10, <1>11 DEF Next

(* A call that the check lets through is within the limit by itself, so even *)
(* with a call of every loop in flight the bound holds.                      *)
LEMMA CallStep ==
  ASSUME TypeOK, InFlightAccounted, NEW l \in Loops, NEW e \in 0 .. MaxEstimate, Call(l, e)
  PROVE  InFlightAccounted'
<1> SUFFICES ASSUME NEW a \in Agents, action # "warn"
             PROVE  /\ MonthlyLimit > 0 =>
                         month[a] + Cardinality(Calling(a)') * MaxUse
                           <= MonthlyLimit + Cardinality(Loops) * MaxUse
                    /\ DailyLimit > 0 =>
                         day[a] + Cardinality(Calling(a)') * MaxUse
                           <= DailyLimit + Cardinality(Loops) * MaxUse
  BY DEF InFlightAccounted, Call, usage
<1>1. CASE a = AgentOf[l]
  <2>1. /\ MonthlyLimit > 0 => month[a] <= MonthlyLimit
        /\ DailyLimit > 0 => day[a] <= DailyLimit
    BY <1>1, BudgetAssumption DEF Call, Allowed, Overrun, Over, TypeOK
  <2>2. /\ Cardinality(Calling(a)') * MaxUse \in Nat
        /\ Cardinality(Loops) * MaxUse \in Nat
        /\ Cardinality(Calling(a)') * MaxUse <= Cardinality(Loops) * MaxUse
    BY CallingFinite, CallingFiniteNext, TimesMonotone, BudgetAssumption
  <2>3. month[a] \in Nat /\ day[a] \in Nat
    BY DEF TypeOK
  <2> QED
    BY <2>1, <2>2, <2>3, BudgetAssumption
<1>2. CASE a # AgentOf[l]
  <2>1. Calling(a)' = Calling(a)
    BY <1>2 DEF Calling, Call, TypeOK
  <2> QED
    BY <2>1 DEF InFlightAccounted
<1> QED
  BY <1>1, <1>2

(* What a call records it no longer owes. *)
LEMMA RecordStep ==
  ASSUME TypeOK, InFlightAccounted, NEW l \in Loops, NEW u \in 1 .. MaxUse, Record(l, u)
  PROVE  InFlightAccounted'
<1> SUFFICES ASSUME NEW a \in Agents, action # "warn"
             PROVE  /\ MonthlyLimit > 0 =>
                         month'[a] + Cardinality(Calling(a)') * MaxUse
                           <= MonthlyLimit + Cardinality(Loops) * MaxUse
                    /\ DailyLimit > 0 =>
                         day'[a] + Cardinality(Calling(a)') * MaxUse
                           <= DailyLimit + Cardinality(Loops) * MaxUse
  BY DEF InFlightAccounted, Record
<1>1. CASE a = AgentOf[l]
  <2> DEFINE k == Cardinality(Calling(a)')
  <2>1. l \in Calling(a) /\ Calling(a)' = Calling(a) \ {l}
    BY <1>1 DEF Calling, Record, TypeOK
  <2>2. k \in Nat /\ Cardinality(Calling(a)) = k + 1
    <3>1. IsFiniteSet(Calling(a)) /\ Cardinality(Calling(a)) \in Nat /\ k \in Nat
      BY CallingFinite, CallingFiniteNext
    <3>2. Cardinality(Calling(a) \ {l}) = Cardinality(Calling(a)) - 1
      BY <2>1, <3>1, FS_RemoveElement
    <3> QED
      BY <2>1, <3>1, <3>2
  <2>3. Due(a) = k * MaxUse + MaxUse
    BY <2>2, TimesSuccessor, BudgetAssumption DEF Due
  <2>4. k * MaxUse \in Nat /\ Slack \in Nat
    BY <2>2, CallingFinite, TimesMonotone, BudgetAssumption DEF Slack
  <2>5. /\ MonthlyLimit > 0 => month[a] + Due(a) <= MonthlyLimit + Slack
        /\ DailyLimit > 0 => day[a] + Due(a) <= DailyLimit + Slack
    BY DEF InFlightAccounted, Due, Slack
  <2>6. /\ month'[a] = month[a] + u /\ day'[a] = day[a] + u
        /\ month[a] \in Nat /\ day[a] \in Nat /\ u \in Nat /\ u <= MaxUse
    BY <1>1, BudgetAssumption DEF Record, TypeOK
  <2> HIDE DEF k
  <2>7. /\ MonthlyLimit > 0 => month'[a] + k * MaxUse <= MonthlyLimit + Slack
        /\ DailyLimit > 0 => day'[a] + k * MaxUse <= DailyLimit + Slack
    BY <2>3, <2>4, <2>5, <2>6, BudgetAssumption
  <2> QED
    BY <2>7 DEF k, Slack
<1>2. CASE a # AgentOf[l]
  <2>1. Calling(a)' = Calling(a) /\ month'[a] = month[a] /\ day'[a] = day[a]
    BY <1>2 DEF Calling, Record, TypeOK
  <2> QED
    BY <2>1 DEF InFlightAccounted
<1> QED
  BY <1>1, <1>2

(* The invariant with what is in flight holds initially and is kept.        *)
THEOREM Accounted == Spec => []BudgetInv
<1>1. Init => BudgetInv
  <2> SUFFICES ASSUME Init PROVE BudgetInv
    OBVIOUS
  <2>1. TypeOK
    BY DEF Init, TypeOK
  <2>2. ASSUME NEW a \in Agents
        PROVE  /\ Calling(a) = {} /\ month[a] = 0 /\ day[a] = 0
               /\ Cardinality(Calling(a)) * MaxUse = 0
               /\ Cardinality(Loops) * MaxUse \in Nat
    <3>1. Calling(a) = {} /\ month[a] = 0 /\ day[a] = 0
      BY DEF Init, Calling
    <3>2. Cardinality(Calling(a)) = 0
      BY <3>1, FS_EmptySet
    <3> QED
      BY <3>1, <3>2, CallingFinite, TimesMonotone, BudgetAssumption
  <2>3. InFlightAccounted
    BY <2>2, BudgetAssumption DEF InFlightAccounted
  <2> QED
    BY <2>1, <2>3 DEF BudgetInv
<1>2. BudgetInv /\ [Next]_vars => BudgetInv'
  <2> SUFFICES ASSUME BudgetInv, [Next]_vars PROVE BudgetInv'
    OBVIOUS
  <2>1. TypeOK /\ InFlightAccounted /\ TypeOK'
    BY TypeStep DEF BudgetInv
  <2> DEFINE Shrinks == /\ action' = action
                        /\ \A a \in Agents : Calling(a)' \subseteq Calling(a)
                        /\ \A a \in Agents : day'[a] <= day[a] /\ month'[a] <= month[a]
  <2>2. \A a \in Agents : day[a] \in Nat /\ month[a] \in Nat
    BY <2>1 DEF TypeOK
  <2>3. ASSUME NEW l \in Loops, Begin(l) PROVE Shrinks
    BY <2>1, <2>2, <2>3 DEF Begin, Calling, usage, TypeOK
  <2>4. ASSUME NEW l \in Loops, End(l) PROVE Shrinks
    BY <2>1, <2>2, <2>4 DEF End, Calling, usage, TypeOK
  <2>5. ASSUME NEW l \in Loops, NEW e \in 0 .. MaxEstimate, Refuse(l, e) PROVE Shrinks
    BY <2>1, <2>2, <2>5 DEF Refuse, Calling, usage, TypeOK
  <2>6. ASSUME NEW l \in Loops, NEW e \in 0 .. MaxEstimate, CacheHit(l, e) PROVE Shrinks
    BY <2>1, <2>2, <2>6 DEF CacheHit, Calling, usage, TypeOK
  <2>7. ASSUME NEW a \in Agents, NEW left \in 0 .. MaxUsage, DayPasses(a, left)
        PROVE  Shrinks
    BY <2>1, <2>2, <2>7, BudgetAssumption DEF DayPasses, Calling, loops, TypeOK
  <2>8. ASSUME NEW a \in Agents, NEW left \in 0 .. MaxUsage, MonthPasses(a, left)
        PROVE  Shrinks
    BY <2>1, <2>2, <2>8, BudgetAssumption DEF MonthPasses, Calling, loops, TypeOK
  <2>9. ASSUME NEW a \in Agents, CliResume(a) PROVE Shrinks
    BY <2>1, <2>2, <2>9 DEF CliResume, Calling, usage, loops, TypeOK
  <2>10. CASE Restart
    <3>1. Shrinks
      BY <2>1, <2>2, <2>10 DEF Restart, Calling, usage, TypeOK
    <3> QED
      BY <3>1, <2>1, Shrinking DEF BudgetInv
  <2>11. CASE UNCHANGED vars
    <3>1. Shrinks
      BY <2>1, <2>2, <2>11 DEF vars, Calling, usage, loops, TypeOK
    <3> QED
      BY <3>1, <2>1, Shrinking DEF BudgetInv
  <2>12. Shrinks => InFlightAccounted'
    BY <2>1, Shrinking
  <2>13. ASSUME NEW l \in Loops, NEW e \in 0 .. MaxEstimate, Call(l, e)
         PROVE InFlightAccounted'
    BY <2>1, <2>13, CallStep
  <2>14. ASSUME NEW l \in Loops, NEW u \in 1 .. MaxUse, Record(l, u)
         PROVE InFlightAccounted'
    BY <2>1, <2>14, RecordStep
  <2> HIDE DEF Shrinks
  <2>15. CASE Next
    BY <2>1, <2>3, <2>4, <2>5, <2>6, <2>7, <2>8, <2>9, <2>10, <2>12, <2>13, <2>14, <2>15
       DEF Next, BudgetInv
  <2> QED
    BY <2>11, <2>15
<1> QED
  BY <1>1, <1>2, PTL DEF Spec

(* check, await and record: every variable keeps its type on any schedule   *)
(* of the loops, the clock, the command line and restarts.                   *)
THEOREM TypeCorrect == Spec => []TypeOK
<1>1. BudgetInv => TypeOK
  BY DEF BudgetInv
<1> QED
  BY <1>1, Accounted, PTL

(* The recorded usage and the calls still awaited together stay within the  *)
(* limit plus a call of every loop.                                          *)
THEOREM InFlightIsAccounted == Spec => []InFlightAccounted
<1>1. BudgetInv => InFlightAccounted
  BY DEF BudgetInv
<1> QED
  BY <1>1, Accounted, PTL

(* However the loops interleave, usage passes a limit of a policy that       *)
(* blocks or pauses by less than one call of each loop.                      *)
THEOREM OvershootIsBounded == Spec => []OvershootBounded
<1>1. BudgetInv => OvershootBounded
  <2> SUFFICES ASSUME BudgetInv, NEW a \in Agents, action # "warn"
               PROVE  /\ MonthlyLimit > 0 =>
                           month[a] <= MonthlyLimit + Cardinality(Loops) * MaxUse
                      /\ DailyLimit > 0 =>
                           day[a] <= DailyLimit + Cardinality(Loops) * MaxUse
    BY DEF OvershootBounded
  <2>1. Due(a) \in Nat /\ Slack \in Nat
    BY CallingFinite, TimesMonotone, BudgetAssumption DEF Due, Slack
  <2>2. /\ MonthlyLimit > 0 => month[a] + Due(a) <= MonthlyLimit + Slack
        /\ DailyLimit > 0 => day[a] + Due(a) <= DailyLimit + Slack
    BY DEF BudgetInv, InFlightAccounted, Due, Slack
  <2>3. month[a] \in Nat /\ day[a] \in Nat
    BY DEF BudgetInv, TypeOK
  <2> QED
    BY <2>1, <2>2, <2>3, BudgetAssumption DEF Slack
<1> QED
  BY <1>1, Accounted, PTL

(* A policy that only warns never pauses an agent and never refuses a run.  *)
THEOREM WarnIsHarmless == Spec => []WarnOnlyWarns
<1> DEFINE W == TypeOK /\ WarnOnlyWarns
<1>1. Init => W
  BY DEF Init, TypeOK, WarnOnlyWarns
<1>2. TypeOK /\ WarnOnlyWarns /\ [Next]_vars => WarnOnlyWarns'
  <2> SUFFICES ASSUME TypeOK, WarnOnlyWarns, [Next]_vars, action' = "warn"
               PROVE  paused' = {} /\ \A l \in Loops : outcome'[l] # "refused"
    BY DEF WarnOnlyWarns
  <2>1. action = "warn"
    BY DEF Next, Begin, End, Call, Refuse, CacheHit, Record, DayPasses, MonthPasses,
           CliResume, Restart, vars
  <2>2. paused = {} /\ \A l \in Loops : outcome[l] # "refused"
    BY <2>1 DEF WarnOnlyWarns
  <2>3. ASSUME NEW l \in Loops, NEW e \in 0 .. MaxEstimate, Refuse(l, e)
        PROVE  paused' = {} /\ \A k \in Loops : outcome'[k] # "refused"
    <3>1. e > PerRunCap
      BY <2>1, <2>2, <2>3, BudgetAssumption DEF Refuse, Allowed
    <3> QED
      BY <2>1, <2>2, <2>3, <3>1, BudgetAssumption DEF Refuse, PausedAfter, Pauses, TypeOK
  <2>4. ASSUME NEW l \in Loops, Begin(l) \/ End(l)
        PROVE  paused' = {} /\ \A k \in Loops : outcome'[k] # "refused"
    BY <2>2, <2>4 DEF Begin, End, TypeOK
  <2>5. CASE Restart
    BY <2>5 DEF Restart
  <2>6. CASE UNCHANGED <<paused, outcome>>
    BY <2>2, <2>6
  <2> QED
    BY <2>3, <2>4, <2>5, <2>6
       DEF Next, Call, CacheHit, Record, DayPasses, MonthPasses, CliResume, vars, loops
<1>3. TypeOK /\ [Next]_vars => TypeOK'
  BY TypeStep
<1>4. W => WarnOnlyWarns
  OBVIOUS
<1> QED
  BY <1>1, <1>2, <1>3, <1>4, PTL DEF Spec

(* All of it: what the tracker lets through, what is in flight, and a policy   *)
(* that only warns (check and record of budget-tracker.ts).                    *)
THEOREM BudgetIsHeld == Spec => []BudgetHolds
BY TypeCorrect, InFlightIsAccounted, OvershootIsBounded, WarnIsHarmless, PTL DEF BudgetHolds

----------------------------------------------------------------------------
(***************************************************************************)
(* Skills. The state file is written whole from a process's own copy, so   *)
(* what was withdrawn stays away only if no copy brings it back: while     *)
(* processes do not overlap, the one there is has seen the last write, and *)
(* the invariant says so of the file, of its registry and of what it has   *)
(* read and not merged yet.                                                *)
(***************************************************************************)

Commands ==
  {"none", "serve", "look", "enable", "disable", "improve", "review", "approve", "reject",
   "archive", "import", "synthesize", "merge"}
Named == {"enable", "disable", "approve", "reject", "archive"}

\* A command that is about a name has one.
JobsSound ==
  /\ job \in [Procs -> [cmd : Commands, on : Names \cup {None}]]
  /\ \A p \in Procs : job[p].cmd \in Named => job[p].on \in Names

\* What a process that is off holds: nothing; and a process that has loaded keeps no
\* copy of the state file.
OffHoldsNothing ==
  \A p \in Procs : /\ phase[p] = "off" => mem[p] = Empty
                   /\ phase[p] # "loading" => snap[p] = Empty

\* What WithdrawnStaysOut adds to itself: processes that do not overlap are alone, and a
\* copy of the state file that is still to be merged is as good as the file.
Alone == \A p, q \in Procs : phase[p] # "off" /\ phase[q] # "off" => p = q
Withheld == \A p \in Procs : withdrawn \cap (Enabled(saved) \cup Enabled(mem[p]) \cup Enabled(snap[p])) = {}

SkillsInv ==
  /\ SkillsTypeOK /\ JobsSound /\ OffHoldsNothing
  /\ NeverUnasked
  /\ ~overlap => Alone /\ Withheld

\* A registry that was not loaded has nothing enabled.
LEMMA NothingIsEnabled ==
  /\ Enabled(Empty) = {}
  /\ Empty \in [Names -> Entry \cup {None}] /\ Empty \in [Names -> State \cup {None}]
  BY DEF Enabled, Empty

\* The state file written from a map holds what the map holds.
LEMMA SavedStates ==
  ASSUME NEW map \in [Names -> Entry \cup {None}], SaveState(map)
  PROVE  saved' \in [Names -> State \cup {None}] /\ Enabled(saved') \subseteq Enabled(map)
<1>1. \A e \in Entry : [enabled |-> e.enabled, pending |-> e.pending] \in State
  BY DEF Entry, State
<1>2. ASSUME NEW n \in Names
      PROVE  /\ StateOf(map[n]) \in State \cup {None}
             /\ StateOf(map[n]) # None => map[n] # None
             /\ map[n] # None => StateOf(map[n]).enabled = map[n].enabled
  BY <1>1 DEF StateOf
<1>3. saved' \in [Names -> State \cup {None}] /\ \A n \in Names : saved'[n] = StateOf(map[n])
  BY <1>2 DEF SaveState
<1> QED
  BY <1>2, <1>3 DEF Enabled

\* Merging keeps no more than was in force in the states that were read.
LEMMA MergedStates ==
  ASSUME NEW order, NEW load \in Loads(order), NEW states \in [Names -> State \cup {None}], disk \subseteq Files
  PROVE  Merged(load, states) \in [Names -> Entry \cup {None}] /\ Enabled(Merged(load, states)) \subseteq Enabled(states)
<1>1. ASSUME NEW n \in Names PROVE load[n] \in Files \cup {None}
  <2> DEFINE last == [m \in Names |-> LastFound(order, m)]
  <2>1. \A m \in Names : last[m] \subseteq Files
    BY DEF LastFound, FoundFiles
  <2>2. load[n] = None \/ load[n] \in last[n]
    BY DEF Loads
  <2> QED
    BY <2>1, <2>2
<1>2. ASSUME NEW n \in Names PROVE (states[n] # None /\ states[n].enabled) \in BOOLEAN
                                   /\ (states[n] # None /\ states[n].pending) \in BOOLEAN
  BY DEF State
<1> DEFINE e(n) == [file |-> load[n], enabled |-> states[n] # None /\ states[n].enabled,
                    pending |-> states[n] # None /\ states[n].pending]
<1>3. ASSUME NEW n \in Names, load[n] # None PROVE e(n) \in Entry
  <2>1. load[n] \in Files
    BY <1>1, <1>3
  <2> QED
    BY <1>2, <2>1 DEF Entry
<1>4. \A n \in Names : e(n).enabled => states[n] # None /\ states[n].enabled
  OBVIOUS
<1>5. Merged(load, states) = [n \in Names |-> IF load[n] = None THEN None ELSE e(n)]
  BY DEF Merged
<1> HIDE DEF e
<1>6. Merged(load, states) \in [Names -> Entry \cup {None}]
  BY <1>3, <1>5
<1>7. ASSUME NEW n \in Enabled(Merged(load, states)) PROVE n \in Enabled(states)
  <2>1. n \in Names /\ Merged(load, states)[n] # None /\ Merged(load, states)[n].enabled
    BY <1>7 DEF Enabled
  <2>2. Merged(load, states)[n] = e(n)
    BY <1>5, <2>1
  <2>3. e(n).enabled
    BY <2>1, <2>2
  <2> QED
    BY <1>4, <2>1, <2>3 DEF Enabled
<1> QED
  BY <1>6, <1>7

Maps == [Names -> Entry \cup {None}]
Switches(on) == IF on THEN Names ELSE {}

\* What the registry's operations do to a map, and to what it enables.
LEMMA RegisteredMap ==
  ASSUME NEW map \in Maps, NEW f \in Files
  PROVE  Registered(map, f) \in Maps /\ Enabled(Registered(map, f)) \subseteq Enabled(map)
<1> DEFINE e == [file |-> f, enabled |-> FALSE, pending |-> TRUE]
<1>1. e \in Entry /\ ~ e.enabled
  BY DEF Entry
<1>2. Registered(map, f) = [map EXCEPT ![NameOf[f]] = e]
  BY DEF Registered
<1> HIDE DEF e
<1>3. Registered(map, f) \in Maps
  BY <1>1, <1>2 DEF Maps
<1>4. \A n \in Names : Registered(map, f)[n] = IF n = NameOf[f] THEN e ELSE map[n]
  BY <1>2 DEF Maps
<1> QED
  BY <1>1, <1>3, <1>4 DEF Enabled

\* Enabling and disabling change one name.
LEMMA SwitchedMap ==
  ASSUME NEW map \in Maps, NEW n \in Names, NEW on \in BOOLEAN, map[n] # None
  PROVE  /\ Switched(map, n, on) \in Maps
         /\ on => Enabled(Switched(map, n, on)) \subseteq Enabled(map) \cup {n}
         /\ ~on => Enabled(Switched(map, n, on)) \subseteq Enabled(map) \ {n}
<1> DEFINE e == [map[n] EXCEPT !.enabled = on]
<1>1. map[n] \in Entry
  BY DEF Maps
<1>2. e \in Entry /\ (e.enabled <=> on)
  BY <1>1 DEF Entry
<1>3. Switched(map, n, on) = [map EXCEPT ![n] = e]
  BY DEF Switched
<1> HIDE DEF e
<1>4. Switched(map, n, on) \in Maps
  BY <1>2, <1>3 DEF Maps
<1>5. \A m \in Names : Switched(map, n, on)[m] = IF m = n THEN e ELSE map[m]
  BY <1>3 DEF Maps
<1> QED
  BY <1>2, <1>4, <1>5 DEF Enabled

\* So do the decisions of a review: only an approval enables.
LEMMA DecidedMap ==
  ASSUME NEW map \in Maps, NEW n \in Names, NEW how \in {"approve", "reject", "archive"}, map[n] # None
  PROVE  /\ Decided(map, n, how) \in Maps
         /\ how = "approve" => Enabled(Decided(map, n, how)) \subseteq Enabled(map) \cup {n}
         /\ how # "approve" => Enabled(Decided(map, n, how)) \subseteq Enabled(map) \ {n}
<1>1. CASE how = "archive"
  <2>1. Decided(map, n, how) = [map EXCEPT ![n] = None]
    BY <1>1 DEF Decided
  <2>2. Decided(map, n, how) \in Maps
    BY <2>1 DEF Maps
  <2>3. \A m \in Names : Decided(map, n, how)[m] = IF m = n THEN None ELSE map[m]
    BY <2>1 DEF Maps
  <2> QED
    BY <1>1, <2>2, <2>3 DEF Enabled
<1>2. CASE how # "archive"
  <2> DEFINE on == how = "approve"
             e == [map[n] EXCEPT !.enabled = on, !.pending = FALSE]
  <2>1. map[n] \in Entry
    BY DEF Maps
  <2>2. on \in BOOLEAN
    OBVIOUS
  <2> HIDE DEF on
  <2>3. e \in Entry /\ (e.enabled <=> on)
    BY <2>1, <2>2 DEF Entry
  <2>4. Decided(map, n, how) = [map EXCEPT ![n] = e]
    BY <1>2 DEF Decided, on
  <2> HIDE DEF e
  <2>5. Decided(map, n, how) \in Maps
    BY <2>3, <2>4 DEF Maps
  <2>6. \A m \in Names : Decided(map, n, how)[m] = IF m = n THEN e ELSE map[m]
    BY <2>4 DEF Maps
  <2> QED
    BY <2>3, <2>5, <2>6 DEF Enabled, on
<1> QED
  BY <1>1, <1>2

\* A process ends.
LEMMA EndOK ==
  ASSUME SkillsInv, NEW p \in Procs, Ends(p), overlap' = overlap, disk' \subseteq Files,
         saved' \in [Names -> State \cup {None}], 
         allow' \subseteq asked', asked \subseteq asked', asked' \subseteq Names, withdrawn' \subseteq Names,
         Enabled(saved') \subseteq asked', phase[p] # "off",
         ~overlap => withdrawn' \cap Enabled(saved') = {}
  PROVE  SkillsInv'
<1>1. /\ phase' = [phase EXCEPT ![p] = "off"] /\ job' = [job EXCEPT ![p] = NoJob]
      /\ snap' = [snap EXCEPT ![p] = Empty] /\ mem' = [mem EXCEPT ![p] = Empty]
  BY DEF Ends
<1>2. /\ phase \in [Procs -> {"off", "loading", "ready", "asking"}]
      /\ snap \in [Procs -> [Names -> State \cup {None}]]
      /\ mem \in [Procs -> [Names -> Entry \cup {None}]]
  BY DEF SkillsInv, SkillsTypeOK
<1>3. SkillsTypeOK'
  BY <1>1, <1>2, NothingIsEnabled DEF SkillsInv, SkillsTypeOK
<1>4. /\ \A q \in Procs : phase'[q] = IF q = p THEN "off" ELSE phase[q]
      /\ \A q \in Procs : mem'[q] = IF q = p THEN Empty ELSE mem[q]
      /\ \A q \in Procs : snap'[q] = IF q = p THEN Empty ELSE snap[q]
  BY <1>1, <1>2
<1>5. JobsSound'
  <2>1. NoJob.cmd \notin Named /\ NoJob \in [cmd : Commands, on : Names \cup {None}]
    BY DEF NoJob, Named, Commands
  <2>2. job' \in [Procs -> [cmd : Commands, on : Names \cup {None}]]
        /\ \A q \in Procs : job'[q] = job[q] \/ job'[q] = NoJob
    BY <1>1, <2>1 DEF SkillsInv, JobsSound
  <2> QED
    BY <2>1, <2>2 DEF SkillsInv, JobsSound
<1>6. OffHoldsNothing'
  BY <1>4 DEF SkillsInv, OffHoldsNothing
<1>7. NeverUnasked'
  BY <1>4, NothingIsEnabled DEF SkillsInv, NeverUnasked, InForce
<1>8. ASSUME ~overlap PROVE Alone' /\ Withheld'
  <2>1. Alone'
    BY <1>4, <1>8 DEF SkillsInv, Alone
  <2>2. \A q \in Procs : mem'[q] = Empty /\ snap'[q] = Empty
    BY <1>4, <1>8 DEF SkillsInv, Alone, OffHoldsNothing
  <2> QED
    BY <1>8, <2>1, <2>2, NothingIsEnabled DEF Withheld
<1> QED
  BY <1>3, <1>5, <1>6, <1>7, <1>8 DEF SkillsInv

\* A process that is up goes on with the map it now holds and has written.
LEMMA GoOnOK ==
  ASSUME SkillsInv, NEW p \in Procs, phase[p] # "off", NEW map \in Maps, mem' = [mem EXCEPT ![p] = map],
         UNCHANGED <<overlap, job>>, snap' \in {snap, [snap EXCEPT ![p] = Empty]},
         NEW ph \in {"ready", "asking"}, phase' = [phase EXCEPT ![p] = ph],
         disk' \subseteq Files, saved' \in [Names -> State \cup {None}],
         allow' \subseteq asked', asked \subseteq asked', asked' \subseteq Names, withdrawn' \subseteq Names,
         Enabled(saved') \subseteq asked', Enabled(map) \subseteq asked',
         ~overlap => withdrawn' \cap (Enabled(saved') \cup Enabled(map)) = {},
         snap'[p] = Empty
  PROVE  SkillsInv'
<1>2. /\ phase \in [Procs -> {"off", "loading", "ready", "asking"}]
      /\ snap \in [Procs -> [Names -> State \cup {None}]] /\ mem \in [Procs -> Maps]
  BY DEF SkillsInv, SkillsTypeOK, Maps
<1>3. SkillsTypeOK'
  BY <1>2, NothingIsEnabled DEF SkillsInv, SkillsTypeOK, Maps
<1>4. /\ \A q \in Procs : phase'[q] = IF q = p THEN ph ELSE phase[q]
      /\ \A q \in Procs : mem'[q] = IF q = p THEN map ELSE mem[q]
      /\ \A q \in Procs : snap'[q] \in {snap[q], Empty}
  BY <1>2
<1>5. JobsSound'
  BY DEF SkillsInv, JobsSound
<1>6. OffHoldsNothing'
  BY <1>4 DEF SkillsInv, OffHoldsNothing
<1>7. NeverUnasked'
  BY <1>4, NothingIsEnabled DEF SkillsInv, NeverUnasked, InForce
<1>8. ASSUME ~overlap PROVE Alone' /\ Withheld'
  <2>1. Alone'
    BY <1>4, <1>8 DEF SkillsInv, Alone
  <2>2. \A q \in Procs : q # p => mem'[q] = Empty /\ snap'[q] = Empty
    BY <1>4, <1>8 DEF SkillsInv, Alone, OffHoldsNothing
  <2>3. ASSUME NEW q \in Procs PROVE withdrawn' \cap (Enabled(saved') \cup Enabled(mem'[q]) \cup Enabled(snap'[q])) = {}
    BY <1>4, <1>8, <2>2, NothingIsEnabled
  <2> QED
    BY <2>1, <2>3 DEF Withheld
<1> QED
  BY <1>3, <1>5, <1>6, <1>7, <1>8 DEF SkillsInv

\* The invariant holds of the skills the program finds.
LEMMA SkillsInitOK == SkillsInit => SkillsInv
<1> SUFFICES ASSUME SkillsInit PROVE SkillsInv
  OBVIOUS
<1>1. /\ \A p \in Procs : phase[p] = "off" /\ mem[p] = Empty /\ snap[p] = Empty /\ job[p] = NoJob
      /\ saved = Empty /\ allow = {} /\ asked = {} /\ withdrawn = {}
  BY DEF SkillsInit
<1>2. SkillsTypeOK
  BY SkillsAssumption, NothingIsEnabled DEF SkillsInit, SkillsTypeOK
<1>3. JobsSound
  <2>1. NoJob.cmd \notin Named /\ NoJob \in [cmd : Commands, on : Names \cup {None}]
    BY DEF NoJob, Named, Commands
  <2>2. job \in [Procs -> [cmd : Commands, on : Names \cup {None}]]
    BY <2>1 DEF SkillsInit
  <2> QED
    BY <1>1, <2>1, <2>2 DEF JobsSound
<1>4. OffHoldsNothing /\ Alone /\ Withheld
  BY <1>1, NothingIsEnabled DEF OffHoldsNothing, Alone, Withheld
<1>5. NeverUnasked
  BY <1>1, NothingIsEnabled DEF NeverUnasked, InForce
<1> QED
  BY <1>2, <1>3, <1>4, <1>5 DEF SkillsInv

\* What the invariant says of a process that is up.
LEMMA UpFacts ==
  ASSUME SkillsInv, NEW p \in Procs
  PROVE  /\ mem[p] \in Maps /\ saved \in [Names -> State \cup {None}]
         /\ snap[p] \in [Names -> State \cup {None}]
         /\ disk \subseteq Files /\ asked \subseteq Names /\ withdrawn \subseteq Names
         /\ Enabled(mem[p]) \subseteq asked /\ Enabled(snap[p]) \subseteq asked
         /\ Enabled(saved) \subseteq asked /\ allow \subseteq asked
         /\ ~overlap => withdrawn \cap (Enabled(saved) \cup Enabled(mem[p]) \cup Enabled(snap[p])) = {}
  BY DEF SkillsInv, SkillsTypeOK, Maps, NeverUnasked, InForce, Withheld

\* A process ends having written a map that enables nothing new.
LEMMA WriteEndOK ==
  ASSUME SkillsInv, NEW p \in Procs, Ends(p), phase[p] # "off", overlap' = overlap, disk' \subseteq Files,
         NEW map \in Maps, SaveState(map), Enabled(map) \subseteq Enabled(mem[p]),
         UNCHANGED <<allow, asked>>,
         withdrawn' \subseteq Names, withdrawn' \cap Enabled(map) \subseteq withdrawn
  PROVE  SkillsInv'
<1>1. saved' \in [Names -> State \cup {None}] /\ Enabled(saved') \subseteq Enabled(map)
  BY SavedStates DEF Maps
<1> QED
  BY <1>1, UpFacts, EndOK

\* A process ends and leaves the file as it is.
LEMMA QuietEndOK ==
  ASSUME SkillsInv, NEW p \in Procs, Ends(p), phase[p] # "off", disk' \subseteq Files,
         UNCHANGED <<overlap, saved, allow, history>>
  PROVE  SkillsInv'
<1>1. UNCHANGED <<asked, withdrawn>>
  BY DEF history
<1> QED
  BY <1>1, UpFacts, EndOK

\* A process starts without a registry.
LEMMA BootOK ==
  ASSUME SkillsInv, NEW p \in Procs, NEW cmd \in Commands, NEW n \in Names \cup {None},
         cmd \in Named => n \in Names, BootWith(p, cmd, n)
  PROVE  SkillsInv'
<1>1. /\ phase' = [phase EXCEPT ![p] = "loading"] /\ snap' = [snap EXCEPT ![p] = saved]
      /\ job' = [job EXCEPT ![p] = [cmd |-> cmd, on |-> n]]
      /\ UNCHANGED <<overlap, disk, saved, mem, allow, asked, withdrawn>>
      /\ phase[p] = "off" /\ (overlap \/ \A q \in Procs : phase[q] = "off")
  BY DEF BootWith, MayStart, history
<1>2. /\ phase \in [Procs -> {"off", "loading", "ready", "asking"}]
      /\ snap \in [Procs -> [Names -> State \cup {None}]] /\ saved \in [Names -> State \cup {None}]
  BY DEF SkillsInv, SkillsTypeOK
<1>3. SkillsTypeOK'
  BY <1>1, <1>2 DEF SkillsInv, SkillsTypeOK
<1>4. /\ \A q \in Procs : phase'[q] = IF q = p THEN "loading" ELSE phase[q]
      /\ \A q \in Procs : snap'[q] = IF q = p THEN saved ELSE snap[q]
  BY <1>1, <1>2
<1>5. JobsSound'
  <2> DEFINE j == [cmd |-> cmd, on |-> n]
  <2>1. j \in [cmd : Commands, on : Names \cup {None}] /\ (j.cmd \in Named => j.on \in Names)
    OBVIOUS
  <2>2. job' = [job EXCEPT ![p] = j]
    BY <1>1
  <2> HIDE DEF j
  <2>3. job' \in [Procs -> [cmd : Commands, on : Names \cup {None}]]
        /\ \A q \in Procs : job'[q] = IF q = p THEN j ELSE job[q]
    BY <2>1, <2>2 DEF SkillsInv, JobsSound
  <2> QED
    BY <2>1, <2>3 DEF SkillsInv, JobsSound
<1>6. OffHoldsNothing'
  BY <1>1, <1>4 DEF SkillsInv, OffHoldsNothing
<1>7. NeverUnasked'
  BY <1>1, <1>4 DEF SkillsInv, NeverUnasked, InForce
<1>8. ASSUME ~overlap PROVE Alone' /\ Withheld'
  <2>1. Alone'
    BY <1>1, <1>4, <1>8 DEF Alone
  <2>2. ASSUME NEW q \in Procs
        PROVE  withdrawn \cap (Enabled(saved) \cup Enabled(mem[q]) \cup Enabled(snap'[q])) = {}
    <3>1. snap'[q] = saved \/ snap'[q] = snap[q]
      BY <1>4
    <3> QED
      BY <1>8, <3>1, UpFacts
  <2> QED
    BY <1>1, <2>1, <2>2 DEF Withheld
<1> QED
  BY <1>1, <1>3, <1>5, <1>6, <1>7, <1>8 DEF SkillsInv

\* A process merges the state file with what it has found.
LEMMA LoadOK == ASSUME SkillsInv, NEW p \in Procs, Load(p) PROVE SkillsInv'
<1>1. PICK load \in Loads(DirsOf(job[p].cmd)) :
        LET map == Merged(load, snap[p])
        IN  /\ mem' = [mem EXCEPT ![p] = map] /\ SaveState(map)
            /\ allow' = IF p = Gateway THEN Enabled(map) ELSE allow
  BY DEF Load
<1> DEFINE map == Merged(load, snap[p])
<1>2. map \in Maps /\ Enabled(map) \subseteq Enabled(snap[p])
  BY UpFacts, MergedStates DEF Maps
<1>3. mem' = [mem EXCEPT ![p] = map] /\ SaveState(map) /\ allow' = IF p = Gateway THEN Enabled(map) ELSE allow
  BY <1>1
<1> HIDE DEF map
<1>4. saved' \in [Names -> State \cup {None}] /\ Enabled(saved') \subseteq Enabled(map)
  BY <1>2, <1>3, SavedStates DEF Maps
<1>5. /\ phase[p] = "loading" /\ phase' = [phase EXCEPT ![p] = "ready"]
      /\ snap' = [snap EXCEPT ![p] = Empty] /\ UNCHANGED <<overlap, disk, job, asked, withdrawn>>
  BY DEF Load, history
<1>6. snap'[p] = Empty
  BY <1>5 DEF SkillsInv, SkillsTypeOK
<1>7. /\ Enabled(map) \subseteq asked' /\ Enabled(saved') \subseteq asked' /\ allow' \subseteq asked'
      /\ asked \subseteq asked' /\ asked' \subseteq Names /\ withdrawn' \subseteq Names
      /\ saved' \in [Names -> State \cup {None}] /\ disk' \subseteq Files
  BY <1>2, <1>3, <1>4, <1>5, UpFacts
<1>8. ~overlap => withdrawn' \cap (Enabled(saved') \cup Enabled(map)) = {}
  BY <1>2, <1>4, <1>5, UpFacts
<1> QED
  BY <1>2, <1>3, <1>5, <1>6, <1>7, <1>8, GoOnOK

\* A decision of a person: for a skill, or against it.
LEMMA RecordedDecision ==
  ASSUME SkillsInv, NEW n \in Names, NEW how, RecordState(n, how)
  PROVE  /\ asked' \subseteq Names /\ asked \subseteq asked' /\ withdrawn' \subseteq Names
         /\ how \in {"enable", "approve"} => asked' = asked \cup {n} /\ withdrawn' = withdrawn \ {n}
         /\ how \notin {"enable", "approve"} => asked' = asked /\ withdrawn' = withdrawn \cup {n}
  BY DEF RecordState, SkillsInv, SkillsTypeOK

\* The map after a decision, and the map before it.
DecisionFits(n, how, before, after) ==
  /\ after \in Maps
  /\ how \in {"enable", "approve"} => Enabled(after) \subseteq Enabled(before) \cup {n}
  /\ how \notin {"enable", "approve"} => Enabled(after) \subseteq Enabled(before) \ {n}

\* A command that writes the state file and ends keeps the invariant.
LEMMA DecidedEndOK ==
  ASSUME SkillsInv, NEW p \in Procs, NEW n \in Names, NEW how, NEW map,
         Ends(p), phase[p] # "off", UNCHANGED <<overlap, disk, allow>>,
         SaveState(map), RecordState(n, how), DecisionFits(n, how, mem[p], map)
  PROVE  SkillsInv'
<1>1. map \in Maps
  BY DEF DecisionFits
<1>2. saved' \in [Names -> State \cup {None}] /\ Enabled(saved') \subseteq Enabled(map)
  BY <1>1, SavedStates DEF Maps
<1>3. Enabled(map) \subseteq asked'
  BY UpFacts, RecordedDecision DEF DecisionFits
<1>4. ~overlap => withdrawn' \cap Enabled(map) = {}
  BY UpFacts, RecordedDecision DEF DecisionFits
<1> QED
  BY <1>2, <1>3, <1>4, UpFacts, RecordedDecision, EndOK

\* So does the gateway, which goes on with what it has written.
LEMMA DecidedGoOnOK ==
  ASSUME SkillsInv, NEW n \in Names, NEW how, NEW map, phase[Gateway] = "ready",
         UNCHANGED <<overlap, disk, phase, job, snap>>, mem' = [mem EXCEPT ![Gateway] = map],
         SaveState(map), RecordState(n, how), DecisionFits(n, how, mem[Gateway], map),
         allow' \in {allow, Enabled(map)}
  PROVE  SkillsInv'
<1>1. map \in Maps /\ Gateway \in Procs
  BY DEF DecisionFits, Procs
<1>2. saved' \in [Names -> State \cup {None}] /\ Enabled(saved') \subseteq Enabled(map)
  BY <1>1, SavedStates DEF Maps
<1>3. Enabled(map) \subseteq asked'
  BY <1>1, UpFacts, RecordedDecision DEF DecisionFits
<1>4. ~overlap => withdrawn' \cap Enabled(map) = {}
  BY <1>1, UpFacts, RecordedDecision DEF DecisionFits
<1>5. phase' = [phase EXCEPT ![Gateway] = "ready"]
  BY <1>1 DEF SkillsInv, SkillsTypeOK
<1>6. /\ Enabled(saved') \subseteq asked' /\ allow' \subseteq asked'
      /\ asked \subseteq asked' /\ asked' \subseteq Names /\ withdrawn' \subseteq Names
      /\ disk' \subseteq Files
  BY <1>1, <1>2, <1>3, UpFacts, RecordedDecision
<1>7. ~overlap => withdrawn' \cap (Enabled(saved') \cup Enabled(map)) = {}
  BY <1>2, <1>4
<1>8. snap'[Gateway] = Empty
  BY <1>1 DEF SkillsInv, OffHoldsNothing
<1> QED
  BY <1>1, <1>2, <1>3, <1>5, <1>6, <1>7, <1>8, GoOnOK

\* skill import, and the answers of a model.
LEMMA ProposedOK ==
  ASSUME SkillsInv, NEW p \in Procs, NEW f \in Files, phase[p] # "off", Propose(f),
         SaveState(Registered(mem[p], f)), UNCHANGED <<overlap, allow>>, Ends(p)
  PROVE  SkillsInv'
<1>1. disk' \subseteq Files /\ UNCHANGED <<asked, withdrawn>>
  BY UpFacts DEF Propose
<1>2. Registered(mem[p], f) \in Maps /\ Enabled(Registered(mem[p], f)) \subseteq Enabled(mem[p])
  BY UpFacts, RegisteredMap
<1> QED
  BY <1>1, <1>2, UpFacts, WriteEndOK

\* An imported skill is off.
LEMMA ImportOK == ASSUME SkillsInv, NEW p \in Procs, Import(p) PROVE SkillsInv'
<1>1. phase[p] # "off" /\ Ends(p) /\ UNCHANGED <<overlap, allow>>
  BY DEF Import
<1>2. PICK f \in Files : \/ Propose(f) /\ SaveState(Registered(mem[p], f))
                         \/ disk' \in {disk, disk \cup {f}} /\ UNCHANGED <<saved, history>>
  BY DEF Import
<1>3. CASE Propose(f) /\ SaveState(Registered(mem[p], f))
  BY <1>1, <1>3, ProposedOK
<1>4. CASE disk' \in {disk, disk \cup {f}} /\ UNCHANGED <<saved, history>>
  <2>1. disk' \subseteq Files
    BY <1>4, UpFacts
  <2> QED
    BY <1>1, <1>4, <2>1, QuietEndOK
<1> QED
  BY <1>2, <1>3, <1>4

\* Asking a model changes nothing.
LEMMA AsksOK == ASSUME SkillsInv, NEW p \in Procs, phase[p] = "ready", Asks(p) PROVE SkillsInv'
<1>1. UNCHANGED <<overlap, disk, saved, allow, asked, withdrawn>>
  BY DEF Asks, history
<1>2. CASE phase' = [phase EXCEPT ![p] = "asking"] /\ UNCHANGED <<job, snap, mem>>
  <2>1. mem' = [mem EXCEPT ![p] = mem[p]] /\ snap'[p] = Empty
    BY <1>2 DEF SkillsInv, SkillsTypeOK, OffHoldsNothing
  <2>2. ~overlap => withdrawn' \cap (Enabled(saved') \cup Enabled(mem[p])) = {}
    BY <1>1, UpFacts
  <2> QED
    BY <1>1, <1>2, <2>1, <2>2, UpFacts, GoOnOK
<1>3. CASE Ends(p)
  BY <1>1, <1>3, UpFacts, QuietEndOK DEF history
<1> QED
  BY <1>2, <1>3 DEF Asks

\* A revision is pending, and what it revises stays as it was.
LEMMA ImproveOK == ASSUME SkillsInv, NEW p \in Procs, AnswerImprove(p) PROVE SkillsInv'
<1>1. phase[p] = "asking" /\ UNCHANGED <<overlap, allow>>
  BY DEF AnswerImprove
<1>2. PICK f \in Files :
        /\ Propose(f) /\ SaveState(Registered(mem[p], f))
        /\ \/ Ends(p)
           \/ mem' = [mem EXCEPT ![p] = Registered(mem[p], f)] /\ UNCHANGED <<phase, job, snap>>
  BY DEF AnswerImprove
<1>3. CASE Ends(p)
  BY <1>1, <1>2, <1>3, ProposedOK
<1>4. CASE mem' = [mem EXCEPT ![p] = Registered(mem[p], f)] /\ UNCHANGED <<phase, job, snap>>
  <2> DEFINE map == Registered(mem[p], f)
  <2>1. map \in Maps /\ Enabled(map) \subseteq Enabled(mem[p])
    BY UpFacts, RegisteredMap
  <2>2. mem' = [mem EXCEPT ![p] = map] /\ SaveState(map)
    BY <1>2, <1>4
  <2> HIDE DEF map
  <2>3. saved' \in [Names -> State \cup {None}] /\ Enabled(saved') \subseteq Enabled(map)
    BY <2>1, <2>2, SavedStates DEF Maps
  <2>4. disk' \subseteq Files /\ UNCHANGED <<asked, withdrawn>>
    BY <1>2, UpFacts DEF Propose
  <2>5. phase' = [phase EXCEPT ![p] = "asking"] /\ snap'[p] = Empty
    BY <1>1, <1>4 DEF SkillsInv, SkillsTypeOK, OffHoldsNothing
  <2>6. ~overlap => withdrawn' \cap (Enabled(saved') \cup Enabled(map)) = {}
    BY <2>1, <2>3, <2>4, UpFacts
  <2>7. Enabled(map) \subseteq asked' /\ Enabled(saved') \subseteq asked' /\ allow' \subseteq asked'
    BY <1>1, <2>1, <2>3, <2>4, UpFacts
  <2> QED
    BY <1>1, <1>4, <2>1, <2>2, <2>3, <2>4, <2>5, <2>6, <2>7, UpFacts, GoOnOK
<1> QED
  BY <1>2, <1>3, <1>4

\* A merged skill is off, and so are those it replaces.
LEMMA MergeOK == ASSUME SkillsInv, NEW p \in Procs, AnswerMerge(p) PROVE SkillsInv'
<1>1. phase[p] # "off" /\ Ends(p) /\ UNCHANGED <<overlap, allow, asked>>
  BY DEF AnswerMerge
<1>2. PICK f \in Files, archived \in SUBSET Names :
        /\ disk' = disk \cup {f} /\ withdrawn' = withdrawn \cup archived
        /\ SaveState([n \in Names |-> IF n \in archived THEN None ELSE Registered(mem[p], f)[n]])
  BY DEF AnswerMerge
<1> DEFINE after == Registered(mem[p], f)
           map == [n \in Names |-> IF n \in archived THEN None ELSE after[n]]
<1>3. after \in Maps /\ Enabled(after) \subseteq Enabled(mem[p])
  BY UpFacts, RegisteredMap
<1>4. SaveState(map)
  BY <1>2
<1> HIDE DEF after
<1>5. map \in Maps /\ Enabled(map) \subseteq Enabled(after) \ archived
  BY <1>3 DEF Maps, Enabled
<1> HIDE DEF map
<1>6. withdrawn' \cap Enabled(map) \subseteq withdrawn /\ withdrawn' \subseteq Names /\ disk' \subseteq Files
  BY <1>2, <1>5, UpFacts
<1> QED
  BY <1>1, <1>3, <1>4, <1>5, <1>6, WriteEndOK

\* A process that is killed loses its registry.
LEMMA KillOK == ASSUME SkillsInv, NEW p \in Procs, Kill(p) PROVE SkillsInv'
<1>1. /\ phase[p] # "off" /\ Ends(p) /\ saved' \in {saved, Empty} /\ allow' \in {allow, {}}
      /\ UNCHANGED <<overlap, disk, asked, withdrawn>>
  BY DEF Kill, history
<1>2. saved' \in [Names -> State \cup {None}] /\ Enabled(saved') \subseteq Enabled(saved)
  BY <1>1, UpFacts, NothingIsEnabled
<1> QED
  BY <1>1, <1>2, UpFacts, EndOK

\* A command begins with a process of its own.
LEMMA CommandOK == ASSUME SkillsInv, NEW p \in Procs, Command(p) PROVE SkillsInv'
<1>1. CASE \E cmd \in {"enable", "disable", "approve", "reject", "archive"}, n \in Names : BootWith(p, cmd, n)
  BY <1>1, BootOK DEF Commands, Named
<1>2. CASE \E cmd \in {"look", "review", "improve", "synthesize", "merge", "import"} : BootWith(p, cmd, None)
  BY <1>2, BootOK DEF Commands, Named
<1> QED
  BY <1>1, <1>2 DEF Command

\* skill enable and disable, approve, reject and archive; the gateway's toggles and routes.
LEMMA SwitchFits ==
  ASSUME NEW map \in Maps, NEW n \in Names, NEW how \in {"enable", "disable"}, map[n] # None
  PROVE  DecisionFits(n, how, map, Switched(map, n, how = "enable"))
<1> DEFINE on == how = "enable"
<1>1. on \in BOOLEAN
  OBVIOUS
<1>2. on <=> how \in {"enable", "approve"}
  OBVIOUS
<1> HIDE DEF on
<1>3. DecisionFits(n, how, map, Switched(map, n, on))
  BY <1>1, <1>2, SwitchedMap DEF DecisionFits
<1> QED
  BY <1>3 DEF on

\* What a review decides is what it records.
LEMMA DecideFits ==
  ASSUME NEW map \in Maps, NEW n \in Names, NEW how \in {"approve", "reject", "archive"}, map[n] # None
  PROVE  DecisionFits(n, how, map, Decided(map, n, how))
<1>1. how \in {"enable", "approve"} <=> how = "approve"
  OBVIOUS
<1> QED
  BY <1>1, DecidedMap DEF DecisionFits

\* A command that somebody gave keeps the invariant.
LEMMA ToldOK == ASSUME SkillsInv, NEW p \in Procs, Switch(p) \/ Decide(p) PROVE SkillsInv'
<1>1. /\ phase[p] # "off" /\ Ends(p) /\ UNCHANGED <<overlap, disk, allow>>
      /\ job[p].cmd \in Named /\ mem[p][job[p].on] # None /\ RecordState(job[p].on, job[p].cmd)
  BY DEF Switch, Decide, Named
<1>2. job[p].on \in Names
  BY <1>1 DEF SkillsInv, JobsSound
<1>3. CASE Switch(p)
  <2>1. job[p].cmd \in {"enable", "disable"} /\ SaveState(Switched(mem[p], job[p].on, job[p].cmd = "enable"))
    BY <1>3 DEF Switch
  <2>2. DecisionFits(job[p].on, job[p].cmd, mem[p], Switched(mem[p], job[p].on, job[p].cmd = "enable"))
    BY <1>1, <1>2, <2>1, UpFacts, SwitchFits
  <2> QED
    BY <1>1, <1>2, <2>1, <2>2, DecidedEndOK
<1>4. CASE Decide(p)
  <2>1. job[p].cmd \in {"approve", "reject", "archive"} /\ SaveState(Decided(mem[p], job[p].on, job[p].cmd))
    BY <1>4 DEF Decide
  <2>2. DecisionFits(job[p].on, job[p].cmd, mem[p], Decided(mem[p], job[p].on, job[p].cmd))
    BY <1>1, <1>2, <2>1, UpFacts, DecideFits
  <2> QED
    BY <1>1, <1>2, <2>1, <2>2, DecidedEndOK
<1> QED
  BY <1>3, <1>4

\* Whatever the gateway does keeps it.
LEMMA GatewayOK == ASSUME SkillsInv, GatewayStep PROVE SkillsInv'
<1>1. Gateway \in Procs /\ mem[Gateway] \in Maps
  BY UpFacts DEF Procs
<1>2. CASE GatewayStart
  BY <1>1, <1>2, BootOK DEF GatewayStart, Commands, Named
<1>3. CASE Usage
  <2>1. /\ phase[Gateway] = "ready" /\ SaveState(mem[Gateway])
        /\ UNCHANGED <<overlap, disk, phase, job, snap, mem, allow, asked, withdrawn>>
    BY <1>3 DEF Usage, history
  <2>2. mem' = [mem EXCEPT ![Gateway] = mem[Gateway]] /\ phase' = [phase EXCEPT ![Gateway] = "ready"]
        /\ snap'[Gateway] = Empty
    BY <1>1, <2>1 DEF SkillsInv, SkillsTypeOK, OffHoldsNothing
  <2>3. saved' \in [Names -> State \cup {None}] /\ Enabled(saved') \subseteq Enabled(mem[Gateway])
    BY <1>1, <2>1, SavedStates DEF Maps
  <2>4. ~overlap => withdrawn' \cap (Enabled(saved') \cup Enabled(mem[Gateway])) = {}
    BY <1>1, <2>1, <2>3, UpFacts
  <2> QED
    BY <1>1, <2>1, <2>2, <2>3, <2>4, UpFacts, GoOnOK
<1>4. CASE GatewayStop
  <2>1. phase[Gateway] # "off" /\ Ends(Gateway) /\ allow' = {} /\ UNCHANGED <<overlap, disk, saved,
                                                                              asked, withdrawn>>
    BY <1>4 DEF GatewayStop, history
  <2> QED
    BY <1>1, <2>1, UpFacts, EndOK
<1>5. ASSUME NEW n \in Names, NEW on \in BOOLEAN, Toggle(n, on) PROVE SkillsInv'
  <2> DEFINE how == IF on THEN "enable" ELSE "disable"
             map == Switched(mem[Gateway], n, on)
  <2>1. /\ phase[Gateway] = "ready" /\ mem[Gateway][n] # None
        /\ mem' = [mem EXCEPT ![Gateway] = map] /\ SaveState(map) /\ allow' = Enabled(map)
        /\ RecordState(n, how) /\ UNCHANGED <<overlap, disk, phase, job, snap>>
    BY <1>5 DEF Toggle
  <2>2. how \in {"enable", "disable"} /\ on = (how = "enable")
    OBVIOUS
  <2> HIDE DEF how
  <2>3. DecisionFits(n, how, mem[Gateway], map)
    BY <1>1, <2>1, <2>2, SwitchFits
  <2> HIDE DEF map
  <2> QED
    BY <2>1, <2>3, DecidedGoOnOK
<1>6. ASSUME NEW n \in Names, NEW how \in {"approve", "reject", "archive"}, Route(n, how) PROVE SkillsInv'
  <2> DEFINE map == Decided(mem[Gateway], n, how)
  <2>1. /\ phase[Gateway] = "ready" /\ mem[Gateway][n] # None
        /\ mem' = [mem EXCEPT ![Gateway] = map] /\ SaveState(map) /\ allow' = allow
        /\ RecordState(n, how) /\ UNCHANGED <<overlap, disk, phase, job, snap>>
    BY <1>6 DEF Route
  <2>2. DecisionFits(n, how, mem[Gateway], map)
    BY <1>1, <2>1, DecideFits
  <2> HIDE DEF map
  <2> QED
    BY <2>1, <2>2, DecidedGoOnOK
<1> QED
  BY <1>2, <1>3, <1>4, <1>5, <1>6 DEF GatewayStep

\* Whatever the command line does keeps it.
LEMMA CliOK == ASSUME SkillsInv, NEW p \in Cli, CliStep(p) PROVE SkillsInv'
<1>1. p \in Procs
  BY DEF Procs
<1>2. CASE Look(p) \/ Review(p) \/ NotFound(p) \/ Discard(p)
  <2>1. phase[p] # "off" /\ Ends(p) /\ UNCHANGED <<overlap, disk, saved, allow, history>>
    BY <1>2 DEF Look, Review, NotFound, Discard
  <2> QED
    BY <1>1, <2>1, UpFacts, QuietEndOK
<1>3. CASE Scope(p)
  <2>1. phase[p] # "off" /\ Ends(p) /\ SaveState(mem[p]) /\ UNCHANGED <<overlap, disk, allow,
                                                                        asked, withdrawn>>
    BY <1>3 DEF Scope, history
  <2> QED
    BY <1>1, <2>1, UpFacts, WriteEndOK
<1>4. CASE AskSynthesize(p)
  BY <1>1, <1>4, AsksOK DEF AskSynthesize
<1>5. CASE AskImprove(p) \/ AskMerge(p)
  <2>1. phase[p] = "ready"
    BY <1>5 DEF AskImprove, AskMerge
  <2>2. Asks(p) \/ (Ends(p) /\ UNCHANGED <<overlap, disk, saved, allow, history>>)
    BY <1>5 DEF AskImprove, AskMerge
  <2>3. CASE Asks(p)
    BY <1>1, <2>1, <2>3, AsksOK
  <2>4. CASE Ends(p) /\ UNCHANGED <<overlap, disk, saved, allow, history>>
    BY <1>1, <2>1, <2>4, UpFacts, QuietEndOK
  <2> QED
    BY <2>2, <2>3, <2>4
<1>6. CASE AnswerSynthesize(p)
  BY <1>1, <1>6, ProposedOK DEF AnswerSynthesize
<1> QED
  BY <1>1, <1>2, <1>3, <1>4, <1>5, <1>6, CommandOK, ToldOK, ImportOK, ImproveOK, MergeOK
     DEF CliStep

\* Every step keeps it.
LEMMA SkillsStepOK == SkillsInv /\ [SkillsNext]_skillVars => SkillsInv'
<1> SUFFICES ASSUME SkillsInv, [SkillsNext]_skillVars PROVE SkillsInv'
  OBVIOUS
<1>1. CASE UNCHANGED skillVars
  <2>1. UNCHANGED <<overlap, disk, saved, phase, job, snap, mem, allow, asked, withdrawn>>
    BY <1>1 DEF skillVars, history
  <2>2. SkillsTypeOK' /\ JobsSound' /\ OffHoldsNothing'
    BY <2>1 DEF SkillsInv, SkillsTypeOK, JobsSound, OffHoldsNothing
  <2>3. NeverUnasked'
    BY <2>1 DEF SkillsInv, NeverUnasked, InForce, Enabled
  <2>4. ASSUME ~overlap PROVE Alone' /\ Withheld'
    <3>1. Alone'
      BY <2>1, <2>4 DEF SkillsInv, Alone
    <3>2. ASSUME NEW p \in Procs
          PROVE  withdrawn' \cap (Enabled(saved') \cup Enabled(mem'[p]) \cup Enabled(snap'[p])) = {}
      BY <2>1, <2>4, UpFacts
    <3>3. Withheld'
      BY <3>2 DEF Withheld
    <3> QED
      BY <3>1, <3>3
  <2> QED
    BY <2>1, <2>2, <2>3, <2>4 DEF SkillsInv
<1> QED
  BY <1>1, GatewayOK, CliOK, LoadOK, KillOK DEF SkillsNext

\* Nothing is enabled unasked; and while no two processes overlap, what was withdrawn is enabled in
\* no registry, no copy and not in the file.
THEOREM SkillsInvariance == SkillsSpec => []SkillsInv
<1> QED
  BY SkillsInitOK, SkillsStepOK, PTL DEF SkillsSpec

\* No skill is in force that nobody approved, and while processes do not overlap, none that was
\* withdrawn since (skills/skill-registry.ts).
THEOREM ConsentHolds == SkillsSpec => []Consent
<1>1. SkillsInv => Consent
  <2>1. Gateway \in Procs
    BY DEF Procs
  <2>2. ASSUME SkillsInv, ~overlap, NEW n \in withdrawn
        PROVE  n \notin Enabled(saved) /\ \A p \in Procs : n \notin Enabled(mem[p])
    BY <2>1, <2>2, UpFacts
  <2>3. SkillsInv => WithdrawnStaysOut
    BY <2>2 DEF WithdrawnStaysOut
  <2> QED
    BY <2>3 DEF SkillsInv, Consent
<1> QED
  BY <1>1, SkillsInvariance, PTL

=============================================================================
