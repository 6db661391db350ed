---------------------------- MODULE RecordsProofs ---------------------------
(***************************************************************************)
(* What the program keeps in files and tables. Team runs, projects, the    *)
(* audit log, webhooks, locks, the Google credential, ai-desk.json, the    *)
(* daemon's unit and the workspace panel, each for any number of rows,     *)
(* processes and steps.                                                    *)
(***************************************************************************)
EXTENDS MCRecords, TaskGraphProofs, SequenceTheorems, WellFoundedInduction

----------------------------------------------------------------------------
(***************************************************************************)
(* Lists. Several tables are lists from which an element is taken out or   *)
(* moved to the front: what RemoveAt and SelectSeq leave of them.          *)
(***************************************************************************)

\* A set of natural numbers that is not empty has a least one.
LEMMA HasSmallest ==
  ASSUME NEW T \in SUBSET Nat, T # {}
  PROVE  \E m \in T : \A k \in T : m <= k
<1> DEFINE R == {ss \in Nat \X Nat : ss[1] < ss[2]}
<1>1. IsWellFoundedOn(R, Nat)
  BY NatLessThanWellFounded DEF OpToRel
<1>2. \A k, m \in Nat : k < m => <<k, m>> \in R
  OBVIOUS
<1> HIDE DEF R
<1>3. PICK m \in T : \A k \in T : ~(<<k, m>> \in R)
  BY <1>1, WFMin
<1>4. \A k \in T : ~(k < m)
  BY <1>2, <1>3
<1> QED
  BY <1>4

\* The elements of a sequence without its i-th, and where they come from and go to.
LEMMA RemoveAtFacts ==
  ASSUME NEW T, NEW s \in Seq(T), NEW i \in 1..Len(s)
  PROVE  /\ RemoveAt(s, i) \in Seq(T) /\ Len(RemoveAt(s, i)) = Len(s) - 1
         /\ \A j \in 1..Len(s)-1 : RemoveAt(s, i)[j] = IF j < i THEN s[j] ELSE s[j+1]
<1> DEFINE l == SubSeq(s, 1, i-1)
           r == SubSeq(s, i+1, Len(s))
<1>1. l \in Seq(T) /\ Len(l) = i-1 /\ \A j \in 1..i-1 : l[j] = s[j]
  BY SubSeqProperties
<1>2. r \in Seq(T) /\ Len(r) = Len(s) - i /\ \A j \in 1..Len(s)-i : r[j] = s[i+j]
  <2>1. i + 1 \in Int /\ Len(s) \in Int /\ \A j \in (i+1)..Len(s) : s[j] \in T
    OBVIOUS
  <2>2. /\ r \in Seq(T) /\ Len(r) = IF i + 1 <= Len(s) THEN Len(s) - (i+1) + 1 ELSE 0
        /\ \A j \in 1..Len(s)-(i+1)+1 : r[j] = s[(i+1)+j-1]
    BY <2>1, SubSeqProperties
  <2>3. \A j \in 1..Len(s)-i : (i+1)+j-1 = i+j
    OBVIOUS
  <2>4. /\ Len(s) - (i+1) + 1 = Len(s) - i
        /\ (IF i + 1 <= Len(s) THEN Len(s) - (i+1) + 1 ELSE 0) = Len(s) - i
    OBVIOUS
  <2> HIDE DEF r
  <2>5. \A j \in 1..Len(s)-i : r[j] = s[i+j]
    BY <2>2, <2>3, <2>4
  <2> QED
    BY <2>2, <2>4, <2>5
<1> HIDE DEF l, r
<1>3. l \o r \in Seq(T) /\ Len(l \o r) = Len(s) - 1
  <2>1. l \o r \in Seq(T) /\ Len(l \o r) = Len(l) + Len(r)
    BY <1>1, <1>2, ConcatProperties
  <2>2. (i - 1) + (Len(s) - i) = Len(s) - 1
    OBVIOUS
  <2> QED
    BY <1>1, <1>2, <2>1, <2>2
<1>4. ASSUME NEW j \in 1..Len(s)-1 PROVE (l \o r)[j] = IF j < i THEN s[j] ELSE s[j+1]
  <2>1. (l \o r)[j] = IF j <= Len(l) THEN l[j] ELSE r[j - Len(l)]
    BY <1>1, <1>2, ConcatProperties
  <2>2. CASE j < i
    BY <1>1, <2>1, <2>2
  <2>3. CASE ~(j < i)
    BY <1>1, <1>2, <2>1, <2>3
  <2> QED
    BY <2>2, <2>3
<1> QED
  BY <1>3, <1>4 DEF RemoveAt, l, r

\* Every element but the i-th stays, and nothing else is there; what was distinct stays so.
LEMMA RemoveAtElements ==
  ASSUME NEW T, NEW s \in Seq(T), NEW i \in 1..Len(s)
  PROVE  /\ \A j \in 1..Len(s) : j # i =>
              \E k \in 1..Len(RemoveAt(s, i)) : RemoveAt(s, i)[k] = s[j]
         /\ \A k \in 1..Len(RemoveAt(s, i)) : \E j \in 1..Len(s) :
              j # i /\ RemoveAt(s, i)[k] = s[j]
<1> DEFINE r == RemoveAt(s, i)
<1>1. /\ r \in Seq(T) /\ Len(r) = Len(s) - 1
      /\ \A j \in 1..Len(s)-1 : r[j] = IF j < i THEN s[j] ELSE s[j+1]
  BY RemoveAtFacts
<1> HIDE DEF r
<1>2. ASSUME NEW j \in 1..Len(s), j # i PROVE \E k \in 1..Len(r) : r[k] = s[j]
  <2>1. CASE j < i
    BY <1>1, <2>1
  <2>2. CASE j > i
    <3>1. j - 1 \in 1..Len(r) /\ ~(j - 1 < i) /\ (j - 1) + 1 = j
      BY <1>1, <2>2
    <3> QED
      BY <1>1, <3>1
  <2> QED
    BY <1>2, <2>1, <2>2
<1>3. ASSUME NEW k \in 1..Len(r) PROVE \E j \in 1..Len(s) : j # i /\ r[k] = s[j]
  <2>1. CASE k < i
    BY <1>1, <2>1
  <2>2. CASE ~(k < i)
    <3>1. k + 1 \in 1..Len(s) /\ k + 1 # i
      BY <1>1, <2>2
    <3> QED
      BY <1>1, <2>2, <3>1
  <2> QED
    BY <2>1, <2>2
<1> QED
  BY <1>2, <1>3 DEF r

----------------------------------------------------------------------------
(***************************************************************************)
(* Team runs. The events of an execution are heard by every execution of   *)
(* its team in its process. The invariant says that there is only one to   *)
(* hear them: a run that is executing is recorded as running and executes  *)
(* in one slot. Assumed: no two runs are of one team and no run is resumed *)
(* that is executing.                                                      *)
(***************************************************************************)

TeamsDiffer == \A q, r \in Runs : TeamOf[q] = TeamOf[r] => q = r

\* A slot that is free holds nothing that runs; a slot in use executes a run with a
\* valid graph that is recorded as running.
Occupied ==
  \A s \in Slots :
    /\ stage[s] = "idle" => runOf[s] = NoRun /\ \A t \in Tasks : graph[s][t] # "running"
    /\ stage[s] # "idle" => /\ runOf[s] \in Runs /\ runRow[runOf[s]] = "running"
                            /\ ValidGraph(depsRow[runOf[s]])

\* No run executes in two slots.
OneSlot == \A s, u \in Slots : runOf[s] = runOf[u] /\ runOf[s] # NoRun => s = u

\* Nothing is done of a run without a row.
Fresh == \A r \in Runs, t \in Tasks : runRow[r] = "none" => taskRow[r][t] # "done"

TeamInv == RowsTellTheTruth /\ Occupied /\ OneSlot /\ Fresh

----------------------------------------------------------------------------
(* What an event reaches *)

(* The events of an execution reach the rows of its run and no other. *)
LEMMA OwnRowsOnly ==
  ASSUME TeamInv, TeamsDiffer, NEW s \in Slots, stage[s] # "idle"
  PROVE  Touched(s) = {runOf[s]}
<1>1. Hears(s, s)
  BY DEF Hears
<1>2. ASSUME NEW l \in Slots, Hears(l, s)
      PROVE  runOf[l] = runOf[s]
  BY <1>2 DEF Hears, TeamInv, Occupied, TeamsDiffer
<1> QED
  BY <1>1, <1>2 DEF Touched

(* An execution's step on its own graph, and what its run's rows get of it. *)
LEMMA ProgressStep ==
  ASSUME TeamInv, NEW s \in Slots, stage[s] # "idle", NEW g \in [Tasks -> TaskStatus],
         graph' = [graph EXCEPT ![s] = g],
         taskRow' \in [Runs -> [Tasks -> TaskStatus]],
         resultRow' \in [Runs -> [Tasks -> Runs \cup {NoRun}]],
         \A r \in Runs \ {runOf[s]} : taskRow'[r] = taskRow[r] /\ resultRow'[r] = resultRow[r],
         \A t \in Tasks : /\ g[t] = "done" <=> taskRow'[runOf[s]][t] = "done"
                          /\ g[t] = "failed" => taskRow'[runOf[s]][t] = "failed"
                          /\ g[t] = "done" => resultRow'[runOf[s]][t] = runOf[s],
         UNCHANGED <<runRow, depsRow, issue, runOf, call, stage, counters>>
  PROVE  TeamInv'
<1> USE DEF TeamInv, RowsTellTheTruth
<1> DEFINE r == runOf[s]
<1>1. r \in Runs /\ runRow[r] = "running"
  BY DEF Occupied
<1>2. TypeOK'
  BY DEF TypeOK, counters
<1>3. ResultsAreOwn'
  BY <1>1 DEF ResultsAreOwn
<1>4. RowsFollowGraph'
  <2>1. SUFFICES ASSUME NEW u \in Slots, NEW t \in Tasks, stage[u] # "idle"
                 PROVE  /\ graph'[u][t] = "done" <=> taskRow'[runOf[u]][t] = "done"
                        /\ graph'[u][t] = "failed" => taskRow'[runOf[u]][t] = "failed"
    BY DEF RowsFollowGraph
  <2>2. CASE u = s
    BY <2>1, <2>2 DEF TypeOK
  <2>3. CASE u # s
    <3>1. graph'[u] = graph[u] /\ runOf[u] \in Runs \ {r}
      BY <1>1, <2>1, <2>3, TeamRunAssumption DEF Occupied, OneSlot, TypeOK
    <3> QED
      BY <2>1, <3>1 DEF RowsFollowGraph
  <2> QED
    BY <2>2, <2>3
<1>5. DoneRunIsDone' /\ ClosedMeansDone'
  BY <1>1 DEF DoneRunIsDone, ClosedMeansDone, DoneRows
<1>6. Occupied' /\ OneSlot'
  BY DEF Occupied, OneSlot
<1>7. Fresh'
  BY <1>1 DEF Fresh
<1> QED
  BY <1>2, <1>3, <1>4, <1>5, <1>6, <1>7

(* A wave: tasks that are pending begin. *)
LEMMA LaunchStep ==
  ASSUME TeamInv, TeamsDiffer, NEW s \in Slots, LaunchWave(s)
  PROVE  TeamInv'
<1> USE DEF TeamInv, RowsTellTheTruth
<1> DEFINE r == runOf[s]
<1>1. PICK batch \in SUBSET ReadyTasks(graph[s], depsRow[r]) :
        /\ graph' = [graph EXCEPT ![s] = [t \in Tasks |-> IF t \in batch THEN "running" ELSE @[t]]]
        /\ WriteStatus(s, batch, "running")
  BY DEF LaunchWave
<1> DEFINE g == [t \in Tasks |-> IF t \in batch THEN "running" ELSE graph[s][t]]
<1>2. /\ stage[s] # "idle" /\ r \in Runs /\ resultRow' = resultRow
      /\ UNCHANGED <<runRow, depsRow, issue, runOf, call, stage, counters>>
  BY DEF LaunchWave, Occupied
<1>3. /\ g \in [Tasks -> TaskStatus] /\ graph' = [graph EXCEPT ![s] = g]
      /\ \A t \in batch : graph[s][t] = "pending"
  BY <1>1 DEF TypeOK, TaskStatus, ReadyTasks
<1>4. taskRow' = [q \in Runs |-> [t \in Tasks |->
                    IF q = r /\ t \in batch THEN "running" ELSE taskRow[q][t]]]
  BY <1>1, <1>2, OwnRowsOnly DEF WriteStatus
<1>5. /\ taskRow' \in [Runs -> [Tasks -> TaskStatus]]
      /\ \A q \in Runs \ {r} : taskRow'[q] = taskRow[q] /\ resultRow'[q] = resultRow[q]
  BY <1>2, <1>4 DEF TypeOK, TaskStatus
<1>6. ASSUME NEW t \in Tasks
      PROVE  /\ g[t] = "done" <=> taskRow'[r][t] = "done"
             /\ g[t] = "failed" => taskRow'[r][t] = "failed"
             /\ g[t] = "done" => resultRow'[r][t] = r
  <2>1. /\ graph[s][t] = "done" <=> taskRow[r][t] = "done"
        /\ graph[s][t] = "failed" => taskRow[r][t] = "failed"
        /\ graph[s][t] = "done" => resultRow[r][t] = r
    BY <1>2 DEF RowsFollowGraph, ResultsAreOwn
  <2>2. taskRow'[r][t] = IF t \in batch THEN "running" ELSE taskRow[r][t]
    BY <1>2, <1>4
  <2> QED
    BY <1>2, <2>1, <2>2
<1>7. resultRow' \in [Runs -> [Tasks -> Runs \cup {NoRun}]]
  BY <1>2 DEF TypeOK
<1>8. PICK h \in [Tasks -> TaskStatus] :
        /\ graph' = [graph EXCEPT ![s] = h]
        /\ \A t \in Tasks : /\ h[t] = "done" <=> taskRow'[r][t] = "done"
                            /\ h[t] = "failed" => taskRow'[r][t] = "failed"
                            /\ h[t] = "done" => resultRow'[r][t] = r
  BY <1>3, <1>6
<1> HIDE DEF g, TeamInv, RowsTellTheTruth
<1> QED
  BY <1>2, <1>5, <1>7, <1>8, ProgressStep

(* A task's end, recorded in the graph and in the rows of its run. *)
LEMMA TaskEndsStep ==
  ASSUME TeamInv, TeamsDiffer, NEW s \in Slots, NEW t \in Tasks,
         TaskSucceeds(s, t) \/ TaskFails(s, t)
  PROVE  TeamInv'
<1> USE DEF TeamInv, RowsTellTheTruth
<1> DEFINE r == runOf[s]
           new == IF TaskSucceeds(s, t) THEN "done" ELSE "failed"
           marked == [graph[s] EXCEPT ![t] = new]
           g == SkipDependentsOfFailed(marked, depsRow[r])
<1>1. /\ graph[s][t] = "running" /\ graph' = [graph EXCEPT ![s] = g]
      /\ WriteStatus(s, {t}, new)
      /\ IF TaskSucceeds(s, t) THEN WriteResult(s, t) ELSE resultRow' = resultRow
      /\ UNCHANGED <<runRow, depsRow, issue, runOf, call, stage, counters>>
  BY DEF TaskSucceeds, TaskFails, MarkDone, MarkFailed, InFlight, WithStatus
<1>2. stage[s] # "idle" /\ r \in Runs /\ ValidGraph(depsRow[r])
  BY <1>1 DEF Occupied
<1>3. marked \in [Tasks -> TaskStatus] /\ \A u \in Tasks : depsRow[r][u] \subseteq Tasks
  BY <1>2 DEF TypeOK, TaskStatus, ValidGraph
<1>4. /\ g \in [Tasks -> TaskStatus]
      /\ \A u \in Tasks : marked[u] # "pending" => g[u] = marked[u]
      /\ \A u \in Tasks : marked[u] = "pending" => g[u] \in {"pending", "skipped"}
  BY <1>3, SkipDependentsEffect
<1>5. /\ taskRow' = [q \in Runs |-> [u \in Tasks |->
                      IF q = r /\ u = t THEN new ELSE taskRow[q][u]]]
      /\ TaskSucceeds(s, t) => resultRow' = [q \in Runs |-> [resultRow[q] EXCEPT ![t] =
                                              IF q = r THEN r ELSE @]]
  BY <1>1, <1>2, OwnRowsOnly DEF WriteStatus, WriteResult
<1>6. /\ taskRow' \in [Runs -> [Tasks -> TaskStatus]]
      /\ resultRow' \in [Runs -> [Tasks -> Runs \cup {NoRun}]]
      /\ \A q \in Runs \ {r} : taskRow'[q] = taskRow[q] /\ resultRow'[q] = resultRow[q]
  BY <1>1, <1>2, <1>5 DEF TypeOK, TaskStatus
<1>7. ASSUME NEW u \in Tasks
      PROVE  /\ g[u] = "done" <=> taskRow'[r][u] = "done"
             /\ g[u] = "failed" => taskRow'[r][u] = "failed"
             /\ g[u] = "done" => resultRow'[r][u] = r
  <2>1. /\ graph[s][u] = "done" <=> taskRow[r][u] = "done"
        /\ graph[s][u] = "failed" => taskRow[r][u] = "failed"
        /\ graph[s][u] = "done" => resultRow[r][u] = r
    BY <1>2 DEF RowsFollowGraph, ResultsAreOwn
  <2>2. /\ taskRow'[r][u] = IF u = t THEN new ELSE taskRow[r][u]
        /\ marked[u] = IF u = t THEN new ELSE graph[s][u]
    BY <1>2, <1>5 DEF TypeOK
  <2>3. resultRow'[r][u] = IF u = t /\ TaskSucceeds(s, t) THEN r ELSE resultRow[r][u]
    BY <1>1, <1>2, <1>5 DEF TypeOK
  <2> HIDE DEF g, marked
  <2>4. CASE u = t
    BY <1>4, <2>2, <2>3, <2>4
  <2>5. CASE u # t
    BY <1>4, <2>1, <2>2, <2>3, <2>5
  <2> QED
    BY <2>4, <2>5
<1> HIDE DEF g
<1> QED
  BY <1>1, <1>2, <1>4, <1>6, <1>7, ProgressStep

----------------------------------------------------------------------------
(* Executions begin and end *)

(* A run that is begun or taken up: in a free slot, with the rows' results. *)
LEMMA TakeUpStep ==
  ASSUME TeamInv, ~ResumesLive, NEW s \in Slots, NEW r \in Runs,
         (\E d \in Graphs, i \in BOOLEAN : Start(s, r, d, i)) \/ Resume(s, r)
  PROVE  TeamInv'
<1> USE DEF TeamInv, RowsTellTheTruth
<1>1. /\ stage[s] = "idle" /\ runRow[r] \in {"none", "running", "failed"} /\ ~Executing(r)
      /\ runRow' = [runRow EXCEPT ![r] = "running"]
      /\ UNCHANGED <<taskRow, resultRow>>
  <2>1. runRow[r] = "none" => ~Executing(r)
    BY TeamRunAssumption DEF Executing, Occupied
  <2> QED
    BY <2>1 DEF Start, Resume
<1>2. /\ depsRow' \in [Runs -> DependencyMaps]
      /\ \A q \in Runs \ {r} : depsRow'[q] = depsRow[q] /\ issue'[q] = issue[q]
      /\ issue' \in [Runs -> {"none", "open", "closed", "dismissed"}]
      /\ issue'[r] # "closed"
      /\ crashes' \in 0 .. MaxCrashes /\ resumes' \in 0 .. MaxResumes
  <2>1. ASSUME NEW d \in Graphs, NEW i \in BOOLEAN, Start(s, r, d, i)
        PROVE  <1>2!:
    BY <2>1, TeamRunAssumption DEF Start, TypeOK, counters
  <2>2. CASE Resume(s, r)
    BY <2>2, TeamRunAssumption DEF Resume, TypeOK, ClosedMeansDone
  <2> QED
    BY <2>1, <2>2
<1>3. \A u \in Slots : runOf[u] # r
  BY <1>1 DEF Executing
<1>4. DoneRunIsDone' /\ ClosedMeansDone' /\ ResultsAreOwn'
  BY <1>1, <1>2 DEF DoneRunIsDone, ClosedMeansDone, ResultsAreOwn, DoneRows, TypeOK
<1>5. Fresh'
  BY <1>1 DEF Fresh, TypeOK
<1>6. CASE UNCHANGED memory
  <2>1. UNCHANGED <<runOf, call, stage, graph>>
    BY <1>6 DEF memory
  <2>2. TypeOK'
    BY <1>1, <1>2, <2>1 DEF TypeOK, RunStatus
  <2>3. RowsFollowGraph' /\ OneSlot'
    BY <1>1, <2>1 DEF RowsFollowGraph, OneSlot
  <2>4. Occupied'
    BY <1>1, <1>2, <1>3, <2>1 DEF Occupied, TypeOK
  <2> QED
    BY <1>4, <1>5, <2>2, <2>3, <2>4
<1>7. ASSUME NEW method \in {"run", "resume"}, Occupy(s, r, method, DoneRows(r)),
             ValidGraph(depsRow'[r])
      PROVE  TeamInv'
  <2>1. /\ runOf' = [runOf EXCEPT ![s] = r] /\ call' = [call EXCEPT ![s] = method]
        /\ stage' = [stage EXCEPT ![s] = "tasks"]
        /\ graph' = [graph EXCEPT ![s] = NewGraph(DoneRows(r))]
    BY <1>7 DEF Occupy
  <2>2. TypeOK'
    BY <1>1, <1>2, <2>1 DEF TypeOK, RunStatus, NewGraph, TaskStatus
  <2>3. \A u \in Slots \ {s} : /\ runOf'[u] = runOf[u] /\ stage'[u] = stage[u]
                               /\ graph'[u] = graph[u]
    BY <2>1 DEF TypeOK
  <2>4. runOf'[s] = r /\ stage'[s] = "tasks" /\ graph'[s] = NewGraph(DoneRows(r))
    BY <2>1 DEF TypeOK
  <2>5. RowsFollowGraph'
    BY <1>1, <2>3, <2>4 DEF RowsFollowGraph, NewGraph, DoneRows
  <2>6. OneSlot'
    BY <1>3, <2>3, <2>4 DEF OneSlot
  <2>7. Occupied'
    <3>1. runRow'[r] = "running"
      BY <1>1 DEF TypeOK
    <3>2. ASSUME NEW u \in Slots \ {s}
          PROVE  /\ stage'[u] = "idle" =>
                      runOf'[u] = NoRun /\ \A t \in Tasks : graph'[u][t] # "running"
                 /\ stage'[u] # "idle" => /\ runOf'[u] \in Runs /\ runRow'[runOf'[u]] = "running"
                                          /\ ValidGraph(depsRow'[runOf'[u]])
      BY <1>1, <1>2, <1>3, <2>3 DEF Occupied, TypeOK
    <3> QED
      BY <1>7, <2>4, <3>1, <3>2 DEF Occupied
  <2> QED
    BY <1>4, <1>5, <2>2, <2>5, <2>6, <2>7
<1>8. CASE \E d \in Graphs, i \in BOOLEAN : Start(s, r, d, i)
  <2>1. PICK d \in Graphs, i \in BOOLEAN : Start(s, r, d, i)
    BY <1>8
  <2>2. depsRow'[r] = d /\ DoneRows(r) = {}
    BY <2>1 DEF Start, TypeOK, Fresh, DoneRows
  <2> QED
    BY <1>6, <1>7, <2>1, <2>2 DEF Start
<1>9. CASE Resume(s, r)
  <2>1. depsRow' = depsRow
    BY <1>9 DEF Resume
  <2> QED
    BY <1>6, <1>7, <1>9, <2>1 DEF Resume
<1> QED
  BY <1>8, <1>9

(* Slots that become free. *)
LEMMA LeaveStep ==
  ASSUME TeamInv, NEW dead \in SUBSET Slots,
         runOf' = [s \in Slots |-> IF s \in dead THEN NoRun ELSE runOf[s]],
         call' = [s \in Slots |-> IF s \in dead THEN "idle" ELSE call[s]],
         stage' = [s \in Slots |-> IF s \in dead THEN "idle" ELSE stage[s]],
         graph' = [s \in Slots |-> IF s \in dead THEN NewGraph({}) ELSE graph[s]],
         UNCHANGED <<depsRow, taskRow, resultRow, resumes>>, crashes' \in 0 .. MaxCrashes,
         runRow' \in [Runs -> RunStatus],
         issue' \in [Runs -> {"none", "open", "closed", "dismissed"}],
         \A r \in Runs : runRow'[r] # runRow[r] =>
           /\ runRow'[r] \in {"done", "failed"} /\ \A s \in Slots \ dead : runOf[s] # r
           /\ runRow'[r] = "done" => DoneRows(r) = Tasks
           /\ runRow[r] # "done",
         \A r \in Runs : issue'[r] = "closed" => issue[r] = "closed" \/ runRow'[r] = "done"
  PROVE  TeamInv'
<1> USE DEF TeamInv, RowsTellTheTruth
<1>1. TypeOK'
  BY DEF TypeOK, NewGraph, TaskStatus
<1>2. ResultsAreOwn' /\ Fresh'
  BY DEF ResultsAreOwn, Fresh
<1>3. RowsFollowGraph'
  BY DEF RowsFollowGraph
<1>4. DoneRunIsDone'
  BY DEF DoneRunIsDone, DoneRows
<1>5. ClosedMeansDone'
  BY DEF ClosedMeansDone
<1>6. Occupied'
  BY DEF Occupied, NewGraph
<1>7. OneSlot'
  BY DEF OneSlot
<1> QED
  BY <1>1, <1>2, <1>3, <1>4, <1>5, <1>6, <1>7

(* The synthesis is in, or throws. *)
LEMMA SynthesisStep ==
  ASSUME TeamInv, NEW s \in Slots, Finish(s) \/ SynthesisThrows(s)
  PROVE  TeamInv'
<1> USE DEF TeamInv, RowsTellTheTruth
<1> DEFINE r == runOf[s]
<1>1. /\ runOf' = [u \in Slots |-> IF u \in {s} THEN NoRun ELSE runOf[u]]
      /\ call' = [u \in Slots |-> IF u \in {s} THEN "idle" ELSE call[u]]
      /\ stage' = [u \in Slots |-> IF u \in {s} THEN "idle" ELSE stage[u]]
      /\ graph' = [u \in Slots |-> IF u \in {s} THEN NewGraph({}) ELSE graph[u]]
      /\ UNCHANGED <<depsRow, taskRow, resultRow, resumes>> /\ crashes' \in 0 .. MaxCrashes
  BY DEF Finish, SynthesisThrows, Vacate, TypeOK, rows, counters
<1>2. r \in Runs /\ runRow[r] = "running" /\ stage[s] # "idle"
  BY DEF Finish, SynthesisThrows, Occupied
<1>3. \A u \in Slots \ {s} : runOf[u] # r
  BY <1>2, TeamRunAssumption DEF OneSlot
<1>4. AllDone(s) => DoneRows(r) = Tasks
  BY <1>2 DEF AllDone, DoneRows, RowsFollowGraph
<1>5. /\ runRow' \in [Runs -> RunStatus]
      /\ issue' \in [Runs -> {"none", "open", "closed", "dismissed"}]
      /\ \A q \in Runs : runRow'[q] # runRow[q] =>
           /\ q = r /\ runRow'[q] \in {"done", "failed"}
           /\ runRow'[q] = "done" => AllDone(s)
      /\ \A q \in Runs : issue'[q] = "closed" => issue[q] = "closed" \/ runRow'[q] = "done"
  <2>1. CASE Finish(s)
    BY <1>2, <2>1 DEF Finish, TypeOK, RunStatus
  <2>2. CASE SynthesisThrows(s)
    BY <2>2 DEF SynthesisThrows, TypeOK, rows
  <2> QED
    BY <2>1, <2>2
<1>6. \A q \in Runs : runRow'[q] # runRow[q] =>
        /\ runRow'[q] \in {"done", "failed"} /\ \A u \in Slots \ {s} : runOf[u] # q
        /\ runRow'[q] = "done" => DoneRows(q) = Tasks
        /\ runRow[q] # "done"
  BY <1>2, <1>3, <1>4, <1>5
<1>7. {s} \in SUBSET Slots
  OBVIOUS
<1> HIDE DEF TeamInv, RowsTellTheTruth
<1> QED
  BY <1>1, <1>5, <1>6, <1>7, LeaveStep

(* The steps that touch no graph and no task's row. *)
LEMMA QuietStep ==
  ASSUME TeamInv,
         (\E s \in Slots : TasksEnd(s)) \/ (\E r \in Runs : UserClosesIssue(r)) \/ UNCHANGED vars
  PROVE  TeamInv'
<1> USE DEF TeamInv, RowsTellTheTruth
<1>1. /\ UNCHANGED <<runRow, depsRow, taskRow, resultRow, runOf, call, graph, crashes, resumes>>
      /\ \A u \in Slots : stage'[u] = "idle" <=> stage[u] = "idle"
      /\ stage' \in [Slots -> {"idle", "tasks", "synthesis"}]
      /\ issue' \in [Runs -> {"none", "open", "closed", "dismissed"}]
      /\ \A r \in Runs : issue'[r] = "closed" => issue[r] = "closed"
  BY DEF TasksEnd, UserClosesIssue, vars, rows, memory, counters, TypeOK
<1>2. TypeOK' /\ ResultsAreOwn' /\ RowsFollowGraph' /\ DoneRunIsDone' /\ ClosedMeansDone'
  BY <1>1 DEF TypeOK, ResultsAreOwn, RowsFollowGraph, DoneRunIsDone, ClosedMeansDone, DoneRows
<1>3. Occupied' /\ OneSlot' /\ Fresh'
  BY <1>1 DEF Occupied, OneSlot, Fresh
<1> QED
  BY <1>2, <1>3

\* A crash empties the slots of its process and writes no row.
LEMMA CrashStep ==
  ASSUME TeamInv, NEW p, Crash(p)
  PROVE  TeamInv'
<1> DEFINE dead == {s \in Slots : Process(s) = p}
<1>1. /\ runOf' = [s \in Slots |-> IF s \in dead THEN NoRun ELSE runOf[s]]
      /\ call' = [s \in Slots |-> IF s \in dead THEN "idle" ELSE call[s]]
      /\ stage' = [s \in Slots |-> IF s \in dead THEN "idle" ELSE stage[s]]
      /\ graph' = [s \in Slots |-> IF s \in dead THEN NewGraph({}) ELSE graph[s]]
      /\ UNCHANGED <<runRow, depsRow, taskRow, resultRow, issue, resumes>>
  BY DEF Crash, rows
<1>2. crashes' \in 0 .. MaxCrashes
  BY TeamRunAssumption DEF Crash, TeamInv, RowsTellTheTruth, TypeOK
<1>3. /\ runRow' \in [Runs -> RunStatus]
      /\ issue' \in [Runs -> {"none", "open", "closed", "dismissed"}]
  BY <1>1 DEF TeamInv, RowsTellTheTruth, TypeOK
<1>4. dead \in SUBSET Slots
  OBVIOUS
<1> HIDE DEF dead
<1> QED
  BY <1>1, <1>2, <1>3, <1>4, LeaveStep

(* Each action keeps the invariant. *)
LEMMA TeamRunStep ==
  ASSUME TeamInv, TeamsDiffer, ~ResumesLive, [Next]_vars
  PROVE  TeamInv'
<1>1. CASE UNCHANGED vars
  BY <1>1, QuietStep
<1>2. ASSUME NEW s \in Slots, Work(s) PROVE TeamInv'
  BY <1>2, LaunchStep, TaskEndsStep, SynthesisStep, QuietStep DEF Work
<1>3. ASSUME NEW s \in Slots, NEW r \in Runs,
             (\E d \in Graphs, i \in BOOLEAN : Start(s, r, d, i)) \/ Resume(s, r)
      PROVE  TeamInv'
  BY <1>3, TakeUpStep
<1>4. ASSUME NEW p, Crash(p) PROVE TeamInv'
  BY <1>4, CrashStep
<1> QED
  BY <1>1, <1>2, <1>3, <1>4, QuietStep DEF Next

\* The invariant holds before the first run.
LEMMA TeamRunInit == Init => TeamInv
<1>1. SUFFICES ASSUME Init PROVE TeamInv
  OBVIOUS
<1>2. TypeOK
  BY <1>1, TeamRunAssumption DEF Init, TypeOK, RunStatus, NewGraph, TaskStatus, DependencyMaps
<1>3. ResultsAreOwn /\ RowsFollowGraph /\ DoneRunIsDone /\ ClosedMeansDone
  BY <1>1 DEF Init, ResultsAreOwn, RowsFollowGraph, DoneRunIsDone, ClosedMeansDone, NewGraph
<1>4. Occupied /\ OneSlot /\ Fresh
  BY <1>1 DEF Init, Occupied, OneSlot, Fresh, NewGraph
<1> QED
  BY <1>2, <1>3, <1>4 DEF TeamInv, RowsTellTheTruth

----------------------------------------------------------------------------
(* The theorems *)

\* The rows of runs of different teams follow what was executed.
THEOREM TeamRunInvariance ==
  ASSUME TeamsDiffer, ~ResumesLive
  PROVE  Spec => []TeamInv
<1>1. Init => TeamInv
  BY TeamRunInit
<1>2. TeamInv /\ [Next]_vars => TeamInv'
  BY TeamRunStep
<1> QED
  BY <1>1, <1>2, PTL DEF Spec

(* What the database says of a team run is what happened: results are the run's own, *)
(* a live execution's rows agree with its graph where a resume will look, a run or an *)
(* issue recorded as finished has every task recorded as done                        *)
(* (TeamCoordinator.run, .resume and .subscribeTaskEvents).                          *)
THEOREM RowsAreTrue ==
  ASSUME TeamsDiffer, ~ResumesLive
  PROVE  Spec => []RowsTellTheTruth
<1>1. TeamInv => RowsTellTheTruth
  BY DEF TeamInv
<1> QED
  BY <1>1, TeamRunInvariance, PTL

(* No execution, after any crashes and resumes, starts a task that its run has done. *)
THEOREM NoTaskIsRedone ==
  ASSUME TeamsDiffer, ~ResumesLive
  PROVE  Spec => NothingRedone
<1>1. ASSUME TeamInv, [Next]_vars, NEW s \in Slots, NEW t \in Tasks,
             graph[s][t] # "running", graph'[s][t] = "running"
      PROVE  taskRow[runOf[s]][t] # "done"
  <2> USE DEF TeamInv, RowsTellTheTruth
  <2>1. LaunchWave(s)
    <3>1. ASSUME NEW u \in Slots, NEW r \in Runs,
                 (\E d \in Graphs, i \in BOOLEAN : Start(u, r, d, i)) \/ Resume(u, r)
          PROVE  FALSE
      <4>1. graph' = graph \/ \E done : graph' = [graph EXCEPT ![u] = NewGraph(done)]
        BY <3>1 DEF Start, Resume, Occupy, memory
      <4> QED
        BY <1>1, <4>1 DEF NewGraph, TypeOK
    <3>2. ASSUME NEW u \in Slots, NEW v \in Tasks, TaskSucceeds(u, v) \/ TaskFails(u, v)
          PROVE  FALSE
      <4> DEFINE new == IF TaskSucceeds(u, v) THEN "done" ELSE "failed"
                 marked == [graph[u] EXCEPT ![v] = new]
                 g == SkipDependentsOfFailed(marked, depsRow[runOf[u]])
      <4>1. graph' = [graph EXCEPT ![u] = g]
        BY <3>2 DEF TaskSucceeds, TaskFails, MarkDone, MarkFailed
      <4>2. \A w \in Tasks : g[w] = "running" => marked[w] = "running"
        BY DEF SkipDependentsOfFailed
      <4>3. \A w \in Tasks : marked[w] = "running" => graph[u][w] = "running"
        BY <1>1 DEF TypeOK
      <4> HIDE DEF g, marked
      <4> QED
        BY <1>1, <4>1, <4>2, <4>3 DEF TypeOK
    <3>3. ASSUME NEW u \in Slots, Finish(u) \/ SynthesisThrows(u) \/ TasksEnd(u)
          PROVE  FALSE
      BY <1>1, <3>3 DEF Finish, SynthesisThrows, TasksEnd, Vacate, NewGraph, TypeOK
    <3>4. ASSUME NEW p, Crash(p)
          PROVE  FALSE
      BY <1>1, <3>4 DEF Crash, NewGraph
    <3>5. ASSUME NEW r \in Runs, UserClosesIssue(r)
          PROVE  FALSE
      BY <1>1, <3>5 DEF UserClosesIssue, memory
    <3>6. ASSUME NEW u \in Slots, LaunchWave(u)
          PROVE  u = s
      BY <1>1, <3>6 DEF LaunchWave, TypeOK
    <3> QED
      BY <1>1, <3>1, <3>2, <3>3, <3>4, <3>5, <3>6 DEF Next, Work, vars, memory
  <2>2. graph[s][t] = "pending" /\ stage[s] # "idle"
    BY <1>1, <2>1 DEF LaunchWave, ReadyTasks, TypeOK
  <2> QED
    BY <1>1, <2>2 DEF RowsFollowGraph
<1>2. TeamInv /\ [Next]_vars =>
        [\A s \in Slots, t \in Tasks :
           graph[s][t] # "running" /\ graph'[s][t] = "running"
             => taskRow[runOf[s]][t] # "done"]_vars
  BY <1>1
<1> QED
  BY <1>2, TeamRunInvariance, PTL DEF Spec, NothingRedone

----------------------------------------------------------------------------
(***************************************************************************)
(* The contract of the rows. That the rows of a run, all that outlives a   *)
(* crash, move as RunContract says needs the graphs in memory only as far  *)
(* as the rows agree with them. What a crash left recorded as running has  *)
(* its dependencies recorded as done, so that a later execution does not   *)
(* skip it, and a run that is settled has nothing left like that.          *)
(***************************************************************************)

\* What the refinement needs besides: a task that runs is recorded as running, and what is
\* recorded as running has all it depends on recorded as done, even after a crash; a task
\* is skipped behind a broken dependency; a synthesis follows a graph that is complete;
\* nothing happened to a task of a run without a row.
RunningIsRecorded ==
  \A s \in Slots, t \in Tasks :
    stage[s] # "idle" /\ graph[s][t] = "running" => taskRow[runOf[s]][t] = "running"
BegunInOrder ==
  \A r \in Runs, t \in Tasks : taskRow[r][t] = "running" => depsRow[r][t] \subseteq DoneRows(r)
SkippedWithReason ==
  \A s \in Slots, t \in Tasks :
    stage[s] # "idle" /\ graph[s][t] = "skipped"
      => HasBrokenDependency(t, graph[s], depsRow[runOf[s]])
EndedIsComplete == \A s \in Slots : stage[s] = "synthesis" => IsComplete(graph[s])
NothingBefore == \A r \in Runs, t \in Tasks : runRow[r] = "none" => taskRow[r][t] = "pending"

RecordsAgree ==
  RunningIsRecorded /\ BegunInOrder /\ SkippedWithReason /\ EndedIsComplete /\ NothingBefore
RowsInv == TeamInv /\ RecordsAgree

\* The contract's graphs are the coordinator's.
LEMMA RunContractGraph ==
  /\ Contract!Tasks = Tasks /\ Contract!TaskStatus = TaskStatus
  /\ Contract!DependencyMaps = DependencyMaps
  /\ \A S : Contract!NewGraph(S) = NewGraph(S)
  /\ \A d : Contract!ValidGraph(d) <=> ValidGraph(d)
<1>1. Contract!Tasks = Tasks /\ Contract!TaskStatus = TaskStatus
  BY DEF Contract!Tasks, Tasks, Contract!TaskStatus, TaskStatus
<1>2. Contract!DependencyMaps = DependencyMaps
  BY <1>1 DEF Contract!DependencyMaps, DependencyMaps, Contract!UnknownTask, UnknownTask
<1>3. \A S : Contract!NewGraph(S) = NewGraph(S)
  BY <1>1 DEF Contract!NewGraph, NewGraph
<1>4. \A d : Contract!ValidGraph(d) <=> ValidGraph(d)
  BY <1>1 DEF Contract!ValidGraph, ValidGraph, Contract!Acyclic, Acyclic
<1> QED
  BY <1>1, <1>2, <1>3, <1>4

\* The invariant holds before the first run.
LEMMA RowsStart == Init => RowsInv
<1> SUFFICES ASSUME Init PROVE RowsInv
  OBVIOUS
<1>1. TeamInv
  BY TeamRunInit
<1>2. RunningIsRecorded /\ SkippedWithReason /\ EndedIsComplete
  BY DEF Init, RunningIsRecorded, SkippedWithReason, EndedIsComplete
<1>3. BegunInOrder /\ NothingBefore
  BY DEF Init, BegunInOrder, NothingBefore, NewGraph
<1> QED
  BY <1>1, <1>2, <1>3 DEF RowsInv, RecordsAgree

\* What a wave does to the graph and to the rows of its run.
LEMMA LaunchEffect ==
  ASSUME TeamInv, TeamsDiffer, NEW s \in Slots, LaunchWave(s)
  PROVE  /\ stage[s] # "idle" /\ runOf[s] \in Runs /\ ValidGraph(depsRow[runOf[s]])
         /\ stage[s] = "tasks"
         /\ UNCHANGED <<runRow, depsRow, resultRow, issue, runOf, call, stage, counters>>
         /\ \E batch \in SUBSET ReadyTasks(graph[s], depsRow[runOf[s]]) :
              /\ graph' = [graph EXCEPT ![s] =
                             [t \in Tasks |-> IF t \in batch THEN "running" ELSE graph[s][t]]]
              /\ taskRow' = [q \in Runs |-> [t \in Tasks |->
                               IF q = runOf[s] /\ t \in batch THEN "running" ELSE taskRow[q][t]]]
<1>1. /\ stage[s] # "idle" /\ stage[s] = "tasks"
      /\ UNCHANGED <<runRow, depsRow, resultRow, issue, runOf, call, stage, counters>>
  BY DEF LaunchWave
<1>2. runOf[s] \in Runs /\ ValidGraph(depsRow[runOf[s]])
  BY <1>1 DEF TeamInv, Occupied
<1>3. PICK batch \in SUBSET ReadyTasks(graph[s], depsRow[runOf[s]]) :
        /\ graph' = [graph EXCEPT ![s] = [t \in Tasks |-> IF t \in batch THEN "running" ELSE @[t]]]
        /\ WriteStatus(s, batch, "running")
  BY DEF LaunchWave
<1>4. taskRow' = [q \in Runs |-> [t \in Tasks |->
                    IF q = runOf[s] /\ t \in batch THEN "running" ELSE taskRow[q][t]]]
  BY <1>1, <1>3, OwnRowsOnly DEF WriteStatus
<1> QED
  BY <1>1, <1>2, <1>3, <1>4

\* What a task's end does to them.
LEMMA EndEffect ==
  ASSUME TeamInv, TeamsDiffer, NEW s \in Slots, NEW t \in Tasks,
         TaskSucceeds(s, t) \/ TaskFails(s, t)
  PROVE  /\ stage[s] # "idle" /\ runOf[s] \in Runs /\ ValidGraph(depsRow[runOf[s]])
         /\ graph[s][t] = "running"
         /\ UNCHANGED <<runRow, depsRow, issue, runOf, call, stage, counters>>
         /\ \E new \in {"done", "failed"} :
              /\ graph' = [graph EXCEPT ![s] =
                   SkipDependentsOfFailed([graph[s] EXCEPT ![t] = new], depsRow[runOf[s]])]
              /\ taskRow' = [q \in Runs |-> [u \in Tasks |->
                               IF q = runOf[s] /\ u = t THEN new ELSE taskRow[q][u]]]
<1> DEFINE new == IF TaskSucceeds(s, t) THEN "done" ELSE "failed"
<1>1. /\ graph[s][t] = "running"
      /\ graph' = [graph EXCEPT ![s] =
           SkipDependentsOfFailed([graph[s] EXCEPT ![t] = new], depsRow[runOf[s]])]
      /\ WriteStatus(s, {t}, new)
      /\ UNCHANGED <<runRow, depsRow, issue, runOf, call, stage, counters>>
  BY DEF TaskSucceeds, TaskFails, MarkDone, MarkFailed, InFlight, WithStatus
<1>2. stage[s] # "idle" /\ runOf[s] \in Runs /\ ValidGraph(depsRow[runOf[s]])
  BY <1>1 DEF TeamInv, Occupied
<1>3. new \in {"done", "failed"}
  OBVIOUS
<1> HIDE DEF new
<1>4. taskRow' = [q \in Runs |-> [u \in Tasks |->
                    IF q = runOf[s] /\ u = t THEN new ELSE taskRow[q][u]]]
  BY <1>1, <1>2, OwnRowsOnly DEF WriteStatus
<1> QED
  BY <1>1, <1>2, <1>3, <1>4

\* A wave begins tasks whose dependencies are recorded as done.
LEMMA WaveKeepsRows ==
  ASSUME RowsInv, TeamsDiffer, NEW s \in Slots, LaunchWave(s), TeamInv'
  PROVE  RowsInv' /\ Contract!Progress(runOf[s])
<1> DEFINE r == runOf[s]
<1>1. /\ stage[s] # "idle" /\ r \in Runs /\ ValidGraph(depsRow[r]) /\ stage[s] = "tasks"
      /\ UNCHANGED <<runRow, depsRow, resultRow, issue, runOf, call, stage, counters>>
  BY LaunchEffect DEF RowsInv
<1>2. PICK batch \in SUBSET ReadyTasks(graph[s], depsRow[r]) :
        /\ graph' = [graph EXCEPT ![s] =
                       [t \in Tasks |-> IF t \in batch THEN "running" ELSE graph[s][t]]]
        /\ taskRow' = [q \in Runs |-> [t \in Tasks |->
                         IF q = r /\ t \in batch THEN "running" ELSE taskRow[q][t]]]
  BY LaunchEffect DEF RowsInv
<1>3. TypeOK
  BY DEF RowsInv, TeamInv, RowsTellTheTruth
<1>4. \A t \in batch : /\ t \in Tasks /\ graph[s][t] = "pending" /\ taskRow[r][t] # "done"
                       /\ depsRow[r][t] \subseteq DoneRows(r)
  <2>1. \A t \in Tasks : graph[s][t] = "done" <=> taskRow[r][t] = "done"
    BY <1>1 DEF RowsInv, TeamInv, RowsTellTheTruth, RowsFollowGraph
  <2>2. \A t \in Tasks : depsRow[r][t] \subseteq Tasks
    BY <1>1 DEF ValidGraph
  <2> QED
    BY <2>1, <2>2 DEF ReadyTasks, DoneRows
<1>5. \A q \in Runs : DoneRows(q)' = DoneRows(q)
  BY <1>2, <1>4 DEF DoneRows
<1>6. \A u \in Slots \ {s} : graph'[u] = graph[u] /\ (stage[u] # "idle" => runOf[u] # r)
  BY <1>1, <1>2, <1>3, TeamRunAssumption DEF RowsInv, TeamInv, Occupied, OneSlot, TypeOK
<1>7. graph'[s] = [t \in Tasks |-> IF t \in batch THEN "running" ELSE graph[s][t]]
  BY <1>2, <1>3 DEF TypeOK
<1>8. RunningIsRecorded'
  <2>1. SUFFICES ASSUME NEW u \in Slots, NEW t \in Tasks, stage[u] # "idle",
                        graph'[u][t] = "running"
                 PROVE  taskRow'[runOf[u]][t] = "running"
    BY <1>1 DEF RunningIsRecorded
  <2>2. runOf[u] \in Runs
    BY <2>1 DEF RowsInv, TeamInv, Occupied
  <2>3. CASE graph[u][t] = "running"
    BY <1>2, <2>1, <2>2, <2>3 DEF RowsInv, RecordsAgree, RunningIsRecorded
  <2>4. CASE graph[u][t] # "running"
    BY <1>2, <1>6, <1>7, <2>1, <2>2, <2>4
  <2> QED
    BY <2>3, <2>4
<1>9. BegunInOrder'
  BY <1>1, <1>2, <1>4, <1>5 DEF RowsInv, RecordsAgree, BegunInOrder
<1>10. SkippedWithReason'
  <2>1. SUFFICES ASSUME NEW u \in Slots, NEW t \in Tasks, stage[u] # "idle",
                        graph'[u][t] = "skipped"
                 PROVE  HasBrokenDependency(t, graph'[u], depsRow[runOf[u]])
    BY <1>1 DEF SkippedWithReason
  <2>2. CASE u = s
    <3>1. graph[s][t] = "skipped"
      BY <1>7, <2>1, <2>2
    <3>2. PICK d \in depsRow[r][t] : graph[s][d] \in BrokenStatus
      BY <1>1, <3>1 DEF RowsInv, RecordsAgree, SkippedWithReason, HasBrokenDependency
    <3>3. d \in Tasks /\ d \notin batch
      BY <1>1, <1>4, <3>2 DEF ValidGraph, BrokenStatus
    <3> QED
      BY <1>7, <2>2, <3>2, <3>3 DEF HasBrokenDependency
  <2>3. CASE u # s
    BY <1>6, <2>1, <2>3 DEF RowsInv, RecordsAgree, SkippedWithReason
  <2> QED
    BY <2>2, <2>3
<1>11. EndedIsComplete'
  BY <1>1, <1>6 DEF RowsInv, RecordsAgree, EndedIsComplete
<1>12. NothingBefore'
  <2>1. runRow[r] # "none"
    BY <1>1 DEF RowsInv, TeamInv, Occupied
  <2> QED
    BY <1>1, <1>2, <2>1 DEF RowsInv, RecordsAgree, NothingBefore
<1>13. Contract!Progress(r)
  <2>1. r \in LiveRuns /\ LiveRuns' = LiveRuns
    BY <1>1 DEF LiveRuns, Executing
  <2>2. ASSUME NEW t \in Tasks PROVE Contract!Begins(r, t) \/ taskRow'[r][t] = taskRow[r][t]
    <3>1. taskRow'[r][t] = IF t \in batch THEN "running" ELSE taskRow[r][t]
      BY <1>1, <1>2
    <3>2. t \in batch => taskRow[r][t] # "done" /\ \A d \in depsRow[r][t] : taskRow[r][d] = "done"
      BY <1>4 DEF DoneRows
    <3> QED
      BY <3>1, <3>2 DEF Contract!Begins
  <2>3. \A q \in Runs \ {r} : taskRow'[q] = taskRow[q]
    BY <1>2, <1>3 DEF TypeOK
  <2>4. taskRow' \in [Runs -> [Tasks -> TaskStatus]]
    BY <1>2, <1>3 DEF TypeOK, TaskStatus
  <2> QED
    BY <1>1, <2>1, <2>2, <2>3, <2>4, RunContractGraph DEF Contract!Progress
<1> QED
  BY <1>8, <1>9, <1>10, <1>11, <1>12, <1>13 DEF RowsInv, RecordsAgree

\* A task that ends was recorded as running.
LEMMA EndKeepsRows ==
  ASSUME RowsInv, TeamsDiffer, NEW s \in Slots, NEW t \in Tasks,
         TaskSucceeds(s, t) \/ TaskFails(s, t)
  PROVE  RecordsAgree' /\ Contract!Progress(runOf[s])
<1> DEFINE r == runOf[s]
<1>1. /\ stage[s] # "idle" /\ r \in Runs /\ ValidGraph(depsRow[r]) /\ graph[s][t] = "running"
      /\ UNCHANGED <<runRow, depsRow, issue, runOf, call, stage, counters>>
  BY EndEffect DEF RowsInv
<1>2. PICK new \in {"done", "failed"} :
        /\ graph' = [graph EXCEPT ![s] =
             SkipDependentsOfFailed([graph[s] EXCEPT ![t] = new], depsRow[r])]
        /\ taskRow' = [q \in Runs |-> [u \in Tasks |->
                         IF q = r /\ u = t THEN new ELSE taskRow[q][u]]]
  BY EndEffect DEF RowsInv
<1>3. TypeOK
  BY DEF RowsInv, TeamInv, RowsTellTheTruth
<1> DEFINE marked == [graph[s] EXCEPT ![t] = new]
           g == SkipDependentsOfFailed(marked, depsRow[r])
<1>4. /\ marked \in [Tasks -> TaskStatus] /\ marked[t] = new
      /\ \A u \in Tasks \ {t} : marked[u] = graph[s][u]
      /\ \A u \in Tasks : depsRow[r][u] \subseteq Tasks
  BY <1>1, <1>3 DEF TypeOK, TaskStatus, ValidGraph
<1>5. /\ \A u \in Tasks : marked[u] # "pending" => g[u] = marked[u]
      /\ \A u \in Tasks : marked[u] = "pending" => g[u] \in {"pending", "skipped"}
      /\ \A u \in Tasks : marked[u] = "pending" /\ g[u] = "skipped"
           => HasBrokenDependency(u, g, depsRow[r])
  BY <1>4, SkipDependentsEffect
<1>6. graph'[s] = g /\ \A u \in Slots \ {s} : graph'[u] = graph[u]
  BY <1>2, <1>3 DEF TypeOK
<1> HIDE DEF g, marked
<1>7. taskRow[r][t] = "running" /\ taskRow[r][t] # "done"
  BY <1>1 DEF RowsInv, RecordsAgree, RunningIsRecorded
<1>8. \A u \in Slots \ {s} : stage[u] # "idle" => runOf[u] # r /\ runOf[u] \in Runs
  BY <1>1, TeamRunAssumption DEF RowsInv, TeamInv, Occupied, OneSlot
<1>9. \A q \in Runs : DoneRows(q) \subseteq DoneRows(q)'
  BY <1>2, <1>7 DEF DoneRows
<1>10. RunningIsRecorded'
  <2>1. SUFFICES ASSUME NEW u \in Slots, NEW v \in Tasks, stage[u] # "idle",
                        graph'[u][v] = "running"
                 PROVE  taskRow'[runOf[u]][v] = "running"
    BY <1>1 DEF RunningIsRecorded
  <2>2. CASE u = s
    <3>1. v # t /\ graph[s][v] = "running"
      BY <1>4, <1>5, <1>6, <2>1, <2>2
    <3> QED
      BY <1>1, <1>2, <2>2, <3>1 DEF RowsInv, RecordsAgree, RunningIsRecorded
  <2>3. CASE u # s
    BY <1>2, <1>6, <1>8, <2>1, <2>3 DEF RowsInv, RecordsAgree, RunningIsRecorded
  <2> QED
    BY <2>2, <2>3
<1>11. BegunInOrder'
  <2>1. SUFFICES ASSUME NEW q \in Runs, NEW v \in Tasks, taskRow'[q][v] = "running"
                 PROVE  depsRow[q][v] \subseteq DoneRows(q)'
    BY <1>1 DEF BegunInOrder
  <2>2. taskRow[q][v] = "running"
    BY <1>2, <2>1
  <2> QED
    BY <1>9, <2>2 DEF RowsInv, RecordsAgree, BegunInOrder
<1>12. SkippedWithReason'
  <2>1. SUFFICES ASSUME NEW u \in Slots, NEW v \in Tasks, stage[u] # "idle",
                        graph'[u][v] = "skipped"
                 PROVE  HasBrokenDependency(v, graph'[u], depsRow[runOf[u]])
    BY <1>1 DEF SkippedWithReason
  <2>2. CASE u = s /\ marked[v] = "pending"
    BY <1>5, <1>6, <2>1, <2>2
  <2>3. CASE u = s /\ marked[v] # "pending"
    <3>1. v # t /\ graph[s][v] = "skipped"
      BY <1>4, <1>5, <1>6, <2>1, <2>3
    <3>2. PICK d \in depsRow[r][v] : graph[s][d] \in BrokenStatus
      BY <1>1, <3>1 DEF RowsInv, RecordsAgree, SkippedWithReason, HasBrokenDependency
    <3>3. d \in Tasks /\ d # t
      BY <1>1, <1>4, <3>2 DEF BrokenStatus
    <3>4. g[d] \in BrokenStatus
      BY <1>4, <1>5, <3>2, <3>3 DEF BrokenStatus
    <3> QED
      BY <1>6, <2>3, <3>2, <3>4 DEF HasBrokenDependency
  <2>4. CASE u # s
    BY <1>6, <2>1, <2>4 DEF RowsInv, RecordsAgree, SkippedWithReason
  <2> QED
    BY <2>2, <2>3, <2>4
<1>13. EndedIsComplete'
  <2>1. stage[s] # "synthesis"
    BY <1>1 DEF RowsInv, RecordsAgree, EndedIsComplete, IsComplete, TerminalStatus
  <2> QED
    BY <1>1, <1>6, <2>1 DEF RowsInv, RecordsAgree, EndedIsComplete
<1>14. NothingBefore'
  <2>1. runRow[r] # "none"
    BY <1>1 DEF RowsInv, TeamInv, Occupied
  <2> QED
    BY <1>1, <1>2, <2>1 DEF RowsInv, RecordsAgree, NothingBefore
<1>15. Contract!Progress(r)
  <2>1. r \in LiveRuns /\ LiveRuns' = LiveRuns
    BY <1>1 DEF LiveRuns, Executing
  <2>2. ASSUME NEW u \in Tasks PROVE Contract!Ends(r, u) \/ taskRow'[r][u] = taskRow[r][u]
    <3>1. taskRow'[r][u] = IF u = t THEN new ELSE taskRow[r][u]
      BY <1>1, <1>2
    <3> QED
      BY <1>7, <3>1 DEF Contract!Ends
  <2>3. \A q \in Runs \ {r} : taskRow'[q] = taskRow[q]
    BY <1>2, <1>3 DEF TypeOK
  <2>4. taskRow' \in [Runs -> [Tasks -> TaskStatus]]
    BY <1>2, <1>3 DEF TypeOK, TaskStatus
  <2> QED
    BY <1>1, <2>1, <2>2, <2>3, <2>4, RunContractGraph DEF Contract!Progress
<1> QED
  BY <1>10, <1>11, <1>12, <1>13, <1>14, <1>15 DEF RecordsAgree

\* A run that is created or taken up: its graph has only done and pending tasks.
LEMMA TakeUpKeepsRows ==
  ASSUME RowsInv, ~ResumesLive, NEW s \in Slots, NEW r \in Runs,
         (\E d \in Graphs, i \in BOOLEAN : Start(s, r, d, i)) \/ Resume(s, r)
  PROVE  RecordsAgree' /\ (Contract!Create(r) \/ Contract!Resume(r))
<1>1. TypeOK
  BY DEF RowsInv, TeamInv, RowsTellTheTruth
<1>2. /\ stage[s] = "idle" /\ runOf[s] = NoRun /\ ~Executing(r) /\ r \notin LiveRuns
      /\ runRow' = [runRow EXCEPT ![r] = "running"] /\ taskRow' = taskRow
  <2>1. runRow[r] = "none" => ~Executing(r)
    BY TeamRunAssumption DEF Executing, RowsInv, TeamInv, Occupied
  <2> QED
    BY <2>1 DEF Start, Resume, LiveRuns, RowsInv, TeamInv, Occupied
<1>3. /\ \/ /\ runRow[r] = "none"
            /\ \E d \in DependencyMaps : depsRow' = [depsRow EXCEPT ![r] = d]
            /\ \E i \in {"none", "open"} : issue' = [issue EXCEPT ![r] = i]
         \/ runRow[r] \in {"running", "failed"} /\ UNCHANGED <<depsRow, issue>>
      /\ IF ValidGraph(depsRow'[r])
           THEN \E method \in {"run", "resume"} : \E done : Occupy(s, r, method, done)
           ELSE UNCHANGED memory
  <2>1. ASSUME NEW d \in Graphs, NEW i \in BOOLEAN, Start(s, r, d, i) PROVE <1>3!:
    <3>1. d \in DependencyMaps /\ depsRow' = [depsRow EXCEPT ![r] = d] /\ depsRow'[r] = d
      BY <1>1, <2>1, TeamRunAssumption DEF Start, TypeOK
    <3>2. runRow[r] = "none" /\ issue' = [issue EXCEPT ![r] = IF i THEN "open" ELSE "none"]
      BY <2>1 DEF Start
    <3>3. IF ValidGraph(d) THEN Occupy(s, r, "run", {}) ELSE UNCHANGED memory
      BY <2>1 DEF Start
    <3>4. (IF i THEN "open" ELSE "none") \in {"none", "open"}
      OBVIOUS
    <3> QED
      BY <3>1, <3>2, <3>3, <3>4
  <2>2. CASE Resume(s, r)
    <3>1. /\ runRow[r] \in {"running", "failed"} /\ UNCHANGED <<depsRow, issue>>
          /\ IF ValidGraph(depsRow[r]) THEN Occupy(s, r, "resume", DoneRows(r))
                                       ELSE UNCHANGED memory
      BY <2>2 DEF Resume
    <3> QED
      BY <3>1
  <2> QED
    BY <2>1, <2>2
<1>4. \A q \in Runs \ {r} : depsRow'[q] = depsRow[q]
  BY <1>1, <1>3 DEF TypeOK
<1>5. \A u \in Slots \ {s} : /\ graph'[u] = graph[u] /\ runOf'[u] = runOf[u] /\ stage'[u] = stage[u]
                             /\ runOf[u] # r
  BY <1>1, <1>2, <1>3 DEF TypeOK, Occupy, memory, Executing
<1>6. \/ UNCHANGED <<runOf, stage, graph>>
      \/ /\ runOf'[s] = r /\ stage'[s] = "tasks"
         /\ \A t \in Tasks : graph'[s][t] \in {"done", "pending"}
  BY <1>1, <1>3 DEF TypeOK, Occupy, memory, NewGraph
<1>7. \A u \in Slots \ {s} : stage[u] # "idle" => runOf[u] \in Runs \ {r}
  BY <1>5 DEF RowsInv, TeamInv, Occupied
<1>8. RunningIsRecorded' /\ SkippedWithReason' /\ EndedIsComplete'
  <2>1. \A t \in Tasks : stage'[s] # "idle" => graph'[s][t] \in {"done", "pending"}
    BY <1>2, <1>6
  <2>2. stage'[s] # "synthesis"
    BY <1>2, <1>6
  <2>3. RunningIsRecorded'
    BY <1>2, <1>5, <2>1 DEF RowsInv, RecordsAgree, RunningIsRecorded
  <2>4. SkippedWithReason'
    BY <1>4, <1>5, <1>7, <2>1 DEF RowsInv, RecordsAgree, SkippedWithReason
  <2>5. EndedIsComplete'
    BY <1>5, <2>2 DEF RowsInv, RecordsAgree, EndedIsComplete
  <2> QED
    BY <2>3, <2>4, <2>5
<1>9. BegunInOrder'
  <2>1. \A q \in Runs : DoneRows(q)' = DoneRows(q)
    BY <1>2 DEF DoneRows
  <2>2. \A t \in Tasks : taskRow[r][t] = "running" => depsRow'[r] = depsRow[r]
    BY <1>3 DEF RowsInv, RecordsAgree, NothingBefore
  <2> QED
    BY <1>2, <1>4, <2>1, <2>2 DEF RowsInv, RecordsAgree, BegunInOrder
<1>10. NothingBefore'
  BY <1>1, <1>2 DEF RowsInv, RecordsAgree, NothingBefore, TypeOK
<1>11. LiveRuns' = IF ValidGraph(depsRow'[r]) THEN LiveRuns \cup {r} ELSE LiveRuns
  <2>1. CASE ValidGraph(depsRow'[r])
    <3>1. runOf' = [runOf EXCEPT ![s] = r]
      BY <1>3, <2>1 DEF Occupy
    <3>2. runOf'[s] = r /\ runOf[s] \notin Runs
      BY <1>1, <1>2, <3>1, TeamRunAssumption DEF TypeOK
    <3>3. \A q \in Runs \ {r} : Executing(q)' <=> Executing(q)
      BY <1>5, <3>2 DEF Executing
    <3>4. Executing(r)'
      BY <3>2 DEF Executing
    <3> QED
      BY <2>1, <3>3, <3>4 DEF LiveRuns
  <2>2. CASE ~ValidGraph(depsRow'[r])
    BY <1>3, <2>2 DEF memory, LiveRuns, Executing
  <2> QED
    BY <2>1, <2>2
<1>12. Contract!TakenUp(r)
  BY <1>2, <1>11, RunContractGraph DEF Contract!TakenUp
<1>13. Contract!Create(r) \/ Contract!Resume(r)
  BY <1>2, <1>3, <1>12, RunContractGraph DEF Contract!Create, Contract!Resume
<1> QED
  BY <1>8, <1>9, <1>10, <1>13 DEF RecordsAgree

\* Slots that become free take nothing of the rows along.
LEMMA LeaveKeepsRows ==
  ASSUME RowsInv, NEW dead \in SUBSET Slots,
         \A s \in Slots \ dead : /\ runOf'[s] = runOf[s] /\ stage'[s] = stage[s]
                                 /\ graph'[s] = graph[s],
         \A s \in dead : stage'[s] = "idle",
         UNCHANGED <<depsRow, taskRow>>,
         \A r \in Runs : runRow'[r] = "none" => runRow[r] = "none"
  PROVE  RecordsAgree'
<1>1. RunningIsRecorded' /\ SkippedWithReason' /\ EndedIsComplete'
  BY DEF RowsInv, RecordsAgree, RunningIsRecorded, SkippedWithReason, EndedIsComplete
<1>2. BegunInOrder' /\ NothingBefore'
  BY DEF RowsInv, RecordsAgree, BegunInOrder, NothingBefore, DoneRows
<1> QED
  BY <1>1, <1>2 DEF RecordsAgree

\* A run that is settled has nothing recorded as running: such a task would be skipped in
\* the graph, behind a dependency that is broken there and recorded as done.
LEMMA FinishKeepsRows ==
  ASSUME RowsInv, NEW s \in Slots, NEW r, r = runOf[s], Finish(s)
  PROVE  RecordsAgree' /\ Contract!Settle(r)
<1>1. TypeOK
  BY DEF RowsInv, TeamInv, RowsTellTheTruth
<1>2. /\ stage[s] = "synthesis" /\ stage[s] # "idle" /\ r \in Runs /\ ValidGraph(depsRow[r])
      /\ runRow' = [runRow EXCEPT ![r] = IF AllDone(s) THEN "done" ELSE "failed"]
      /\ issue' = [issue EXCEPT ![r] = IF call[s] = "run" /\ issue[r] = "open" /\ AllDone(s)
                                         THEN "closed" ELSE issue[r]]
      /\ Vacate(s) /\ UNCHANGED <<depsRow, taskRow>>
  BY DEF Finish, RowsInv, TeamInv, Occupied
<1>3. /\ runOf'[s] = NoRun /\ stage'[s] = "idle"
      /\ \A u \in Slots \ {s} : /\ runOf'[u] = runOf[u] /\ stage'[u] = stage[u]
                                /\ graph'[u] = graph[u] /\ runOf[u] # r
  BY <1>1, <1>2, TeamRunAssumption DEF Vacate, TypeOK, RowsInv, TeamInv, OneSlot
<1>4. \A q \in Runs : runRow'[q] = "none" => runRow[q] = "none"
  BY <1>1, <1>2 DEF TypeOK
<1>5. RecordsAgree'
  <2>1. \A u \in {s} : stage'[u] = "idle"
    BY <1>3
  <2>2. {s} \in SUBSET Slots
    OBVIOUS
  <2> QED
    BY <1>2, <1>3, <1>4, <2>1, <2>2, LeaveKeepsRows
<1>6. \A t \in Tasks : /\ graph[s][t] = "done" <=> taskRow[r][t] = "done"
                       /\ graph[s][t] = "failed" => taskRow[r][t] = "failed"
  BY <1>2 DEF RowsInv, TeamInv, RowsTellTheTruth, RowsFollowGraph
<1>7. ASSUME NEW t \in Tasks, taskRow[r][t] = "running" PROVE FALSE
  <2>1. graph[s][t] = "skipped"
    BY <1>2, <1>6, <1>7 DEF RowsInv, RecordsAgree, EndedIsComplete, IsComplete, TerminalStatus
  <2>2. PICK d \in depsRow[r][t] : graph[s][d] \in BrokenStatus
    BY <1>2, <2>1 DEF RowsInv, RecordsAgree, SkippedWithReason, HasBrokenDependency
  <2>3. d \in Tasks /\ taskRow[r][d] = "done"
    BY <1>2, <1>7, <2>2 DEF RowsInv, RecordsAgree, BegunInOrder, DoneRows
  <2> QED
    BY <1>6, <2>2, <2>3 DEF BrokenStatus
<1>8. Contract!AllDone(r) <=> AllDone(s)
  BY <1>6, RunContractGraph DEF Contract!AllDone, AllDone
<1>9. r \in LiveRuns /\ LiveRuns' = LiveRuns \ {r}
  <2>1. r \in LiveRuns
    BY <1>2 DEF LiveRuns, Executing
  <2>2. \A u \in Slots : runOf'[u] # r
    BY <1>2, <1>3, TeamRunAssumption
  <2>3. ASSUME NEW q \in Runs \ {r} PROVE Executing(q)' <=> Executing(q)
    <3>1. \A u \in Slots : runOf'[u] = q <=> runOf[u] = q
      BY <1>3, TeamRunAssumption
    <3> QED
      BY <3>1 DEF Executing
  <2>4. ~Executing(r)'
    BY <2>2 DEF Executing
  <2> QED
    BY <2>1, <2>3, <2>4 DEF LiveRuns
<1>10. \/ UNCHANGED issue
       \/ AllDone(s) /\ issue[r] = "open" /\ issue' = [issue EXCEPT ![r] = "closed"]
  BY <1>1, <1>2 DEF TypeOK
<1>11. Contract!Settle(r)
  BY <1>2, <1>7, <1>8, <1>9, <1>10, RunContractGraph DEF Contract!Settle
<1> QED
  BY <1>5, <1>11

\* A crash, or a synthesis that throws, abandons what it executed.
LEMMA DieKeepsRows ==
  ASSUME RowsInv, (\E s \in Slots : SynthesisThrows(s)) \/ (\E p : Crash(p))
  PROVE  RecordsAgree' /\ Contract!Abandon
<1>1. TypeOK
  BY DEF RowsInv, TeamInv, RowsTellTheTruth
<1>2. /\ UNCHANGED <<runRow, depsRow, taskRow, issue>>
      /\ \E dead \in SUBSET Slots :
           /\ \A s \in Slots \ dead : /\ runOf'[s] = runOf[s] /\ stage'[s] = stage[s]
                                      /\ graph'[s] = graph[s]
           /\ \A s \in dead : runOf'[s] = NoRun /\ stage'[s] = "idle"
  <2>1. ASSUME NEW s \in Slots, SynthesisThrows(s) PROVE <1>2!:
    <3>1. \A u \in Slots \ {s} : /\ runOf'[u] = runOf[u] /\ stage'[u] = stage[u]
                                 /\ graph'[u] = graph[u]
      BY <1>1, <2>1 DEF SynthesisThrows, Vacate, TypeOK
    <3>2. \A u \in {s} : runOf'[u] = NoRun /\ stage'[u] = "idle"
      BY <1>1, <2>1 DEF SynthesisThrows, Vacate, TypeOK
    <3>3. {s} \in SUBSET Slots /\ UNCHANGED <<runRow, depsRow, taskRow, issue>>
      BY <2>1 DEF SynthesisThrows, rows
    <3> QED
      BY <3>1, <3>2, <3>3
  <2>2. ASSUME NEW p, Crash(p) PROVE <1>2!:
    <3> DEFINE dead == {s \in Slots : Process(s) = p}
    <3>1. /\ runOf' = [s \in Slots |-> IF s \in dead THEN NoRun ELSE runOf[s]]
          /\ stage' = [s \in Slots |-> IF s \in dead THEN "idle" ELSE stage[s]]
          /\ graph' = [s \in Slots |-> IF s \in dead THEN NewGraph({}) ELSE graph[s]]
          /\ UNCHANGED <<runRow, depsRow, taskRow, issue>>
      BY <2>2 DEF Crash, rows
    <3>2. dead \in SUBSET Slots
      OBVIOUS
    <3> HIDE DEF dead
    <3> QED
      BY <3>1, <3>2
  <2> QED
    BY <2>1, <2>2
<1>3. PICK dead \in SUBSET Slots :
        /\ \A s \in Slots \ dead : /\ runOf'[s] = runOf[s] /\ stage'[s] = stage[s]
                                   /\ graph'[s] = graph[s]
        /\ \A s \in dead : runOf'[s] = NoRun /\ stage'[s] = "idle"
  BY <1>2
<1>4. RecordsAgree'
  BY <1>2, <1>3, LeaveKeepsRows
<1>5. LiveRuns' \subseteq LiveRuns
  BY <1>3, TeamRunAssumption DEF LiveRuns, Executing
<1> QED
  BY <1>2, <1>4, <1>5 DEF Contract!Abandon

\* The steps that touch neither a graph nor what is recorded of a task or a run.
LEMMA RestKeepsRows ==
  ASSUME RowsInv,
         (\E s \in Slots : TasksEnd(s)) \/ (\E r \in Runs : UserClosesIssue(r)) \/ UNCHANGED vars
  PROVE  /\ RecordsAgree'
         /\ UNCHANGED Contract!contractVars \/ \E r \in Runs : Contract!Dismiss(r)
<1>1. TypeOK
  BY DEF RowsInv, TeamInv, RowsTellTheTruth
<1>2. /\ UNCHANGED <<runRow, depsRow, taskRow, runOf, graph>>
      /\ \A s \in Slots : /\ stage'[s] = "idle" <=> stage[s] = "idle"
                          /\ stage'[s] = "synthesis" =>
                               stage[s] = "synthesis" \/ IsComplete(graph[s])
  BY <1>1 DEF TasksEnd, UserClosesIssue, vars, rows, memory, TypeOK
<1>3. RunningIsRecorded' /\ SkippedWithReason' /\ EndedIsComplete'
  BY <1>2 DEF RowsInv, RecordsAgree, RunningIsRecorded, SkippedWithReason, EndedIsComplete
<1>4. BegunInOrder' /\ NothingBefore'
  BY <1>2 DEF RowsInv, RecordsAgree, BegunInOrder, NothingBefore, DoneRows
<1>5. LiveRuns' = LiveRuns
  BY <1>2 DEF LiveRuns, Executing
<1>6. \/ UNCHANGED issue
      \/ \E r \in Runs : issue[r] = "open" /\ issue' = [issue EXCEPT ![r] = "dismissed"]
  BY DEF TasksEnd, UserClosesIssue, vars, rows
<1> QED
  BY <1>2, <1>3, <1>4, <1>5, <1>6 DEF RecordsAgree, Contract!contractVars, Contract!Dismiss

\* Each action keeps the invariant and is a step of the contract, or none.
LEMMA RowsStep ==
  ASSUME RowsInv, TeamsDiffer, ~ResumesLive, [Next]_vars
  PROVE  RowsInv' /\ [Contract!Next]_Contract!contractVars
<1>1. TeamInv'
  BY TeamRunStep DEF RowsInv
<1>2. ASSUME NEW s \in Slots, LaunchWave(s) PROVE RowsInv' /\ Contract!Next
  <2>1. runOf[s] \in Runs
    BY <1>2, LaunchEffect DEF RowsInv
  <2> QED
    BY <1>1, <1>2, <2>1, WaveKeepsRows DEF Contract!Next
<1>3. ASSUME NEW s \in Slots, NEW t \in Tasks, TaskSucceeds(s, t) \/ TaskFails(s, t)
      PROVE  RowsInv' /\ Contract!Next
  <2>1. runOf[s] \in Runs
    BY <1>3, EndEffect DEF RowsInv
  <2> QED
    BY <1>1, <1>3, <2>1, EndKeepsRows DEF RowsInv, Contract!Next
<1>4. ASSUME NEW s \in Slots, Finish(s) PROVE RowsInv' /\ Contract!Next
  <2>1. runOf[s] \in Runs
    BY <1>4 DEF Finish, RowsInv, TeamInv, Occupied
  <2> QED
    BY <1>1, <1>4, <2>1, FinishKeepsRows DEF RowsInv, Contract!Next
<1>5. ASSUME (\E s \in Slots : SynthesisThrows(s)) \/ (\E p : Crash(p))
      PROVE  RowsInv' /\ Contract!Next
  BY <1>1, <1>5, DieKeepsRows DEF RowsInv, Contract!Next
<1>6. ASSUME NEW s \in Slots, NEW r \in Runs,
             (\E d \in Graphs, i \in BOOLEAN : Start(s, r, d, i)) \/ Resume(s, r)
      PROVE  RowsInv' /\ Contract!Next
  BY <1>1, <1>6, TakeUpKeepsRows DEF RowsInv, Contract!Next
<1>7. ASSUME \/ \E s \in Slots : TasksEnd(s)
             \/ \E r \in Runs : UserClosesIssue(r)
             \/ UNCHANGED vars
      PROVE  RowsInv' /\ [Contract!Next]_Contract!contractVars
  BY <1>1, <1>7, RestKeepsRows DEF RowsInv, Contract!Next
<1> QED
  BY <1>2, <1>3, <1>4, <1>5, <1>6, <1>7 DEF Next, Work

\* What is recorded of team runs implements the contract: every step of any execution, crash
\* or resume is a step of it, or changes nothing a reader of the rows can see
\* (TeamCoordinator.run and .resume, the stores of src/projects).
THEOREM RowsRefineContract ==
  ASSUME TeamsDiffer, ~ResumesLive
  PROVE  Spec => RowsImplementContract
<1>1. Init => RowsInv
  BY RowsStart
<1>2. Init => Contract!Init
  <2>1. Init => LiveRuns = {}
    BY TeamRunAssumption DEF Init, LiveRuns, Executing
  <2> QED
    BY <2>1, RunContractGraph DEF Init, Contract!Init
<1>3. RowsInv /\ [Next]_vars => RowsInv' /\ [Contract!Next]_Contract!contractVars
  BY RowsStep
<1> QED
  BY <1>1, <1>2, <1>3, PTL DEF Spec, RowsImplementContract, Contract!Safety

----------------------------------------------------------------------------
(***************************************************************************)
(* Projects. A lookup and the creation it leads to have an await between   *)
(* them; what keeps a second run of the gateway from creating as well is   *)
(* that at most one is between the two, which the invariant adds.          *)
(***************************************************************************)

Stages == {"idle", "creating", "brief", "planning", "tasks"}
Executions == [stage : Stages, team : ProjectTeams \cup {NoProject}, project : ProjectIds \cup {NoProject}]
ProjectRows == [team : ProjectTeams, status : {"active", "archived"}]
Creating(t) == {s \in RunSlots : execution[s].stage = "creating" /\ execution[s].team = t}

\* Rows and their order, and what the slots hold.
RowsSound ==
  /\ Rows \in SUBSET ProjectIds /\ projects \in [Rows -> ProjectRows] /\ IsFiniteSet(Rows)
  /\ recency \in Seq(ProjectIds)
  /\ \A i, j \in 1..Len(recency) : recency[i] = recency[j] => i = j
  /\ \A p : p \in Rows <=> \E i \in 1..Len(recency) : recency[i] = p
  /\ everRun \subseteq Rows
SlotsSound ==
  /\ execution \in [RunSlots -> Executions]
  /\ \A s \in RunSlots :
       /\ execution[s].project \in Rows \cup {NoProject}
       /\ execution[s].stage \in {"brief", "planning", "tasks"} => execution[s].project \in Rows
       /\ execution[s].stage # "idle" => execution[s].team \in ProjectTeams

\* What OneProjectPerProcess adds to itself: of the gateway's runs at most one is between
\* finding no project and creating one.
OneCreator ==
  \A r, s \in GatewayRuns : execution[r].stage = "creating" /\ execution[s].stage = "creating" => r = s

ProjectsInv == RowsSound /\ SlotsSound /\ OneCreator /\ OneProjectPerProcess

\* The invariant holds before the first run.
LEMMA ProjectsInitOK == ProjectsInit => ProjectsInv
<1> SUFFICES ASSUME ProjectsInit PROVE ProjectsInv
  OBVIOUS
<1>1. Rows = {} /\ recency \in Seq(ProjectIds) /\ Len(recency) = 0 /\ everRun = {}
  BY DEF ProjectsInit, Rows
<1>2. IsFiniteSet({}) /\ Cardinality({}) = 0
  BY FS_EmptySet
<1>3. RowsSound
  BY <1>1, <1>2 DEF RowsSound, Rows, ProjectsInit
<1>4. NoExecution \in Executions /\ NoExecution.stage = "idle" /\ NoExecution.project = NoProject
  BY DEF NoExecution, Executions, Stages
<1>5. \A s \in RunSlots : execution[s] = NoExecution
  BY DEF ProjectsInit
<1>6. SlotsSound /\ OneCreator
  <2>1. execution \in [RunSlots -> Executions]
    BY <1>4 DEF ProjectsInit
  <2> QED
    BY <1>4, <1>5, <2>1 DEF SlotsSound, OneCreator, RunSlots
<1>7. ASSUME NEW t \in ProjectTeams
      PROVE  ActiveOf(t) = {} /\ {s \in RunSlots : execution[s].stage = "creating" /\ execution[s].team = t} = {}
  BY <1>1, <1>4, <1>5 DEF ActiveOf
<1>8. OneProjectPerProcess
  <2>1. Cardinality(CliRuns) \in Nat
    BY ProjectsAssumption, FS_CardinalityType
  <2>2. 0 + 0 <= 1 + Cardinality(CliRuns)
    BY <2>1
  <2>3. ASSUME NEW t \in ProjectTeams
        PROVE  Cardinality(ActiveOf(t)) = 0
               /\ Cardinality({s \in RunSlots : execution[s].stage = "creating" /\ execution[s].team = t}) = 0
    BY <1>2, <1>7
  <2> QED
    BY <2>2, <2>3 DEF OneProjectPerProcess
<1> QED
  BY <1>3, <1>6, <1>8 DEF ProjectsInv

\* The search finds an active row of the team if there is one.
LEMMA FindFacts ==
  ASSUME ProjectsInv, NEW t \in ProjectTeams
  PROVE  /\ FindActiveByTeam(t) = NoProject => ActiveOf(t) = {}
         /\ FindActiveByTeam(t) # NoProject => FindActiveByTeam(t) \in ActiveOf(t)
<1>1. CASE ActiveOf(t) = {}
  BY <1>1 DEF FindActiveByTeam
<1>2. CASE ActiveOf(t) # {}
  <2> DEFINE n == Len(recency)
             T == {n - Place(p) : p \in ActiveOf(t)}
  <2>1. n \in Nat /\ DOMAIN recency = 1..n
    BY DEF ProjectsInv, RowsSound
  <2>2. \A p \in ActiveOf(t) : p \in Rows /\ Place(p) \in 1..n
    BY <2>1 DEF ProjectsInv, RowsSound, ActiveOf, Place
  <2> HIDE DEF n
  <2>3. T \in SUBSET Nat /\ T # {}
    BY <1>2, <2>1, <2>2
  <2>4. PICK m \in T : \A k \in T : m <= k
    BY <2>3, HasSmallest
  <2>5. PICK p \in ActiveOf(t) : m = n - Place(p)
    BY <2>4
  <2>6. ASSUME NEW q \in ActiveOf(t) PROVE Place(q) <= Place(p)
    <3>1. n - Place(p) <= n - Place(q)
      BY <2>4, <2>5
    <3> QED
      BY <2>1, <2>2, <3>1
  <2>7. FindActiveByTeam(t) \in ActiveOf(t)
    BY <1>2, <2>6 DEF FindActiveByTeam
  <2>8. NoProject \notin ActiveOf(t)
    BY <2>2, ProjectsAssumption DEF ProjectsInv, RowsSound
  <2> QED
    BY <1>2, <2>7, <2>8
<1> QED
  BY <1>1, <1>2

\* A row that is bumped is the last one, and the rows are the same.
LEMMA BumpedFacts ==
  ASSUME ProjectsInv, NEW p \in Rows
  PROVE  /\ Bumped(p) \in Seq(ProjectIds)
         /\ \A i, j \in 1..Len(Bumped(p)) : Bumped(p)[i] = Bumped(p)[j] => i = j
         /\ \A q : q \in Rows <=> \E i \in 1..Len(Bumped(p)) : Bumped(p)[i] = q
<1> DEFINE n == Len(recency)
           k == Place(p)
           r == RemoveAt(recency, k)
           b == Append(r, p)
<1>1. recency \in Seq(ProjectIds) /\ n \in Nat /\ DOMAIN recency = 1..n /\ p \in ProjectIds
      /\ \A i, j \in 1..n : recency[i] = recency[j] => i = j
  BY DEF ProjectsInv, RowsSound
<1>2. k \in 1..n /\ recency[k] = p
  BY <1>1 DEF ProjectsInv, RowsSound, Place
<1> HIDE DEF k
<1>3. /\ r \in Seq(ProjectIds) /\ Len(r) = n - 1
      /\ \A j \in 1..n-1 : r[j] = IF j < k THEN recency[j] ELSE recency[j+1]
  BY <1>1, <1>2, RemoveAtFacts
<1>4. /\ \A j \in 1..n : j # k => \E i \in 1..Len(r) : r[i] = recency[j]
      /\ \A i \in 1..Len(r) : \E j \in 1..n : j # k /\ r[i] = recency[j]
  BY <1>1, <1>2, RemoveAtElements
<1> HIDE DEF r, n
<1>5. /\ b \in Seq(ProjectIds) /\ Len(b) = n /\ b[n] = p /\ \A i \in 1..n-1 : b[i] = r[i]
  <2>1. b \in Seq(ProjectIds) /\ Len(b) = Len(r) + 1 /\ b[Len(r) + 1] = p /\ \A i \in 1..Len(r) : b[i] = r[i]
    BY <1>1, <1>3, AppendProperties
  <2>2. Len(r) + 1 = n
    BY <1>1, <1>3
  <2> HIDE DEF b
  <2> QED
    BY <1>3, <2>1, <2>2
<1> HIDE DEF b
<1>6. \A i, j \in 1..n-1 : r[i] = r[j] => i = j
  <2> SUFFICES ASSUME NEW i \in 1..n-1, NEW j \in 1..n-1, r[i] = r[j] PROVE i = j
    OBVIOUS
  <2>1. i \in 1..n /\ j \in 1..n /\ i+1 \in 1..n /\ j+1 \in 1..n
    BY <1>1
  <2>2. k \in Int /\ i \in Int /\ j \in Int
    BY <1>2
  <2>3. CASE i < k /\ j < k
    <3>1. r[i] = recency[i] /\ r[j] = recency[j]
      BY <1>3, <2>3
    <3> QED
      BY <1>1, <2>1, <3>1
  <2>4. CASE i < k /\ ~(j < k)
    <3>1. r[i] = recency[i] /\ r[j] = recency[j+1]
      BY <1>3, <2>4
    <3>2. i = j + 1
      BY <1>1, <2>1, <3>1
    <3> QED
      BY <2>2, <2>4, <3>2
  <2>5. CASE ~(i < k) /\ j < k
    <3>1. r[i] = recency[i+1] /\ r[j] = recency[j]
      BY <1>3, <2>5
    <3>2. i + 1 = j
      BY <1>1, <2>1, <3>1
    <3> QED
      BY <2>2, <2>5, <3>2
  <2>6. CASE ~(i < k) /\ ~(j < k)
    <3>1. r[i] = recency[i+1] /\ r[j] = recency[j+1]
      BY <1>3, <2>6
    <3>2. i + 1 = j + 1
      BY <1>1, <2>1, <3>1
    <3> QED
      BY <2>2, <3>2
  <2> QED
    BY <2>3, <2>4, <2>5, <2>6
<1>7. ASSUME NEW i \in 1..n-1 PROVE r[i] # p
  <2>1. i \in 1..Len(r)
    BY <1>3
  <2>2. PICK j \in 1..n : j # k /\ r[i] = recency[j]
    BY <1>4, <2>1
  <2> QED
    BY <1>1, <1>2, <2>2
<1>8. \A i \in 1..n : i \in 1..n-1 \/ i = n
  <2>1. n \in Nat
    BY <1>1
  <2> QED
    BY <2>1
<1>9. \A i, j \in 1..n : b[i] = b[j] => i = j
  BY <1>5, <1>6, <1>7, <1>8
<1>10. ASSUME NEW q PROVE q \in Rows <=> \E i \in 1..n : b[i] = q
  <2>1. q \in Rows <=> \E i \in 1..n : recency[i] = q
    BY DEF ProjectsInv, RowsSound, n
  <2>2. ASSUME NEW i \in 1..n PROVE \E j \in 1..n : b[j] = recency[i]
    <3>1. CASE i = k
      <4>1. n \in 1..n
        BY <1>1, <1>2
      <4> QED
        BY <1>2, <1>5, <3>1, <4>1
    <3>2. CASE i # k
      <4>1. PICK j \in 1..Len(r) : r[j] = recency[i]
        BY <1>4, <3>2
      <4>2. j \in 1..n-1 /\ j \in 1..n
        BY <1>1, <1>3
      <4> QED
        BY <1>5, <4>1, <4>2
    <3> QED
      BY <3>1, <3>2
  <2>3. ASSUME NEW j \in 1..n PROVE \E i \in 1..n : recency[i] = b[j]
    <3>1. CASE j = n
      BY <1>2, <1>5, <3>1
    <3>2. CASE j \in 1..n-1
      <4>1. b[j] = r[j]
        BY <1>5, <3>2
      <4>2. j \in 1..Len(r)
        BY <1>3, <3>2
      <4>3. PICK i \in 1..n : i # k /\ r[j] = recency[i]
        BY <1>4, <4>2
      <4> QED
        BY <4>1, <4>3
    <3> QED
      BY <1>8, <3>1, <3>2
  <2> QED
    BY <2>1, <2>2, <2>3
<1>11. b = Bumped(p)
  BY DEF b, r, k, Bumped
<1> QED
  BY <1>5, <1>9, <1>10, <1>11

\* The sum that is bounded, of finite sets.
LEMMA SumsAreNumbers ==
  ASSUME ProjectsInv, NEW t \in ProjectTeams
  PROVE  /\ IsFiniteSet(ActiveOf(t)) /\ IsFiniteSet(Creating(t))
         /\ Cardinality(ActiveOf(t)) \in Nat /\ Cardinality(Creating(t)) \in Nat
         /\ Cardinality(CliRuns) \in Nat
         /\ Cardinality(ActiveOf(t)) + Cardinality(Creating(t)) <= 1 + Cardinality(CliRuns)
<1>1. IsFiniteSet(RunSlots) /\ IsFiniteSet(CliRuns)
  BY ProjectsAssumption, FS_Union DEF RunSlots
<1>2. ActiveOf(t) \in SUBSET Rows /\ Creating(t) \in SUBSET RunSlots
  BY DEF ActiveOf, Creating
<1>3. IsFiniteSet(ActiveOf(t)) /\ IsFiniteSet(Creating(t))
  BY <1>1, <1>2, FS_Subset DEF ProjectsInv, RowsSound
<1> QED
  BY <1>1, <1>3, FS_CardinalityType DEF ProjectsInv, OneProjectPerProcess, Creating
\* A slot changes what it holds.
LEMMA OneSlotMoves ==
  ASSUME ProjectsInv, NEW s \in RunSlots, NEW e \in Executions, execution' = [execution EXCEPT ![s] = e],
         Rows \subseteq Rows', e.project \in Rows' \cup {NoProject},
         e.stage \in {"brief", "planning", "tasks"} => e.project \in Rows',
         e.stage # "idle" => e.team \in ProjectTeams
  PROVE  SlotsSound' /\ \A r \in RunSlots : execution'[r] = IF r = s THEN e ELSE execution[r]
<1>1. execution \in [RunSlots -> Executions]
  BY DEF ProjectsInv, SlotsSound
<1>2. execution' \in [RunSlots -> Executions] /\ \A r \in RunSlots : execution'[r] = IF r = s THEN e ELSE execution[r]
  BY <1>1
<1> QED
  BY <1>2 DEF ProjectsInv, SlotsSound

\* Rows stay, in some order.
LEMMA RowsStay ==
  ASSUME ProjectsInv, UNCHANGED projects, everRun' \subseteq Rows,
         recency' = recency \/ \E p \in Rows : recency' = Bumped(p)
  PROVE  RowsSound' /\ Rows' = Rows /\ \A t : ActiveOf(t)' = ActiveOf(t)
<1>1. Rows' = Rows /\ \A t : ActiveOf(t)' = ActiveOf(t)
  BY DEF Rows, ActiveOf
<1>2. CASE recency' = recency
  BY <1>1, <1>2 DEF ProjectsInv, RowsSound
<1>3. ASSUME NEW p \in Rows, recency' = Bumped(p) PROVE RowsSound'
  <2>1. /\ recency' \in Seq(ProjectIds)
        /\ \A i, j \in 1..Len(recency') : recency'[i] = recency'[j] => i = j
        /\ \A q : q \in Rows <=> \E i \in 1..Len(recency') : recency'[i] = q
    BY <1>3, BumpedFacts
  <2> QED
    BY <1>1, <2>1 DEF ProjectsInv, RowsSound
<1> QED
  BY <1>1, <1>2, <1>3

\* Where nobody starts to create and no row becomes active, the sum does not grow.
LEMMA NoNewCreator ==
  ASSUME ProjectsInv, RowsSound', SlotsSound',
         \A t \in ProjectTeams : ActiveOf(t)' \subseteq ActiveOf(t),
         \A s \in RunSlots : execution'[s].stage = "creating" => execution'[s] = execution[s]
  PROVE  ProjectsInv'
<1>1. ASSUME NEW t \in ProjectTeams
      PROVE  Cardinality(ActiveOf(t)') + Cardinality(Creating(t)') <= 1 + Cardinality(CliRuns)
  <2>1. Creating(t)' \in SUBSET Creating(t) /\ ActiveOf(t)' \in SUBSET ActiveOf(t)
    BY DEF Creating
  <2>2. /\ IsFiniteSet(ActiveOf(t)') /\ Cardinality(ActiveOf(t)') <= Cardinality(ActiveOf(t))
        /\ IsFiniteSet(Creating(t)') /\ Cardinality(Creating(t)') <= Cardinality(Creating(t))
    BY <2>1, SumsAreNumbers, FS_Subset
  <2>3. Cardinality(ActiveOf(t)') \in Nat /\ Cardinality(Creating(t)') \in Nat
    BY <2>2, FS_CardinalityType
  <2> QED
    BY <2>2, <2>3, SumsAreNumbers
<1>2. OneCreator'
  BY DEF ProjectsInv, OneCreator, RunSlots
<1> QED
  BY <1>1, <1>2 DEF ProjectsInv, OneProjectPerProcess, Creating

\* Whoever may create: the process that found nothing, when no run of its process creates.
LEMMA ResolveOK == ASSUME ProjectsInv, NEW s \in RunSlots, NEW t \in ProjectTeams, Resolve(s, t) PROVE ProjectsInv'
<1> DEFINE p == FindActiveByTeam(t)
           e == [stage |-> IF p = NoProject THEN "creating" ELSE "planning", team |-> t, project |-> p]
<1>1. At(s, "idle") /\ execution' = [execution EXCEPT ![s] = e] /\ UNCHANGED <<projects, recency, everRun>>
  BY DEF Resolve, Become
<1>2. p = NoProject \/ p \in ActiveOf(t)
  BY FindFacts
<1>3. p = NoProject => ActiveOf(t) = {}
  BY FindFacts
<1>4. ActiveOf(t) \subseteq Rows /\ Rows \subseteq ProjectIds
  BY DEF ActiveOf, ProjectsInv, RowsSound
<1> HIDE DEF p
<1>5. e \in Executions /\ e.project = p /\ e.team = t
      /\ e.stage = IF p = NoProject THEN "creating" ELSE "planning"
  BY <1>2, <1>4 DEF Executions, Stages
<1> HIDE DEF e
<1>6. RowsSound' /\ Rows' = Rows /\ \A u : ActiveOf(u)' = ActiveOf(u)
  BY <1>1, RowsStay DEF ProjectsInv, RowsSound
<1>7. SlotsSound' /\ \A r \in RunSlots : execution'[r] = IF r = s THEN e ELSE execution[r]
  BY <1>1, <1>2, <1>4, <1>5, <1>6, OneSlotMoves
<1>8. CASE p # NoProject
  BY <1>5, <1>6, <1>7, <1>8, NoNewCreator
<1>9. CASE p = NoProject
  <2>1. s \in GatewayRuns => \A r \in GatewayRuns : r # s => execution[r].stage # "creating"
    BY <1>1 DEF At, InMidCreate, ProcessOf
  <2>2. OneCreator'
    BY <1>7, <2>1 DEF ProjectsInv, OneCreator, RunSlots
  <2>3. ASSUME NEW u \in ProjectTeams
        PROVE  Cardinality(ActiveOf(u)') + Cardinality(Creating(u)') <= 1 + Cardinality(CliRuns)
    <3>1. CASE u = t
      <4>1. ActiveOf(u)' = {} /\ Cardinality({}) = 0
        BY <1>3, <1>6, <1>9, <3>1, FS_EmptySet
      <4>2. \E g : Creating(u)' \subseteq CliRuns \cup {g}
        <5>1. CASE \E g \in GatewayRuns : execution'[g].stage = "creating"
          BY <2>2, <5>1 DEF Creating, OneCreator, RunSlots
        <5>2. CASE ~\E g \in GatewayRuns : execution'[g].stage = "creating"
          BY <5>2 DEF Creating, RunSlots
        <5> QED
          BY <5>1, <5>2
      <4>3. PICK g : Creating(u)' \subseteq CliRuns \cup {g}
        BY <4>2
      <4> DEFINE C == CliRuns \cup {g}
                 D == Creating(u)'
      <4>4. IsFiniteSet(C) /\ Cardinality(C) <= 1 + Cardinality(CliRuns) /\ Cardinality(CliRuns) \in Nat
        <5>1. IsFiniteSet(CliRuns) /\ Cardinality(CliRuns) \in Nat
          BY ProjectsAssumption, FS_CardinalityType
        <5>2. IsFiniteSet(C) /\ Cardinality(C) = IF g \in CliRuns THEN Cardinality(CliRuns) ELSE Cardinality(CliRuns) + 1
          BY <5>1, FS_AddElement
        <5> HIDE DEF C
        <5> QED
          BY <5>1, <5>2
      <4>5. D \in SUBSET C
        BY <4>3
      <4> HIDE DEF C, D
      <4>6. IsFiniteSet(D) /\ Cardinality(D) <= Cardinality(C) /\ Cardinality(C) \in Nat
        BY <4>4, <4>5, FS_Subset, FS_CardinalityType
      <4>7. Cardinality(D) \in Nat
        BY <4>6, FS_CardinalityType
      <4> QED
        BY <4>1, <4>4, <4>6, <4>7 DEF D
    <3>2. CASE u # t
      <4>1. Creating(u)' \in SUBSET Creating(u)
        BY <1>5, <1>7, <3>2 DEF Creating
      <4>2. /\ IsFiniteSet(Creating(u)') /\ Cardinality(Creating(u)') <= Cardinality(Creating(u))
        BY <4>1, SumsAreNumbers, FS_Subset
      <4>3. Cardinality(Creating(u)') \in Nat
        BY <4>2, FS_CardinalityType
      <4> QED
        BY <1>6, <4>2, <4>3, SumsAreNumbers
    <3> QED
      BY <3>1, <3>2
  <2> QED
    BY <1>6, <1>7, <2>2, <2>3 DEF ProjectsInv, OneProjectPerProcess, Creating
<1> QED
  BY <1>8, <1>9

\* A run that has found no project creates one that no other run of the gateway creates.
LEMMA CreateProjectOK == ASSUME ProjectsInv, NEW s \in RunSlots, CreateProject(s) PROVE ProjectsInv'
<1> DEFINE t == execution[s].team
<1>1. PICK p \in ProjectIds \ Rows :
        /\ projects' = [q \in Rows \cup {p} |-> IF q = p THEN [team |-> t, status |-> "active"] ELSE projects[q]]
        /\ recency' = Append(recency, p)
        /\ execution' = [execution EXCEPT ![s] = [execution[s] EXCEPT !.stage = "brief", !.project = p]]
        /\ execution[s].stage = "creating" /\ everRun' = everRun
  BY DEF CreateProject, Become
<1>2. t \in ProjectTeams /\ execution[s] \in Executions
  BY <1>1 DEF ProjectsInv, SlotsSound
<1> DEFINE e == [execution[s] EXCEPT !.stage = "brief", !.project = p]
<1>3. e \in Executions /\ e.stage = "brief" /\ e.project = p /\ e.team = t
  BY <1>2 DEF Executions, Stages
<1>4. Rows' = Rows \cup {p}
  BY <1>1 DEF Rows
<1>9. execution' = [execution EXCEPT ![s] = e]
  BY <1>1
<1> HIDE DEF e
<1>5. SlotsSound' /\ \A r \in RunSlots : execution'[r] = IF r = s THEN e ELSE execution[r]
  <2>1. Rows \subseteq Rows' /\ e.project \in Rows' \cup {NoProject} /\ e.stage # "idle"
    BY <1>3, <1>4
  <2> QED
    BY <1>2, <1>3, <1>4, <1>9, <2>1, OneSlotMoves
<1>6. RowsSound'
  <2>1. [team |-> t, status |-> "active"] \in ProjectRows
    BY <1>2 DEF ProjectRows
  <2>2. projects' \in [Rows' -> ProjectRows]
    BY <1>1, <1>4, <2>1 DEF ProjectsInv, RowsSound
  <2>3. IsFiniteSet(Rows')
    BY <1>4, FS_AddElement DEF ProjectsInv, RowsSound
  <2> DEFINE n == Len(recency)
  <2>4. /\ recency \in Seq(ProjectIds) /\ n \in Nat
        /\ \A i, j \in 1..n : recency[i] = recency[j] => i = j
        /\ \A q : q \in Rows <=> \E i \in 1..n : recency[i] = q
    BY DEF ProjectsInv, RowsSound
  <2>5. /\ recency' \in Seq(ProjectIds) /\ Len(recency') = n + 1 /\ recency'[n+1] = p
        /\ \A i \in 1..n : recency'[i] = recency[i]
    BY <1>1, <2>4, AppendProperties
  <2> HIDE DEF n
  <2>6. \A i \in 1..n+1 : i \in 1..n \/ i = n+1
    BY <2>4
  <2>7. \A i \in 1..n : recency[i] # p
    BY <1>1, <2>4
  <2>8. \A i, j \in 1..n+1 : recency'[i] = recency'[j] => i = j
    BY <2>4, <2>5, <2>6, <2>7
  <2>9. \A q : q \in Rows' <=> \E i \in 1..n+1 : recency'[i] = q
    <3>1. n+1 \in 1..n+1 /\ \A i \in 1..n : i \in 1..n+1
      BY <2>4
    <3> QED
      BY <1>4, <2>4, <2>5, <2>6, <3>1
  <2> QED
    BY <1>1, <1>4, <2>2, <2>3, <2>5, <2>8, <2>9 DEF ProjectsInv, RowsSound
<1>7. OneCreator'
  BY <1>3, <1>5 DEF ProjectsInv, OneCreator, RunSlots
<1>8. ASSUME NEW u \in ProjectTeams
      PROVE  Cardinality(ActiveOf(u)') + Cardinality(Creating(u)') <= 1 + Cardinality(CliRuns)
  <2>1. CASE u = t
    <3>1. ActiveOf(u)' = ActiveOf(u) \cup {p} /\ p \notin ActiveOf(u)
      BY <1>1, <1>4, <2>1 DEF ActiveOf
    <3>2. Creating(u)' = Creating(u) \ {s} /\ s \in Creating(u)
      BY <1>1, <1>3, <1>5, <2>1 DEF Creating
    <3>3. Cardinality(ActiveOf(u)') = Cardinality(ActiveOf(u)) + 1
      BY <3>1, SumsAreNumbers, FS_AddElement
    <3>4. Cardinality(Creating(u)') = Cardinality(Creating(u)) - 1
      BY <3>2, SumsAreNumbers, FS_RemoveElement
    <3> QED
      BY <3>3, <3>4, SumsAreNumbers
  <2>2. CASE u # t
    <3>1. ActiveOf(u)' = ActiveOf(u)
      BY <1>1, <1>4, <2>2 DEF ActiveOf
    <3>2. Creating(u)' = Creating(u)
      BY <1>1, <1>3, <1>5, <2>2 DEF Creating
    <3> QED
      BY <3>1, <3>2, SumsAreNumbers
  <2> QED
    BY <2>1, <2>2
<1> QED
  BY <1>5, <1>6, <1>7, <1>8 DEF ProjectsInv, OneProjectPerProcess, Creating

\* A slot goes on, and perhaps bumps its project.
LEMMA SlotMovesOK ==
  ASSUME ProjectsInv, NEW s \in RunSlots, NEW e \in Executions, execution' = [execution EXCEPT ![s] = e],
         UNCHANGED projects, everRun' \subseteq Rows,
         recency' = recency \/ \E p \in Rows : recency' = Bumped(p),
         e.project \in Rows \cup {NoProject},
         e.stage \in {"brief", "planning", "tasks"} => e.project \in Rows,
         e.stage # "idle" => e.team \in ProjectTeams,
         e.stage # "creating"
  PROVE  ProjectsInv'
<1>1. RowsSound' /\ Rows' = Rows /\ \A t : ActiveOf(t)' = ActiveOf(t)
  BY RowsStay
<1>2. SlotsSound' /\ \A r \in RunSlots : execution'[r] = IF r = s THEN e ELSE execution[r]
  BY <1>1, OneSlotMoves
<1> QED
  BY <1>1, <1>2, NoNewCreator

\* Archiving and switching keep the rows.
LEMMA ArchivedOK == ASSUME ProjectsInv, NEW p \in Rows, Archived(p) PROVE ProjectsInv'
<1>1. /\ projects' = [projects EXCEPT ![p].status = "archived"] /\ recency' = Bumped(p)
      /\ UNCHANGED <<execution, everRun>>
  BY DEF Archived
<1>2. projects \in [Rows -> ProjectRows]
  BY DEF ProjectsInv, RowsSound
<1>3. \A r \in ProjectRows : /\ [r EXCEPT !.status = "archived"] \in ProjectRows
                             /\ [r EXCEPT !.status = "archived"].status = "archived"
                             /\ [r EXCEPT !.status = "archived"].team = r.team
  BY DEF ProjectRows
<1>4. projects[p] \in ProjectRows
  BY <1>2
<1> DEFINE x == [projects[p] EXCEPT !.status = "archived"]
<1>5. x \in ProjectRows /\ x.status = "archived" /\ x.team = projects[p].team
  BY <1>3, <1>4
<1> HIDE DEF x
<1>6. projects' = [projects EXCEPT ![p] = x]
  BY <1>1 DEF x
<1>7. projects' \in [Rows -> ProjectRows] /\ Rows' = Rows
      /\ \A q \in Rows : projects'[q] = IF q = p THEN x ELSE projects[q]
  BY <1>2, <1>5, <1>6 DEF Rows
<1>8. /\ recency' \in Seq(ProjectIds)
      /\ \A i, j \in 1..Len(recency') : recency'[i] = recency'[j] => i = j
      /\ \A q : q \in Rows <=> \E i \in 1..Len(recency') : recency'[i] = q
  BY <1>1, BumpedFacts
<1>9. RowsSound'
  BY <1>1, <1>7, <1>8 DEF ProjectsInv, RowsSound
<1>10. SlotsSound'
  BY <1>1, <1>7 DEF ProjectsInv, SlotsSound
<1>11. \A t \in ProjectTeams : ActiveOf(t)' \subseteq ActiveOf(t)
  BY <1>5, <1>7 DEF ActiveOf
<1> QED
  BY <1>1, <1>9, <1>10, <1>11, NoNewCreator

\* Every step keeps the invariant.
LEMMA ProjectsStepOK == ProjectsInv /\ [ProjectsNext]_projectVars => ProjectsInv'
<1> SUFFICES ASSUME ProjectsInv, [ProjectsNext]_projectVars PROVE ProjectsInv'
  OBVIOUS
<1>1. everRun \subseteq Rows /\ Rows \subseteq ProjectIds
  BY DEF ProjectsInv, RowsSound
<1>2. ASSUME NEW s \in RunSlots
      PROVE  /\ execution[s] \in Executions /\ execution[s].project \in Rows \cup {NoProject}
             /\ execution[s].stage \in {"brief", "planning", "tasks"} =>
                  execution[s].project \in Rows /\ execution[s].team \in ProjectTeams
  BY DEF ProjectsInv, SlotsSound
<1>3. ASSUME NEW s \in RunSlots, NEW st \in {"planning", "tasks"},
             execution[s].stage \in {"brief", "planning", "tasks"}
      PROVE  LET e == [execution[s] EXCEPT !.stage = st]
             IN  /\ e \in Executions /\ e.stage = st /\ e.project = execution[s].project
                 /\ e.team = execution[s].team
  BY <1>2 DEF Executions, Stages
<1>4. NoExecution \in Executions /\ NoExecution.stage = "idle" /\ NoExecution.project = NoProject
  BY DEF NoExecution, Executions, Stages
<1>5. ASSUME NEW s \in RunSlots, WriteBrief(s) PROVE ProjectsInv'
  <2> DEFINE e == [execution[s] EXCEPT !.stage = "planning"]
  <2>1. /\ execution[s].stage = "brief" /\ recency' \in {recency, Bumped(execution[s].project)}
        /\ execution' = [execution EXCEPT ![s] = e] /\ UNCHANGED <<projects, everRun>>
    BY <1>5 DEF WriteBrief, At, Advance, Become
  <2>2. e \in Executions /\ e.stage = "planning" /\ e.project = execution[s].project /\ e.team = execution[s].team
    BY <1>3, <2>1
  <2> HIDE DEF e
  <2> QED
    BY <1>1, <1>2, <2>1, <2>2, SlotMovesOK
<1>6. ASSUME NEW s \in RunSlots, PersistRun(s) PROVE ProjectsInv'
  <2> DEFINE e == [execution[s] EXCEPT !.stage = "tasks"]
  <2>1. /\ execution[s].stage = "planning" /\ recency' = Bumped(execution[s].project)
        /\ everRun' = everRun \cup {execution[s].project}
        /\ execution' = [execution EXCEPT ![s] = e] /\ UNCHANGED projects
    BY <1>6 DEF PersistRun, At, Advance, Become
  <2>2. e \in Executions /\ e.stage = "tasks" /\ e.project = execution[s].project /\ e.team = execution[s].team
    BY <1>3, <2>1
  <2> HIDE DEF e
  <2> QED
    BY <1>1, <1>2, <2>1, <2>2, SlotMovesOK
<1>7. ASSUME NEW s \in RunSlots, NoTasks(s) \/ FinishRun(s) \/ AbortRun(s) PROVE ProjectsInv'
  <2>1. /\ execution' = [execution EXCEPT ![s] = NoExecution] /\ UNCHANGED <<projects, everRun>>
        /\ \/ recency' = recency
           \/ execution[s].stage = "tasks" /\ recency' = Bumped(execution[s].project)
    BY <1>7 DEF NoTasks, FinishRun, AbortRun, At, Become
  <2>2. recency' = recency \/ \E p \in Rows : recency' = Bumped(p)
    BY <1>2, <2>1
  <2> QED
    BY <1>1, <1>4, <2>1, <2>2, SlotMovesOK
<1>8. ASSUME NEW s \in RunSlots, NEW p \in ProjectIds, ResumeRun(s, p) PROVE ProjectsInv'
  <2> DEFINE e == [stage |-> "tasks", team |-> projects[p].team, project |-> p]
  <2>1. p \in everRun /\ execution' = [execution EXCEPT ![s] = e] /\ UNCHANGED <<projects, recency, everRun>>
    BY <1>8 DEF ResumeRun, Become
  <2>2. projects[p].team \in ProjectTeams
    <3>1. projects[p] \in ProjectRows
      BY <1>1, <2>1 DEF ProjectsInv, RowsSound
    <3> QED
      BY <3>1 DEF ProjectRows
  <2>3. e \in Executions /\ e.stage = "tasks" /\ e.project = p /\ e.team \in ProjectTeams
    BY <2>2 DEF Executions, Stages
  <2> HIDE DEF e
  <2> QED
    BY <1>1, <2>1, <2>3, SlotMovesOK
<1>9. ASSUME NEW t \in ProjectTeams, ArchiveActive(t) PROVE ProjectsInv'
  <2>1. FindActiveByTeam(t) \in Rows /\ Archived(FindActiveByTeam(t))
    BY <1>9, FindFacts DEF ArchiveActive, ActiveOf
  <2> QED
    BY <2>1, ArchivedOK
<1>10. ASSUME NEW p \in ProjectIds, ArchiveNamed(p) PROVE ProjectsInv'
  BY <1>10, ArchivedOK DEF ArchiveNamed
<1>11. ASSUME NEW p \in ProjectIds, SwitchProject(p) \/ UpdateProject(p) PROVE ProjectsInv'
  <2>1. p \in Rows /\ recency' = Bumped(p) /\ UNCHANGED <<projects, execution, everRun>>
    BY <1>11 DEF SwitchProject, UpdateProject
  <2>2. RowsSound' /\ Rows' = Rows /\ \A t : ActiveOf(t)' = ActiveOf(t)
    BY <1>1, <2>1, RowsStay
  <2>3. SlotsSound'
    BY <2>1, <2>2 DEF ProjectsInv, SlotsSound
  <2> QED
    BY <2>1, <2>2, <2>3, NoNewCreator
<1>12. CASE UNCHANGED projectVars
  <2>1. UNCHANGED <<projects, recency, execution, everRun>>
    BY <1>12 DEF projectVars
  <2>2. RowsSound' /\ Rows' = Rows /\ \A t : ActiveOf(t)' = ActiveOf(t)
    BY <1>1, <2>1, RowsStay
  <2>3. SlotsSound'
    BY <2>1, <2>2 DEF ProjectsInv, SlotsSound
  <2> QED
    BY <2>1, <2>2, <2>3, NoNewCreator
<1> QED
  BY <1>5, <1>6, <1>7, <1>8, <1>9, <1>10, <1>11, <1>12, ResolveOK, CreateProjectOK
     DEF ProjectsNext

\* Rows and their order agree, and at most one run of the gateway is about to create a project.
THEOREM ProjectsInvariance == ProjectsSpec => []ProjectsInv
<1> QED
  BY ProjectsInitOK, ProjectsStepOK, PTL DEF ProjectsSpec

\* Runs of one gateway leave at most one active project a team, in whatever order their lookups and
\* what they do with them interleave (team-coordinator.ts).
THEOREM OneProjectEach == ProjectsSpec => []OneProjectPerProcess
<1>1. ProjectsInv => OneProjectPerProcess
  BY DEF ProjectsInv
<1> QED
  BY <1>1, ProjectsInvariance, PTL

----------------------------------------------------------------------------
(***************************************************************************)
(* The audit log. What verification recomputes depends on every row        *)
(* before, so the invariant says how the rows hang together while none of  *)
(* the three causes of an alarm is there, and what the process that has    *)
(* the log open holds of them.                                             *)
(***************************************************************************)

\* The data of a hash, and the rows that are stored.
ChainEntries == Nat \X (0..LastInstant) \X {"absent", "given", "null"}
Hashes == Seq(ChainEntries)
AuditRows ==
  [id : Nat, timestamp : 0..LastInstant, target : {"absent", "given"},
   previousHash : Hashes, hash : Hashes]

NoCause ==
  /\ \A i \in 1..Len(auditLog) : auditLog[i].target # "absent"
  /\ ~overlapped /\ setBacks = 0

HashBefore(log, n) == IF n = 1 THEN GENESIS_HASH ELSE log[n-1].hash

\* While no cause of an alarm is there: at most one process has the log open and holds
\* the hash of the last row, rows are in the order of their timestamps, and each continues
\* the chain of the one before it.
OneHolder ==
  /\ \A v, w \in Writers : Open(v) /\ Open(w) => v = w
  /\ \A w \in Writers : Open(w) => head[w] = HashBefore(auditLog, Len(auditLog) + 1)
InOrder ==
  /\ \A i, j \in 1..Len(auditLog) : i <= j => auditLog[i].timestamp <= auditLog[j].timestamp
  /\ \A i \in 1..Len(auditLog) : auditLog[i].timestamp <= clock
Chained ==
  \A i \in 1..Len(auditLog) :
    /\ auditLog[i].previousHash = HashBefore(auditLog, i)
    /\ auditLog[i].hash = HashChainEntry(HashBefore(auditLog, i), ChainData(auditLog[i]))

AuditInv ==
  /\ AuditTypeOK
  /\ auditLog \in Seq(AuditRows) /\ head \in [Writers -> Hashes \cup {Closed}]
  /\ NoCause => OneHolder /\ InOrder /\ Chained
  /\ FalseAlarmHasACause

\* The invariant holds of an empty log.
LEMMA AuditInitOK == AuditInit => AuditInv
<1> SUFFICES ASSUME AuditInit PROVE AuditInv
  OBVIOUS
<1>1. auditLog \in Seq(AuditRows) /\ Len(auditLog) = 0 /\ DOMAIN auditLog = {}
  BY DEF AuditInit
<1>2. \A w \in Writers : ~Open(w)
  BY DEF AuditInit, Open
<1>3. AuditTypeOK
  <2>1. clock \in 0..LastInstant /\ opens \in 0..MaxOpens /\ setBacks \in 0..MaxSetBacks
    BY AuditChainAssumption DEF AuditInit
  <2>2. badge \in {"none", "intact", "tampered", "error"} /\ overlapped \in BOOLEAN
    BY DEF AuditInit
  <2> QED
    BY <1>1, <1>2, <2>1, <2>2 DEF AuditTypeOK
<1>4. head \in [Writers -> Hashes \cup {Closed}] /\ badge # "tampered"
  BY DEF AuditInit
<1> QED
  BY <1>1, <1>2, <1>3, <1>4
  DEF AuditInit, AuditInv, AuditTypeOK, OneHolder, InOrder, Chained, FalseAlarmHasACause

\* Stored rows are rows, and none is later than the last instant.
LEMMA RowFacts ==
  ASSUME AuditInv
  PROVE  /\ Len(auditLog) \in Nat /\ DOMAIN auditLog = 1..Len(auditLog)
         /\ \A i \in 1..Len(auditLog) :
              /\ auditLog[i] \in AuditRows /\ auditLog[i].timestamp \in Nat
              /\ auditLog[i].timestamp <= LastInstant
              /\ auditLog[i].hash \in Hashes
<1>1. auditLog \in Seq(AuditRows)
  BY DEF AuditInv
<1>2. \A r \in AuditRows : r.timestamp \in 0..LastInstant /\ r.hash \in Hashes
  BY DEF AuditRows
<1>3. \A n : n \in 0..LastInstant => n \in Nat /\ n <= LastInstant
  BY AuditChainAssumption
<1> QED
  BY <1>1, <1>2, <1>3, ElementOfSeq

\* The last row by time is a row: the order of the log has a greatest element.
LEMMA LastByTime ==
  ASSUME AuditInv, auditLog # <<>>
  PROVE  \E i \in 1..Len(auditLog) : Last(ByTime) = auditLog[i]
<1> DEFINE n == Len(auditLog)
           T == {LastInstant - auditLog[i].timestamp : i \in 1..n}
<1>1. n \in Nat \ {0} /\ DOMAIN auditLog = 1..n /\ LastInstant \in Nat
      /\ \A i \in 1..n : auditLog[i].timestamp \in Nat /\ auditLog[i].timestamp <= LastInstant
  BY RowFacts, EmptySeq, AuditChainAssumption DEF AuditInv
<1> HIDE DEF n
<1>2. PICK t \in 1..n : \A i \in 1..n : auditLog[i].timestamp <= auditLog[t].timestamp
  <2>1. T \in SUBSET Nat /\ T # {}
    BY <1>1
  <2>2. PICK m \in T : \A k \in T : m <= k
    BY <2>1, HasSmallest
  <2>3. PICK t \in 1..n : m = LastInstant - auditLog[t].timestamp
    BY <2>2
  <2>4. \A i \in 1..n : LastInstant - auditLog[t].timestamp <= LastInstant - auditLog[i].timestamp
    BY <2>2, <2>3
  <2>5. ASSUME NEW i \in 1..n PROVE auditLog[i].timestamp <= auditLog[t].timestamp
    BY <1>1, <2>3, <2>4
  <2> QED
    BY <2>5
<1> DEFINE L == {n - i : i \in {k \in 1..n : auditLog[k].timestamp = auditLog[t].timestamp}}
<1>3. PICK m \in 1..n : /\ auditLog[m].timestamp = auditLog[t].timestamp
                        /\ \A i \in 1..n : auditLog[i].timestamp = auditLog[t].timestamp => i <= m
  <2>1. L \in SUBSET Nat /\ n - t \in L
    BY <1>1
  <2>2. PICK l \in L : \A k \in L : l <= k
    BY <2>1, HasSmallest
  <2>3. PICK m \in 1..n : auditLog[m].timestamp = auditLog[t].timestamp /\ l = n - m
    BY <2>2
  <2>4. \A i \in 1..n : auditLog[i].timestamp = auditLog[t].timestamp => n - m <= n - i
    BY <2>2, <2>3
  <2> QED
    BY <1>1, <2>3, <2>4
<1>4. {j \in DOMAIN auditLog : Before(j, m)} = (1..n) \ {m}
  <2>1. ASSUME NEW j \in 1..n PROVE Before(j, m) <=> j # m
    BY <1>1, <1>2, <1>3 DEF Before
  <2> QED
    BY <1>1, <2>1
<1>5. IsFiniteSet(1..n) /\ Cardinality(1..n) = n
  BY <1>1, FS_Interval
<1>6. Cardinality({j \in DOMAIN auditLog : Before(j, m)}) = n - 1
  BY <1>4, <1>5, FS_RemoveElement
<1>7. Nth(n) \in 1..n
  BY <1>1, <1>6 DEF Nth
<1>8. ByTime[n] = auditLog[Nth(n)] /\ DOMAIN ByTime = 1..n
  BY <1>1 DEF ByTime
<1>9. Len(ByTime) = n
  BY <1>1, <1>8
<1> QED
  BY <1>7, <1>8, <1>9 DEF Last, n

\* Rows that came in the order of their timestamps are read as they came.
LEMMA SortedAlready ==
  ASSUME AuditInv, InOrder
  PROVE  ByTime = auditLog
<1> DEFINE n == Len(auditLog)
<1>1. n \in Nat /\ DOMAIN auditLog = 1..n
      /\ \A i \in 1..n : auditLog[i].timestamp \in Nat
  BY RowFacts
<1>2. \A i, j \in 1..n : i <= j => auditLog[i].timestamp <= auditLog[j].timestamp
  BY DEF InOrder
<1> HIDE DEF n
<1>3. ASSUME NEW i \in 1..n
      PROVE  Cardinality({j \in DOMAIN auditLog : Before(j, i)}) = i - 1
  <2>1. ASSUME NEW j \in 1..n PROVE Before(j, i) <=> j < i
    <3>1. CASE j < i
      BY <1>1, <1>2, <3>1 DEF Before
    <3>2. CASE ~(j < i)
      <4>1. auditLog[i].timestamp <= auditLog[j].timestamp
        BY <1>2, <3>2
      <4> QED
        BY <1>1, <3>2, <4>1 DEF Before
    <3> QED
      BY <3>1, <3>2
  <2>2. {j \in DOMAIN auditLog : Before(j, i)} = 1..(i-1)
    BY <1>1, <2>1
  <2>3. Cardinality(1..(i-1)) = i - 1
    BY <1>1, FS_Interval
  <2> QED
    BY <2>2, <2>3
<1>4. ASSUME NEW k \in 1..n PROVE Nth(k) = k
  <2>1. \A i \in 1..n : Cardinality({j \in DOMAIN auditLog : Before(j, i)}) = k - 1 <=> i = k
    BY <1>1, <1>3
  <2> QED
    BY <1>1, <2>1 DEF Nth
<1>5. /\ auditLog = [i \in 1..n |-> auditLog[i]]
      /\ ByTime = [i \in 1..n |-> auditLog[Nth(i)]]
  <2>1. auditLog \in Seq(AuditRows)
    BY DEF AuditInv
  <2> QED
    BY <1>1, <2>1 DEF ByTime
<1> QED
  BY <1>4, <1>5

\* Reading the head at start-up keeps it: a process that is alone reads the last row's hash.
LEMMA OpenLogOK == ASSUME AuditInv, NEW w \in Writers, OpenLog(w) PROVE AuditInv'
<1> USE DEF AuditInv
<1>1. /\ ~Open(w) /\ opens' = opens + 1 /\ opens < MaxOpens /\ head' = [head EXCEPT ![w] = LastHash]
      /\ overlapped' = (overlapped \/ \E v \in Writers : Open(v))
      /\ UNCHANGED <<auditLog, clock, badge, setBacks>>
  BY DEF OpenLog
<1>2. /\ Len(auditLog) \in Nat /\ DOMAIN auditLog = 1..Len(auditLog)
      /\ \A i \in 1..Len(auditLog) : auditLog[i].hash \in Hashes
  BY RowFacts
<1>3. LastHash \in Hashes /\ LastHash \in {GENESIS_HASH} \cup {auditLog[i].hash : i \in DOMAIN auditLog}
  <2>1. CASE auditLog = <<>>
    BY <2>1 DEF LastHash, GENESIS_HASH, Hashes
  <2>2. CASE auditLog # <<>>
    <3>1. PICK i \in 1..Len(auditLog) : Last(ByTime) = auditLog[i]
      BY <2>2, LastByTime
    <3> QED
      BY <1>2, <2>2, <3>1 DEF LastHash
  <2> QED
    BY <2>1, <2>2
<1>4. head'[w] = LastHash /\ \A v \in Writers : v # w => head'[v] = head[v]
  BY <1>1
<1>5. head' \in [Writers -> Hashes \cup {Closed}]
  BY <1>1, <1>3
<1>6. AuditTypeOK'
  <2>1. opens' \in 0..MaxOpens
    BY <1>1, AuditChainAssumption DEF AuditTypeOK
  <2>2. \A v \in Writers : Open(v)' => head'[v] \in {GENESIS_HASH} \cup {auditLog[i].hash : i \in DOMAIN auditLog}
    BY <1>3, <1>4 DEF AuditTypeOK, Open
  <2>3. overlapped' \in BOOLEAN
    BY <1>1 DEF AuditTypeOK
  <2> QED
    BY <1>1, <2>1, <2>2, <2>3 DEF AuditTypeOK
<1>7. NoCause' => NoCause /\ \A v \in Writers : ~Open(v)
  BY <1>1 DEF NoCause
<1>8. NoCause' => OneHolder'
  <2> SUFFICES ASSUME NoCause' PROVE OneHolder'
    OBVIOUS
  <2>1. NoCause /\ InOrder /\ \A v \in Writers : ~Open(v)
    BY <1>7
  <2>2. LastHash = HashBefore(auditLog, Len(auditLog) + 1)
    <3>1. CASE auditLog = <<>>
      BY <3>1 DEF LastHash, HashBefore
    <3>2. CASE auditLog # <<>>
      <4>1. Len(auditLog) # 0
        BY <3>2, EmptySeq
      <4>2. LastHash = auditLog[Len(auditLog)].hash
        BY <2>1, <3>2, SortedAlready DEF LastHash, Last
      <4> QED
        BY <1>2, <4>1, <4>2 DEF HashBefore
    <3> QED
      BY <3>1, <3>2
  <2>3. \A v \in Writers : Open(v)' => v = w
    BY <1>4, <2>1 DEF Open
  <2> QED
    BY <1>1, <1>4, <2>2, <2>3 DEF OneHolder, HashBefore
<1>9. NoCause' => InOrder' /\ Chained'
  BY <1>1, <1>7 DEF InOrder, Chained, HashBefore
<1>10. FalseAlarmHasACause'
  BY <1>1 DEF FalseAlarmHasACause
<1> QED
  BY <1>1, <1>5, <1>6, <1>8, <1>9, <1>10

\* So does a new row, which continues the chain while one process holds the head.
LEMMA AppendRowOK ==
  ASSUME AuditInv, NEW w \in Writers, NEW target \in {"absent", "given"}, AppendRow(w, target)
  PROVE  AuditInv'
<1> DEFINE n == Len(auditLog)
           new == NewRow(w, target)
<1> USE DEF AuditInv
<1>1. /\ Open(w) /\ auditLog' = Append(auditLog, new) /\ head' = [head EXCEPT ![w] = new.hash]
      /\ UNCHANGED <<clock, badge, opens, setBacks, overlapped>>
  BY DEF AppendRow
<1>2. n \in Nat /\ DOMAIN auditLog = 1..n
  BY RowFacts
<1>3. head[w] \in Hashes /\ clock \in 0..LastInstant
  BY <1>1 DEF Open, AuditTypeOK
<1>4. new = [id |-> n + 1, timestamp |-> clock, target |-> target, previousHash |-> head[w],
             hash |-> HashChainEntry(head[w], ChainData(new))]
  BY DEF NewRow, ChainData
<1>5. ChainData(new) = <<n + 1, clock, target>>
  BY DEF NewRow, ChainData
<1> HIDE DEF new
<1>6. HashChainEntry(head[w], ChainData(new)) \in Hashes
  <2>1. ChainData(new) \in ChainEntries
    BY <1>2, <1>3, <1>5 DEF ChainEntries
  <2> QED
    BY <1>3, <2>1 DEF Hashes, HashChainEntry
<1>7. new \in AuditRows /\ new.id = n + 1 /\ new.timestamp = clock /\ new.target = target
      /\ new.previousHash = head[w] /\ new.hash = HashChainEntry(head[w], ChainData(new))
      /\ new.hash \in Hashes
  BY <1>2, <1>3, <1>4, <1>6 DEF AuditRows
<1>8. /\ auditLog' \in Seq(AuditRows) /\ Len(auditLog') = n + 1 /\ DOMAIN auditLog' = 1..(n + 1)
      /\ auditLog'[n + 1] = new /\ \A i \in 1..n : auditLog'[i] = auditLog[i]
  BY <1>1, <1>7, AppendProperties
<1>9. head'[w] = new.hash /\ (\A v \in Writers : v # w => head'[v] = head[v])
      /\ head' \in [Writers -> Hashes \cup {Closed}]
  BY <1>1, <1>7
<1> HIDE DEF n
<1>10. AuditTypeOK'
  <2>1. \A i \in DOMAIN auditLog' :
          /\ auditLog'[i].id = i /\ auditLog'[i].timestamp \in 0 .. LastInstant
          /\ auditLog'[i].target \in {"absent", "given"}
    BY <1>2, <1>3, <1>7, <1>8 DEF AuditTypeOK
  <2>2. {auditLog[i].hash : i \in DOMAIN auditLog} \cup {new.hash} \subseteq {auditLog'[i].hash : i \in DOMAIN auditLog'}
    <3>1. \A i \in 1..n : i \in 1..(n+1) /\ auditLog'[i].hash = auditLog[i].hash
      BY <1>2, <1>8
    <3>2. n + 1 \in 1..(n+1) /\ auditLog'[n+1].hash = new.hash
      BY <1>2, <1>8
    <3> QED
      BY <1>2, <1>8, <3>1, <3>2
  <2>3. \A v \in Writers : Open(v)' => head'[v] \in {GENESIS_HASH} \cup {auditLog'[i].hash : i \in DOMAIN auditLog'}
    BY <1>9, <2>2 DEF AuditTypeOK, Open
  <2> QED
    BY <1>1, <2>1, <2>3 DEF AuditTypeOK
<1>11. NoCause' => NoCause /\ target # "absent"
  BY <1>1, <1>2, <1>7, <1>8 DEF NoCause, n
<1>12. ASSUME NoCause'
       PROVE  OneHolder' /\ InOrder' /\ Chained'
  <2>1. NoCause /\ OneHolder /\ InOrder /\ Chained
    BY <1>11, <1>12
  <2>2. head[w] = HashBefore(auditLog, n + 1)
    BY <1>1, <2>1 DEF OneHolder, n
  <2>3. \A i \in 1..(n+1) : HashBefore(auditLog', i) = HashBefore(auditLog, i)
    BY <1>2, <1>8 DEF HashBefore
  <2>4. HashBefore(auditLog', n + 2) = new.hash
    <3>1. n + 2 # 1 /\ (n + 2) - 1 = n + 1
      BY <1>2
    <3> QED
      BY <1>8, <3>1 DEF HashBefore
  <2>5. OneHolder'
    <3>1. \A v \in Writers : Open(v)' => v = w
      BY <1>1, <1>9, <2>1 DEF OneHolder, Open
    <3>2. Len(auditLog') + 1 = n + 2
      BY <1>2, <1>8
    <3>3. HashBefore(auditLog', Len(auditLog') + 1) = new.hash
      BY <2>4, <3>2 DEF HashBefore
    <3> QED
      BY <1>9, <3>1, <3>3 DEF OneHolder
  <2>6. InOrder'
    BY <1>1, <1>2, <1>3, <1>7, <1>8, <2>1 DEF InOrder, n, AuditTypeOK
  <2>7. Chained'
    <3>1. ASSUME NEW i \in 1..n
          PROVE  /\ auditLog'[i].previousHash = HashBefore(auditLog', i)
                 /\ auditLog'[i].hash = HashChainEntry(HashBefore(auditLog', i), ChainData(auditLog'[i]))
      BY <1>2, <1>8, <2>1, <2>3 DEF Chained, n
    <3>2. /\ auditLog'[n+1].previousHash = HashBefore(auditLog', n+1)
          /\ auditLog'[n+1].hash = HashChainEntry(HashBefore(auditLog', n+1), ChainData(auditLog'[n+1]))
      <4>1. HashBefore(auditLog', n+1) = head[w]
        BY <1>2, <2>2, <2>3
      <4> QED
        BY <1>7, <1>8, <4>1
    <3>3. \A i \in 1..(n+1) : i \in 1..n \/ i = n+1
      BY <1>2
    <3> QED
      BY <1>8, <3>1, <3>2, <3>3 DEF Chained
  <2> QED
    BY <2>5, <2>6, <2>7
<1>13. FalseAlarmHasACause'
  BY <1>1, <1>2, <1>8 DEF FalseAlarmHasACause
<1> QED
  BY <1>8, <1>9, <1>10, <1>12, <1>13

\* Without a cause the verification succeeds.
LEMMA IntactVerifies == ASSUME AuditInv, NoCause PROVE VerifyIntegrity
<1>1. InOrder /\ Chained
  BY DEF AuditInv
<1>2. ByTime = auditLog
  BY <1>1, SortedAlready
<1>3. DOMAIN auditLog = 1..Len(auditLog)
  BY RowFacts
<1>4. \A i \in 1..Len(auditLog) : StoredData(auditLog[i]) = ChainData(auditLog[i])
  BY DEF NoCause, StoredData, ChainData
<1> QED
  BY <1>1, <1>2, <1>3, <1>4 DEF VerifyIntegrity, Chained, HashBefore

\* Every step keeps it.
LEMMA AuditStepOK == AuditInv /\ [AuditNext]_auditVars => AuditInv'
<1> SUFFICES ASSUME AuditInv, [AuditNext]_auditVars PROVE AuditInv'
  OBVIOUS
<1>1. ASSUME NEW w \in Writers, CloseLog(w) PROVE AuditInv'
  <2>1. /\ head' = [head EXCEPT ![w] = Closed]
        /\ UNCHANGED <<auditLog, clock, badge, opens, setBacks, overlapped>>
    BY <1>1 DEF CloseLog
  <2>2. head' \in [Writers -> Hashes \cup {Closed}]
    BY <2>1 DEF AuditInv
  <2>3. \A v \in Writers : Open(v)' => Open(v) /\ head'[v] = head[v]
    BY <2>1 DEF Open, AuditInv
  <2>4. AuditTypeOK'
    BY <2>1, <2>3 DEF AuditInv, AuditTypeOK
  <2>5. NoCause' => OneHolder' /\ InOrder' /\ Chained'
    BY <2>1, <2>3 DEF AuditInv, NoCause, OneHolder, InOrder, Chained, HashBefore
  <2> QED
    BY <2>1, <2>2, <2>4, <2>5 DEF AuditInv, FalseAlarmHasACause
<1>2. ASSUME UNCHANGED <<auditLog, head, opens, overlapped>>, clock' \in 0..LastInstant,
             setBacks' \in 0..MaxSetBacks, badge' \in {"none", "intact", "tampered", "error"},
             setBacks' = 0 => setBacks = 0 /\ clock <= clock',
             setBacks <= setBacks',
             badge' = "tampered" => badge = "tampered" \/ ~NoCause
      PROVE  AuditInv'
  <2>1. AuditTypeOK'
    BY <1>2 DEF AuditInv, AuditTypeOK, Open
  <2>2. NoCause' => NoCause
    BY <1>2 DEF NoCause
  <2>3. NoCause' => OneHolder' /\ Chained'
    BY <1>2, <2>2 DEF AuditInv, OneHolder, Chained, HashBefore, Open
  <2>4. ASSUME NoCause' PROVE InOrder'
    <3>1. InOrder /\ clock <= clock'
      BY <1>2, <2>2, <2>4 DEF AuditInv, NoCause
    <3> QED
      BY <1>2, <3>1, RowFacts DEF InOrder, AuditInv, AuditTypeOK
  <2>5. FalseAlarmHasACause'
    <3>1. setBacks > 0 => setBacks' > 0
      BY <1>2 DEF AuditInv, AuditTypeOK
    <3>2. ~NoCause => (\E i \in DOMAIN auditLog : auditLog[i].target = "absent") \/ overlapped \/ setBacks > 0
      BY RowFacts DEF NoCause, AuditInv, AuditTypeOK
    <3> QED
      BY <1>2, <3>1, <3>2 DEF AuditInv, FalseAlarmHasACause
  <2> QED
    BY <1>2, <2>1, <2>3, <2>4, <2>5 DEF AuditInv
<1>3. /\ clock \in 0..LastInstant /\ setBacks \in 0..MaxSetBacks /\ LastInstant \in Nat
      /\ MaxSetBacks \in Nat
      /\ badge \in {"none", "intact", "tampered", "error"}
  BY AuditChainAssumption DEF AuditInv, AuditTypeOK
<1>4. CASE ClickVerify
  BY <1>2, <1>3, <1>4, IntactVerifies DEF ClickVerify
<1>5. CASE VerifyUnanswered
  BY <1>2, <1>3, <1>5 DEF VerifyUnanswered
<1>6. CASE ClockAdvances
  BY <1>2, <1>3, <1>6 DEF ClockAdvances
<1>7. CASE ClockSetBack
  BY <1>2, <1>3, <1>7 DEF ClockSetBack
<1>8. CASE UNCHANGED auditVars
  BY <1>2, <1>3, <1>8 DEF auditVars
<1> QED
  BY <1>1, <1>4, <1>5, <1>6, <1>7, <1>8, OpenLogOK, AppendRowOK DEF AuditNext

\* The chain continues row by row as long as nothing gives it a reason not to.
THEOREM AuditInvariance == AuditSpec => []AuditInv
<1> QED
  BY AuditInitOK, AuditStepOK, PTL DEF AuditSpec

\* A log that nobody touched is reported tampered only if a row had no target, processes overlapped
\* or the clock was set back (verifyChain of audit-log.ts).
THEOREM AlarmsHaveCauses == AuditSpec => []FalseAlarmHasACause
<1>1. AuditInv => FalseAlarmHasACause
  BY DEF AuditInv
<1> QED
  BY <1>1, AuditInvariance, PTL

----------------------------------------------------------------------------
(***************************************************************************)
(* Webhooks. The column, the history of runs and the deliveries that got   *)
(* as far are three ways to count one thing; the invariant says that they  *)
(* agree.                                                                  *)
(***************************************************************************)

\* The deliveries of a webhook whose run has begun.
Ran(h) == {d \in Deliveries :
             delivery[d].hook = h /\ delivery[d].stage \in {"running", "answered", "error"}}

DeliveriesTyped ==
  delivery \in [Deliveries ->
    [stage : {"unsent", "body", "unauthorized", "refused", "running", "answered", "error"},
     hook : Hooks \cup {"none"}, signed : BOOLEAN]]

\* The counters are three ways to count one thing: the column, the runs, and the
\* deliveries that got as far.
CountersAgree ==
  /\ started \in [Hooks -> Nat]
  /\ \A h \in Registered : hookRows[h] = started[h]
  /\ \A h \in Hooks : started[h] = Cardinality(Ran(h))
  /\ \A h \in Hooks \ (Registered \cup retired) : started[h] = 0

WebhooksInv == WebhooksTypeOK /\ DeliveriesTyped /\ CountersAgree

\* The invariant holds before the first delivery.
LEMMA WebhooksInitOK == WebhooksInit => WebhooksInv
<1> SUFFICES ASSUME WebhooksInit PROVE WebhooksInv
  OBVIOUS
<1>1. Registered = {} /\ retired = {}
  BY DEF WebhooksInit, Registered
<1>2. WebhooksTypeOK
  BY <1>1 DEF WebhooksInit, WebhooksTypeOK
<1>3. DeliveriesTyped
  BY DEF WebhooksInit, DeliveriesTyped, Unsent
<1>4. \A h \in Hooks : Ran(h) = {}
  BY DEF Ran, WebhooksInit, Unsent
<1>5. CountersAgree
  BY <1>1, <1>4, FS_EmptySet DEF CountersAgree, WebhooksInit
<1> QED
  BY <1>2, <1>3, <1>5 DEF WebhooksInv

\* A delivery whose run begins is one more of its webhook's, and of no other's.
LEMMA RanGrows ==
  ASSUME WebhooksInv, NEW d \in Deliveries, BodyArrives(d), VerifySecret(d), NEW h \in Hooks
  PROVE  Cardinality(Ran(h))' = Cardinality(Ran(h)) + IF delivery[d].hook = h THEN 1 ELSE 0
<1> USE DEF WebhooksInv, DeliveriesTyped
<1>1. Ran(h)' = IF delivery[d].hook = h THEN Ran(h) \cup {d} ELSE Ran(h)
  BY DEF Ran, BodyArrives, Reach
<1>2. d \notin Ran(h)
  BY DEF Ran, BodyArrives
<1>3. IsFiniteSet(Ran(h))
  BY FS_Subset, WebhooksAssumption DEF Ran
<1>4. Cardinality(Ran(h) \cup {d}) = Cardinality(Ran(h)) + 1
  BY <1>2, <1>3, FS_AddElement
<1>5. Cardinality(Ran(h)) \in Nat
  BY <1>3, FS_CardinalityType
<1> QED
  BY <1>1, <1>4, <1>5

\* A step that moves a delivery between other stages leaves the count.
LEMMA RanStays ==
  ASSUME WebhooksInv, NEW d \in Deliveries, NEW reached, Reach(d, reached),
         reached \in {"running", "answered", "error"} <=>
           delivery[d].stage \in {"running", "answered", "error"}
  PROVE  \A h \in Hooks : Ran(h)' = Ran(h)
  BY DEF WebhooksInv, DeliveriesTyped, Ran, Reach

\* A webhook has run at most as often as there were deliveries.
LEMMA RanBounded ==
  ASSUME NEW h \in Hooks
  PROVE  Cardinality(Ran(h)) \in 0 .. Cardinality(Deliveries)
<1>1. Ran(h) \subseteq Deliveries
  BY DEF Ran
<1> QED
  BY <1>1, FS_Subset, FS_CardinalityType, WebhooksAssumption

\* Every step keeps the invariant.
LEMMA WebhooksStepOK == WebhooksInv /\ [WebhooksNext]_hookVars => WebhooksInv'
<1> SUFFICES ASSUME WebhooksInv, [WebhooksNext]_hookVars PROVE WebhooksInv'
  OBVIOUS
<1> USE WebhooksAssumption DEF WebhooksInv
<1>1. ASSUME NEW h \in Hooks, CreateWebhook(h) PROVE WebhooksInv'
  <2>1. Registered' = Registered \cup {h}
    BY <1>1 DEF CreateWebhook, Registered
  <2>2. \A g \in Hooks : Ran(g)' = Ran(g)
    BY <1>1 DEF CreateWebhook, Ran
  <2>3. CountersAgree'
    BY <1>1, <2>1, <2>2 DEF CreateWebhook, CountersAgree
  <2>4. reloads' \subseteq SUBSET (Registered' \cup retired')
    BY <1>1, <2>1 DEF CreateWebhook, Reload, WebhooksTypeOK
  <2>5. \A g \in Registered' : hookRows'[g] \in 0 .. Cardinality(Deliveries)
    BY <2>1, <2>3, <2>2, RanBounded, <1>1 DEF CountersAgree, WebhooksTypeOK
  <2>6. WebhooksTypeOK'
    BY <1>1, <2>1, <2>4, <2>5 DEF CreateWebhook, WebhooksTypeOK
  <2> QED
    BY <1>1, <2>3, <2>6 DEF CreateWebhook, DeliveriesTyped
<1>2. ASSUME NEW h \in Hooks, DeleteWebhook(h) PROVE WebhooksInv'
  <2>1. Registered' = Registered \ {h}
    BY <1>2 DEF DeleteWebhook, Registered, Restrict
  <2>2. \A g \in Registered' : hookRows'[g] = hookRows[g]
    BY <1>2, <2>1 DEF DeleteWebhook, Registered, Restrict
  <2>3. \A g \in Hooks : Ran(g)' = Ran(g)
    BY <1>2 DEF DeleteWebhook, Ran
  <2>4. CountersAgree'
    BY <1>2, <2>1, <2>2, <2>3 DEF DeleteWebhook, CountersAgree
  <2>5. reloads' \subseteq SUBSET (Registered' \cup retired')
    BY <1>2, <2>1 DEF DeleteWebhook, Reload, WebhooksTypeOK
  <2>6. WebhooksTypeOK'
    BY <1>2, <2>1, <2>2, <2>5 DEF DeleteWebhook, WebhooksTypeOK
  <2> QED
    BY <1>2, <2>4, <2>6 DEF DeleteWebhook, DeliveriesTyped
<1>3. ASSUME UNCHANGED <<hookRows, retired, delivery, started, known>>,
             hookList' \subseteq Registered \cup retired,
             reloads' \subseteq SUBSET (Registered \cup retired)
      PROVE  WebhooksInv'
  <2>1. Registered' = Registered
    BY <1>3 DEF Registered
  <2>2. \A g \in Hooks : Ran(g)' = Ran(g)
    BY <1>3 DEF Ran
  <2> QED
    BY <1>3, <2>1, <2>2 DEF WebhooksTypeOK, DeliveriesTyped, CountersAgree
<1>4. ASSUME NEW h \in Hooks, CopySecret(h) PROVE WebhooksInv'
  <2>1. Registered' = Registered
    BY <1>4 DEF CopySecret, Registered
  <2>2. \A g \in Hooks : Ran(g)' = Ran(g)
    BY <1>4 DEF CopySecret, Ran
  <2> QED
    BY <1>4, <2>1, <2>2 DEF CopySecret, WebhooksTypeOK, DeliveriesTyped, CountersAgree
<1>5. CASE OpenTab
  <2>1. reloads' \subseteq SUBSET (Registered \cup retired)
    BY <1>5 DEF OpenTab, Reload, WebhooksTypeOK
  <2> QED
    BY <1>3, <1>5, <2>1 DEF OpenTab, WebhooksTypeOK
<1>6. ASSUME NEW hooks \in SUBSET Hooks, ListArrives(hooks) PROVE WebhooksInv'
  BY <1>3, <1>6 DEF ListArrives, WebhooksTypeOK
<1>7. ASSUME NEW d \in Deliveries, NEW h \in Hooks, NEW signed \in BOOLEAN, Send(d, h, signed)
      PROVE  WebhooksInv'
  <2>1. Registered' = Registered
    BY <1>7 DEF Send, Registered
  <2>2. \A g \in Hooks : Ran(g)' = Ran(g)
    BY <1>7 DEF Send, Ran, DeliveriesTyped, Unsent
  <2>3. DeliveriesTyped'
    BY <1>7 DEF Send, DeliveriesTyped
  <2>4. WebhooksTypeOK'
    BY <1>7, <2>1 DEF Send, WebhooksTypeOK, DeliveriesTyped
  <2> QED
    BY <1>7, <2>1, <2>2, <2>3, <2>4 DEF Send, CountersAgree
<1>8. ASSUME NEW d \in Deliveries, BodyArrives(d) PROVE WebhooksInv'
  <2>1. Registered' = Registered
    BY <1>8 DEF BodyArrives, Registered
  <2>2. delivery[d].hook \in known /\ delivery[d].hook \in Hooks
    BY <1>8 DEF BodyArrives, WebhooksTypeOK, DeliveriesTyped, Unsent
  <2>3. DeliveriesTyped'
    BY <1>8 DEF BodyArrives, Reach, DeliveriesTyped
  <2>4. \A e \in Deliveries : delivery'[e] = Unsent \/ delivery'[e].hook \in known'
    BY <1>8, <2>2 DEF BodyArrives, Reach, DeliveriesTyped, WebhooksTypeOK
  <2>5. CountersAgree'
    <3>1. CASE VerifySecret(d)
      <4>1. \A h \in Hooks :
              Cardinality(Ran(h))' = Cardinality(Ran(h)) + IF delivery[d].hook = h THEN 1 ELSE 0
        BY <1>8, <3>1, RanGrows
      <4>2. started' = [started EXCEPT ![delivery[d].hook] = @ + 1]
        BY <1>8, <3>1 DEF BodyArrives
      <4>3. \A h \in Registered' :
              hookRows'[h] = IF h = delivery[d].hook THEN hookRows[h] + 1 ELSE hookRows[h]
        BY <1>8, <2>1, <3>1 DEF BodyArrives
      <4>4. delivery[d].hook \in Registered
        BY <3>1 DEF VerifySecret
      <4> QED
        BY <1>8, <2>1, <2>2, <4>1, <4>2, <4>3, <4>4 DEF BodyArrives, CountersAgree, WebhooksTypeOK
    <3>2. CASE ~ VerifySecret(d)
      <4>1. \A h \in Hooks : Ran(h)' = Ran(h)
        BY <1>8, <3>2, RanStays DEF BodyArrives
      <4>2. started' = started
        BY <1>8, <2>2, <3>2 DEF BodyArrives, CountersAgree
      <4>3. \A h \in Registered' : hookRows'[h] = hookRows[h]
        BY <1>8, <2>1, <3>2 DEF BodyArrives
      <4> QED
        <5>1. retired' = retired
          BY <1>8 DEF BodyArrives
        <5>2. \A h \in Hooks : Cardinality(Ran(h))' = Cardinality(Ran(h))
          BY <4>1
        <5> QED
          BY <2>1, <4>2, <4>3, <5>1, <5>2 DEF CountersAgree
    <3> QED
      BY <3>1, <3>2
  <2>6. \A h \in Registered' : hookRows'[h] \in 0 .. Cardinality(Deliveries)
    <3>1. \A h \in Hooks : Cardinality(Ran(h))' \in 0 .. Cardinality(Deliveries)
      <4>1. \A h \in Hooks : (Ran(h) \subseteq Deliveries)'
        BY DEF Ran
      <4> QED
        BY <4>1, FS_Subset, FS_CardinalityType
    <3> QED
      BY <2>1, <2>5, <3>1 DEF CountersAgree, WebhooksTypeOK
  <2>7. WebhooksTypeOK'
    BY <1>8, <2>1, <2>4, <2>6 DEF BodyArrives, WebhooksTypeOK
  <2> QED
    BY <2>3, <2>5, <2>7
<1>9. ASSUME NEW d \in Deliveries,
             BodyFails(d) \/ RunAnswers(d) \/ RunThrows(d)
      PROVE  WebhooksInv'
  <2>1. Registered' = Registered
    BY <1>9 DEF BodyFails, RunAnswers, RunThrows, Registered
  <2>2. \A g \in Hooks : Ran(g)' = Ran(g)
    BY <1>9, RanStays DEF BodyFails, RunAnswers, RunThrows
  <2>3. DeliveriesTyped'
    BY <1>9 DEF BodyFails, RunAnswers, RunThrows, Reach, DeliveriesTyped
  <2>4. delivery[d].hook \in known
    BY <1>9 DEF BodyFails, RunAnswers, RunThrows, WebhooksTypeOK, Unsent
  <2>5. WebhooksTypeOK'
    BY <1>9, <2>1, <2>4
    DEF BodyFails, RunAnswers, RunThrows, Reach, WebhooksTypeOK, DeliveriesTyped
  <2> QED
    BY <1>9, <2>1, <2>2, <2>3, <2>5 DEF BodyFails, RunAnswers, RunThrows, CountersAgree
<1>10. CASE UNCHANGED hookVars
  BY <1>3, <1>10 DEF hookVars, WebhooksTypeOK
<1> QED
  BY <1>1, <1>2, <1>4, <1>5, <1>6, <1>7, <1>8, <1>9, <1>10 DEF WebhooksNext

\* The column, the runs and the deliveries agree.
LEMMA WebhooksInvariance == WebhooksSpec => []WebhooksInv
  BY WebhooksInitOK, WebhooksStepOK, PTL DEF WebhooksSpec

\* Every run that begins is counted once, on a row that exists.
THEOREM EveryRunIsCounted == WebhooksSpec => RunsAreCounted
<1>1. ASSUME WebhooksInv, WebhooksInv', [WebhooksNext]_hookVars, NEW h \in Hooks,
             started'[h] # started[h]
      PROVE  /\ h \in Registered /\ h \notin retired'
             /\ started'[h] = started[h] + 1
             /\ hookRows'[h] = started'[h]
  <2>1. PICK d \in Deliveries : BodyArrives(d)
    BY <1>1 DEF WebhooksNext, hookVars, CreateWebhook, DeleteWebhook, CopySecret, OpenTab,
       ListArrives,
                Send, BodyFails, RunAnswers, RunThrows
  <2>2. delivery[d].hook \in Hooks
    BY <1>1, <2>1 DEF BodyArrives, WebhooksInv, WebhooksTypeOK, DeliveriesTyped, Unsent
  <2>3. VerifySecret(d) /\ h = delivery[d].hook /\ started'[h] = started[h] + 1
    BY <1>1, <2>1, <2>2 DEF BodyArrives, WebhooksInv, CountersAgree
  <2>4. h \in Registered /\ Registered' = Registered /\ retired' = retired
    BY <2>1, <2>3 DEF BodyArrives, VerifySecret, Registered
  <2> QED
    BY <1>1, <2>3, <2>4 DEF WebhooksInv, WebhooksTypeOK, CountersAgree
<1>2. WebhooksInv /\ WebhooksInv' /\ [WebhooksNext]_hookVars =>
        [\A h \in Hooks : started'[h] # started[h] =>
           /\ h \in Registered /\ h \notin retired'
           /\ started'[h] = started[h] + 1
           /\ hookRows'[h] = started'[h]]_hookVars
  BY <1>1
<1> QED
  BY <1>2, WebhooksInvariance, PTL DEF WebhooksSpec, RunsAreCounted

----------------------------------------------------------------------------
(***************************************************************************)
(* Locks of the gateway. How many attempts may fail within the length of a *)
(* lock depends on when the counted ones failed: the invariant says that   *)
(* an entry counts every failure since its first.                          *)
(***************************************************************************)

\* What has failed is finite, and is in the past or the present.
LEMMA AfterIsFinite ==
  ASSUME AccessTypeOK, NEW a \in Addresses, NEW i
  PROVE  IsFiniteSet(After(a, i)) /\ Cardinality(After(a, i)) \in Nat
<1>1. IsFiniteSet(Ticks) /\ IsFiniteSet(1..MaxTries)
  <2>1. LastTick \in Int /\ MaxTries \in Int
    BY AccessAssumption
  <2>2. IsFiniteSet(0..LastTick) /\ IsFiniteSet(1..MaxTries)
    BY <2>1, FS_Interval
  <2> QED
    BY <2>2 DEF Ticks
<1>2. IsFiniteSet(Ticks \X (1..MaxTries)) BY <1>1, FS_Product
<1>3. IsFiniteSet(Failures) BY <1>2 DEF Failures
<1>4. After(a, i) \in SUBSET Failures BY DEF After, AccessTypeOK
<1>5. IsFiniteSet(After(a, i)) BY <1>3, <1>4, FS_Subset
<1> QED BY <1>5, FS_CardinalityType

\* Fewer failures come after a later tick.
LEMMA FewerAfterLater ==
  ASSUME AccessTypeOK, NEW a \in Addresses, NEW i \in Int, NEW j \in Int, i <= j
  PROVE  Cardinality(After(a, j)) <= Cardinality(After(a, i))
<1>1. \A f \in failed[a] : f[1] \in Int BY DEF AccessTypeOK, Failures, Ticks
<1>2. After(a, j) \in SUBSET After(a, i) BY <1>1 DEF After
<1> QED BY <1>2, AfterIsFinite, FS_Subset

\* The counting argument.  Of the failures of a period only those of the present count
\* and those of the one before it can be recent: a count is dropped by the clean-up when
\* its first failure is two periods old, and then everything before it is older still.
\* The count before lacks its first failure for the same reason, and a lock that has run
\* its time leaves nothing recent at all.
CountsAreRecent ==
  \A a \in Addresses :
    /\ \A f \in failed[a] : f[1] <= now
    /\ entry[a] = NoEntry => Cardinality(After(a, now - Lockout)) <= Limit - 1
    /\ entry[a] # NoEntry =>
         LET e == entry[a] IN
         /\ Cardinality(After(a, now - Lockout)) <= Limit - 1 + e.count
         /\ Cardinality(After(a, e.first)) <= e.count - 1
         /\ 1 <= e.count /\ e.count <= (IF e.until = 0 THEN Limit - 1 ELSE Limit)
         /\ e.until # 0 => Cardinality(After(a, e.until - Lockout)) = 0

AccessInv == AccessTypeOK /\ CountsAreRecent

\* A limit below two locks at the second failure all the same: the first only makes the entry.
LEMMA LimitFacts == Limit \in Nat /\ Limit >= 2 /\ Limit >= MaxFailed
BY AccessAssumption DEF Limit

\* The invariant holds of a gateway that has just started.
LEMMA AccessStarts == AccessInit => AccessInv
<1> SUFFICES ASSUME AccessInit PROVE AccessInv OBVIOUS
<1> USE AccessAssumption DEF AccessInit, Ticks, Failures
<1>1. AccessTypeOK BY DEF AccessTypeOK, Entries
<1>2. \A a \in Addresses, i \in Int : After(a, i) = {} BY DEF After
<1>3. CountsAreRecent BY <1>2, FS_EmptySet, LimitFacts DEF CountsAreRecent
<1> QED BY <1>1, <1>3 DEF AccessInv

\* An address of which nothing is known any more.
LEMMA NothingKnown ==
  ASSUME NEW a \in Addresses, AccessTypeOK', entry'[a] = NoEntry, failed'[a] = {}
  PROVE  /\ \A f \in failed'[a] : f[1] <= now'
         /\ Cardinality(After(a, now - Lockout))' <= Limit - 1
<1>1. After(a, now - Lockout)' = {} BY DEF After
<1> QED BY <1>1, FS_EmptySet, LimitFacts

\* A lock that has ended leaves nothing recent, so forgetting it forgets nothing.
LEMMA EndedLockIsOld ==
  ASSUME AccessInv, NEW a \in Addresses, ~ Locked(a), entry[a] # NoEntry, entry[a].until # 0
  PROVE  Cardinality(After(a, now - Lockout)) = 0
<1>1. entry[a].until \in Int /\ now \in Int /\ entry[a].until <= now /\ Lockout \in Int
  BY AccessAssumption DEF Locked, AccessInv, AccessTypeOK, Entries, Ticks
<1>2. Cardinality(After(a, now - Lockout)) <= Cardinality(After(a, entry[a].until - Lockout))
  BY <1>1, FewerAfterLater DEF AccessInv
<1>3. Cardinality(After(a, entry[a].until - Lockout)) = 0 BY DEF AccessInv, CountsAreRecent
<1>4. Cardinality(After(a, now - Lockout)) \in Nat BY AfterIsFinite DEF AccessInv
<1> QED BY <1>2, <1>3, <1>4

\* A failed attempt keeps it: what the entry counts failed after the last unlocking.
LEMMA FailsOK ==
  ASSUME AccessInv, NEW a \in Addresses, Fails(a)
  PROVE  AccessInv'
<1> USE DEF AccessInv
<1> DEFINE f == CHOOSE g \in Unused(a) : TRUE
           new == Recorded(Seen(a))
<1>1. f \in Unused(a) BY DEF Fails
<1>2. /\ ~ Locked(a) /\ UNCHANGED <<now, row>>
      /\ entry' = [entry EXCEPT ![a] = new]
      /\ failed' = [failed EXCEPT ![a] = failed[a] \cup {f}]
  BY DEF Fails
<1>3. f \in Failures /\ f[1] = now /\ f \notin failed[a] BY <1>1 DEF Unused
<1>n. now \in Nat /\ now \in Ticks /\ Lockout \in Nat /\ Lockout > 0 /\ MaxFailed \in Nat
  BY AccessAssumption DEF AccessTypeOK, Ticks
<1> HIDE DEF f
<1>4. Seen(a) \in Entries \cup {NoEntry} BY DEF Seen, AccessTypeOK
<1>5. new \in Entries /\ new # NoEntry
  <2>1. new \in Entries
    <3> DEFINE e == Seen(a)
    <3>0. new = Recorded(e) OBVIOUS
    <3> HIDE DEF e, new
    <3>1. CASE e = NoEntry BY <1>n, <3>0, <3>1 DEF Recorded, Entries
    <3>2. CASE e # NoEntry
      <4>1. e \in Entries BY <1>4, <3>2 DEF e
      <4>2. new = [e EXCEPT !.count = e.count + 1,
                            !.until = IF e.count + 1 >= MaxFailed THEN now + Lockout ELSE e.until]
        BY <3>0, <3>2 DEF Recorded
      <4>3. /\ new = [count |-> new.count, first |-> new.first, until |-> new.until]
            /\ new.count = e.count + 1 /\ new.first = e.first
            /\ new.until \in {now + Lockout, e.until}
        BY <4>1, <4>2 DEF Entries
      <4>4. e.count \in Nat /\ e.first \in Ticks /\ e.until \in Nat BY <4>1 DEF Entries
      <4>5. new.count \in Nat /\ new.first \in Ticks /\ new.until \in Nat
        BY <1>n, <4>3, <4>4
      <4> QED BY <4>3, <4>5 DEF Entries
    <3> QED BY <3>1, <3>2
  <2>2. Entries \subseteq [count : Nat, first : Nat, until : Nat]
    BY AccessAssumption DEF Entries, Ticks
  <2> QED BY <2>1, <2>2, AccessAssumption
<1> HIDE DEF new
<1>6. AccessTypeOK' BY <1>2, <1>3, <1>5 DEF AccessTypeOK
<1>7. ASSUME NEW b \in Addresses, b # a, NEW i PROVE After(b, i)' = {g \in failed[b] : i' < g[1]}
  BY <1>2, <1>7 DEF After, AccessTypeOK
<1>8. ASSUME NEW i \in Int
      PROVE  Cardinality({g \in failed'[a] : i < g[1]})
               = Cardinality(After(a, i)) + (IF i < now THEN 1 ELSE 0)
  <2>1. failed'[a] = failed[a] \cup {f} BY <1>2 DEF AccessTypeOK
  <2>2. IsFiniteSet(After(a, i)) /\ Cardinality(After(a, i)) \in Nat BY AfterIsFinite
  <2>3. CASE i < now
    <3>1. {g \in failed'[a] : i < g[1]} = After(a, i) \cup {f} BY <1>3, <2>1, <2>3 DEF After
    <3>2. f \notin After(a, i) BY <1>3 DEF After
    <3> QED BY <2>2, <2>3, <3>1, <3>2, FS_AddElement
  <2>4. CASE ~ (i < now)
    <3>1. ~ (i < f[1]) BY <1>3, <2>4
    <3>2. {g \in failed'[a] : i < g[1]} = {g \in failed[a] : i < g[1]} BY <2>1, <3>1
    <3>3. {g \in failed'[a] : i < g[1]} = After(a, i) BY <3>2 DEF After
    <3>4. (IF i < now THEN 1 ELSE 0) = 0 BY <2>4
    <3>5. Cardinality(After(a, i)) + 0 = Cardinality(After(a, i)) BY <2>2
    <3> QED BY <3>3, <3>4, <3>5
  <2> QED BY <2>3, <2>4
<1>9. Cardinality(After(a, now - Lockout))' = Cardinality(After(a, now - Lockout)) + 1
  BY <1>2, <1>8, <1>n DEF After
<1>10. /\ \A g \in failed'[a] : g[1] <= now'
       /\ Cardinality(After(a, now - Lockout))' <= Limit - 1 + new.count
       /\ Cardinality({g \in failed'[a] : new.first < g[1]}) <= new.count - 1
       /\ 1 <= new.count /\ new.count <= (IF new.until = 0 THEN Limit - 1 ELSE Limit)
       /\ new.until # 0 => Cardinality({g \in failed'[a] : new.until - Lockout < g[1]}) = 0
  <2>1. \A g \in failed'[a] : g[1] <= now'
    <3>1. failed'[a] = failed[a] \cup {f} /\ now' = now BY <1>2 DEF AccessTypeOK
    <3> QED BY <1>3, <1>n, <3>1 DEF CountsAreRecent
  <2>2. \A i \in Int : i >= now => Cardinality(After(a, i)) = 0
    <3> SUFFICES ASSUME NEW i \in Int, i >= now PROVE Cardinality(After(a, i)) = 0
      OBVIOUS
    <3>1. \A g \in failed[a] : g[1] <= now /\ g[1] \in Int
      BY DEF CountsAreRecent, AccessTypeOK, Failures, Ticks
    <3>2. After(a, i) = {} BY <1>n, <3>1 DEF After
    <3> QED BY <3>2, FS_EmptySet
  <2>n. \A i : Cardinality(After(a, i)) \in Nat BY AfterIsFinite
  <2>3. CASE Seen(a) = NoEntry
    <3>1. new = [count |-> 1, first |-> now, until |-> 0] BY <2>3 DEF Recorded, new
    <3>2. Cardinality(After(a, now - Lockout)) <= Limit - 1
      <4>1. CASE entry[a] = NoEntry BY <4>1 DEF CountsAreRecent
      <4>2. CASE entry[a] # NoEntry
        <5>1. entry[a].until # 0 BY <2>3, <4>2 DEF Seen
        <5> QED BY <1>2, <4>2, <5>1, EndedLockIsOld, LimitFacts
      <4> QED BY <4>1, <4>2
    <3>3. Cardinality({g \in failed'[a] : new.first < g[1]}) = 0
      BY <1>8, <1>n, <2>2, <3>1
    <3>4. Cardinality(After(a, now - Lockout))' <= Limit - 1 + new.count
      BY <1>9, <2>n, <3>1, <3>2, LimitFacts
    <3>5. new.count = 1 /\ new.until = 0 BY <3>1
    <3>6. Limit \in Nat /\ Limit >= 2 BY LimitFacts
    <3> QED BY <2>1, <3>3, <3>4, <3>5, <3>6
  <2>4. CASE Seen(a) # NoEntry
    <3> DEFINE e == entry[a]
    <3>1. e # NoEntry /\ e.until = 0 /\ Seen(a) = e BY <2>4 DEF Seen
    <3>2. e \in Entries BY <3>1 DEF AccessTypeOK
    <3>3. e.count \in Nat /\ e.first \in Nat /\ e.until \in Nat
      BY <3>2, AccessAssumption DEF Entries, Ticks
    <3>4. /\ new.count = e.count + 1 /\ new.first = e.first
          /\ new.until = IF e.count + 1 >= MaxFailed THEN now + Lockout ELSE 0
      BY <2>4, <3>1, <3>2 DEF Recorded, new, Entries
    <3>5. /\ Cardinality(After(a, now - Lockout)) <= Limit - 1 + e.count
          /\ Cardinality(After(a, e.first)) <= e.count - 1
          /\ 1 <= e.count /\ e.count <= Limit - 1
      BY <3>1 DEF CountsAreRecent
    <3> HIDE DEF e
    <3>6. Cardinality(After(a, now - Lockout))' <= Limit - 1 + new.count
      BY <1>9, <2>n, <3>3, <3>4, <3>5, LimitFacts
    <3>7. Cardinality({g \in failed'[a] : new.first < g[1]}) <= new.count - 1
      <4>1. Cardinality({g \in failed'[a] : e.first < g[1]})
              = Cardinality(After(a, e.first)) + (IF e.first < now THEN 1 ELSE 0)
        BY <1>8, <3>3
      <4> QED BY <2>n, <3>3, <3>4, <3>5, <4>1
    <3>8. 1 <= new.count /\ new.count <= (IF new.until = 0 THEN Limit - 1 ELSE Limit)
      BY <1>n, <3>3, <3>4, <3>5, LimitFacts
    <3>9. new.until # 0 => Cardinality({g \in failed'[a] : new.until - Lockout < g[1]}) = 0
      <4> SUFFICES ASSUME new.until # 0
                   PROVE  Cardinality({g \in failed'[a] : new.until - Lockout < g[1]}) = 0
        OBVIOUS
      <4>1. new.until - Lockout = now BY <1>n, <3>4
      <4> QED BY <1>8, <1>n, <2>2, <4>1
    <3> QED BY <2>1, <3>6, <3>7, <3>8, <3>9
  <2> QED BY <2>3, <2>4
<1>11. CountsAreRecent'
  <2> SUFFICES ASSUME NEW b \in Addresses
               PROVE  (/\ \A g \in failed[b] : g[1] <= now
                       /\ entry[b] = NoEntry => Cardinality(After(b, now - Lockout)) <= Limit - 1
                       /\ entry[b] # NoEntry =>
                            /\ Cardinality(After(b, now - Lockout)) <= Limit - 1 + entry[b].count
                            /\ Cardinality(After(b, entry[b].first)) <= entry[b].count - 1
                            /\ 1 <= entry[b].count
                            /\ entry[b].count <= (IF entry[b].until = 0 THEN Limit - 1 ELSE Limit)
                            /\ entry[b].until # 0
                                 => Cardinality(After(b, entry[b].until - Lockout)) = 0)'
    BY DEF CountsAreRecent
  <2>1. CASE b = a
    <3>1. entry'[a] = new BY <1>2 DEF AccessTypeOK
    <3> QED BY <1>5, <1>10, <2>1, <3>1 DEF After
  <2>2. CASE b # a
    <3>1. entry'[b] = entry[b] /\ failed'[b] = failed[b] /\ now' = now
      BY <1>2, <2>2 DEF AccessTypeOK
    <3> QED BY <3>1 DEF CountsAreRecent, After
  <2> QED BY <2>1, <2>2
<1> QED BY <1>6, <1>11

\* What the count of an address says, spelled out for the next state.
LEMMA CountsOK ==
  ASSUME AccessTypeOK',
         \A a \in Addresses :
           (/\ \A f \in failed[a] : f[1] <= now
            /\ entry[a] = NoEntry => Cardinality(After(a, now - Lockout)) <= Limit - 1
            /\ entry[a] # NoEntry =>
                 /\ Cardinality(After(a, now - Lockout)) <= Limit - 1 + entry[a].count
                 /\ Cardinality(After(a, entry[a].first)) <= entry[a].count - 1
                 /\ 1 <= entry[a].count
                 /\ entry[a].count <= (IF entry[a].until = 0 THEN Limit - 1 ELSE Limit)
                 /\ entry[a].until # 0 => Cardinality(After(a, entry[a].until - Lockout)) = 0)'
  PROVE  AccessInv'
BY DEF AccessInv, CountsAreRecent

\* An address that a step leaves alone.
LEMMA LeftAlone ==
  ASSUME AccessInv, NEW a \in Addresses, now' = now, entry'[a] = entry[a], failed'[a] = failed[a]
  PROVE  (/\ \A f \in failed[a] : f[1] <= now
          /\ entry[a] = NoEntry => Cardinality(After(a, now - Lockout)) <= Limit - 1
          /\ entry[a] # NoEntry =>
               /\ Cardinality(After(a, now - Lockout)) <= Limit - 1 + entry[a].count
               /\ Cardinality(After(a, entry[a].first)) <= entry[a].count - 1
               /\ 1 <= entry[a].count
               /\ entry[a].count <= (IF entry[a].until = 0 THEN Limit - 1 ELSE Limit)
               /\ entry[a].until # 0 => Cardinality(After(a, entry[a].until - Lockout)) = 0)'
BY DEF AccessInv, CountsAreRecent, After

\* An address whose count is dropped while none or one less of its failures is recent.
LEMMA Dropped ==
  ASSUME AccessInv, NEW a \in Addresses, now' = now, entry'[a] = NoEntry, failed'[a] = failed[a],
         Cardinality(After(a, now - Lockout)) <= Limit - 1
  PROVE  (/\ \A f \in failed[a] : f[1] <= now
          /\ entry[a] = NoEntry => Cardinality(After(a, now - Lockout)) <= Limit - 1
          /\ entry[a] # NoEntry =>
               /\ Cardinality(After(a, now - Lockout)) <= Limit - 1 + entry[a].count
               /\ Cardinality(After(a, entry[a].first)) <= entry[a].count - 1
               /\ 1 <= entry[a].count
               /\ entry[a].count <= (IF entry[a].until = 0 THEN Limit - 1 ELSE Limit)
               /\ entry[a].until # 0 => Cardinality(After(a, entry[a].until - Lockout)) = 0)'
BY DEF AccessInv, CountsAreRecent, After

\* A new token is one of those that may be made.
LEMMA TokensOK ==
  ASSUME AccessInv, NEW k \in Tokens
  PROVE  Make(k) \in [Tokens -> [made : BOOLEAN, expires : Nat, revoked : BOOLEAN]]
<1>1. now + Expiry \in Nat BY AccessAssumption DEF AccessInv, AccessTypeOK, Ticks
<1>2. [made |-> TRUE, expires |-> now + Expiry, revoked |-> FALSE]
        \in [made : BOOLEAN, expires : Nat, revoked : BOOLEAN]
  BY <1>1
<1> QED BY <1>2 DEF Make, AccessInv, AccessTypeOK

\* Every step keeps it, the clean-up on its own clock included.
LEMMA AccessSteps == AccessInv /\ [AccessNext]_accessVars => AccessInv'
<1> SUFFICES ASSUME AccessInv, [AccessNext]_accessVars PROVE AccessInv' OBVIOUS
<1>1. ASSUME UNCHANGED <<now, entry, failed>>,
             row' \in [Tokens -> [made : BOOLEAN, expires : Nat, revoked : BOOLEAN]]
      PROVE  AccessInv'
  <2>1. AccessTypeOK' BY <1>1 DEF AccessInv, AccessTypeOK
  <2> QED BY <1>1, <2>1, LeftAlone, CountsOK
<1>2. ASSUME NEW k \in Tokens, CreateToken(k) PROVE AccessInv'
  BY <1>1, <1>2, TokensOK DEF CreateToken
<1>3. ASSUME NEW k \in Tokens, RevokeToken(k) PROVE AccessInv'
  <2>1. row' \in [Tokens -> [made : BOOLEAN, expires : Nat, revoked : BOOLEAN]]
    BY <1>3 DEF RevokeToken, AccessInv, AccessTypeOK
  <2> QED BY <1>1, <1>3, <2>1 DEF RevokeToken
<1>4. ASSUME NEW k \in Tokens, NEW a \in Addresses, Succeeds(a, k) PROVE AccessInv'
  <2>1. /\ UNCHANGED <<now, row>> /\ entry' = [entry EXCEPT ![a] = NoEntry]
        /\ failed' = [failed EXCEPT ![a] = {}]
    BY <1>4 DEF Succeeds
  <2>2. AccessTypeOK' BY <2>1 DEF AccessInv, AccessTypeOK
  <2>3. entry'[a] = NoEntry /\ failed'[a] = {} BY <2>1 DEF AccessInv, AccessTypeOK
  <2>4. \A b \in Addresses \ {a} : entry'[b] = entry[b] /\ failed'[b] = failed[b]
    BY <2>1 DEF AccessInv, AccessTypeOK
  <2> QED BY <2>1, <2>2, <2>3, <2>4, NothingKnown, LeftAlone, CountsOK
<1>5. CASE StartGateway
  <2>1. row' \in [Tokens -> [made : BOOLEAN, expires : Nat, revoked : BOOLEAN]]
    BY <1>5, TokensOK DEF StartGateway, AccessInv, AccessTypeOK
  <2>2. /\ now' = now /\ entry' = [a \in Addresses |-> NoEntry]
        /\ failed' = [a \in Addresses |-> {}]
    BY <1>5 DEF StartGateway
  <2>3. AccessTypeOK' BY <2>1, <2>2 DEF AccessInv, AccessTypeOK
  <2>4. \A a \in Addresses : entry'[a] = NoEntry /\ failed'[a] = {} BY <2>2
  <2> QED BY <2>2, <2>3, <2>4, NothingKnown, CountsOK
<1>6. ASSUME NEW a \in Addresses, Fails(a) PROVE AccessInv'
  BY <1>6, FailsOK
<1>7. ASSUME NEW a \in Addresses, Refused(a) PROVE AccessInv'
  <2>1. /\ UNCHANGED <<now, row, failed>>
        /\ entry' = [entry EXCEPT ![a] = IF Locked(a) THEN entry[a] ELSE Seen(a)]
    BY <1>7 DEF Refused
  <2>2. AccessTypeOK' BY <2>1 DEF AccessInv, AccessTypeOK, Seen
  <2>3. \A b \in Addresses \ {a} : entry'[b] = entry[b] /\ failed'[b] = failed[b]
    BY <2>1 DEF AccessInv, AccessTypeOK
  <2>4. entry'[a] = (IF Locked(a) THEN entry[a] ELSE Seen(a)) /\ failed'[a] = failed[a]
    BY <2>1 DEF AccessInv, AccessTypeOK
  <2>5. CASE entry'[a] = entry[a] BY <2>1, <2>2, <2>3, <2>4, <2>5, LeftAlone, CountsOK
  <2>6. CASE entry'[a] # entry[a]
    <3>1. ~ Locked(a) /\ entry[a] # NoEntry /\ entry[a].until # 0 /\ entry'[a] = NoEntry
      BY <2>4, <2>6 DEF Seen
    <3>2. Cardinality(After(a, now - Lockout)) <= Limit - 1
      BY <3>1, EndedLockIsOld, LimitFacts
    <3> QED BY <2>1, <2>2, <2>3, <2>4, <3>1, <3>2, LeftAlone, Dropped, CountsOK
  <2> QED BY <2>5, <2>6
<1>8. CASE CleanupAttempts
  <2>1. /\ UNCHANGED <<now, row, failed>>
        /\ entry' = [a \in Addresses |->
             IF entry[a] # NoEntry /\ now - entry[a].first > 2 * Lockout THEN NoEntry ELSE entry[a]]
    BY <1>8 DEF CleanupAttempts
  <2>2. AccessTypeOK' BY <2>1 DEF AccessInv, AccessTypeOK
  <2>3. ASSUME NEW a \in Addresses, entry[a] # NoEntry, now - entry[a].first > 2 * Lockout
        PROVE  Cardinality(After(a, now - Lockout)) <= Limit - 1
    <3>1. /\ entry[a].first \in Int /\ entry[a].count \in Int /\ now \in Int
          /\ Lockout \in Nat /\ Lockout > 0
      BY <2>3, AccessAssumption DEF AccessInv, AccessTypeOK, Entries, Ticks
    <3>2. entry[a].first <= now - Lockout BY <2>3, <3>1
    <3>3. Cardinality(After(a, now - Lockout)) <= Cardinality(After(a, entry[a].first))
      BY <3>1, <3>2, FewerAfterLater DEF AccessInv
    <3>4. Cardinality(After(a, entry[a].first)) <= entry[a].count - 1 /\ entry[a].count <= Limit
      BY <2>3, LimitFacts, <3>1 DEF AccessInv, CountsAreRecent
    <3>5. /\ Cardinality(After(a, now - Lockout)) \in Nat
          /\ Cardinality(After(a, entry[a].first)) \in Nat
      BY AfterIsFinite DEF AccessInv
    <3> QED BY <3>1, <3>3, <3>4, <3>5, LimitFacts
  <2>4. \A a \in Addresses : \/ entry'[a] = entry[a]
                             \/ /\ entry[a] # NoEntry /\ now - entry[a].first > 2 * Lockout
                                /\ entry'[a] = NoEntry
    BY <2>1
  <2> QED BY <2>1, <2>2, <2>3, <2>4, LeftAlone, Dropped, CountsOK
<1>9. CASE PassTime
  <2>1. now < LastTick /\ now' = now + 1 /\ UNCHANGED <<entry, row, failed>>
    BY <1>9 DEF PassTime
  <2>2. now \in Nat /\ now \in Int /\ LastTick \in Nat /\ Lockout \in Nat /\ now' \in Ticks
    BY <2>1, AccessAssumption DEF AccessInv, AccessTypeOK, Ticks
  <2>3. AccessTypeOK' BY <2>1, <2>2 DEF AccessInv, AccessTypeOK
  <2>4. ASSUME NEW a \in Addresses
        PROVE  (/\ \A f \in failed[a] : f[1] <= now
                /\ entry[a] = NoEntry => Cardinality(After(a, now - Lockout)) <= Limit - 1
                /\ entry[a] # NoEntry =>
                     /\ Cardinality(After(a, now - Lockout)) <= Limit - 1 + entry[a].count
                     /\ Cardinality(After(a, entry[a].first)) <= entry[a].count - 1
                     /\ 1 <= entry[a].count
                     /\ entry[a].count <= (IF entry[a].until = 0 THEN Limit - 1 ELSE Limit)
                     /\ entry[a].until # 0 => Cardinality(After(a, entry[a].until - Lockout)) = 0)'
    <3>1. \A f \in failed[a] : f[1] \in Int /\ f[1] <= now
      BY DEF AccessInv, AccessTypeOK, CountsAreRecent, Failures, Ticks
    <3>2. Cardinality(After(a, (now + 1) - Lockout)) <= Cardinality(After(a, now - Lockout))
      BY <2>2, FewerAfterLater DEF AccessInv
    <3>3. \A i : Cardinality(After(a, i)) \in Nat BY AfterIsFinite DEF AccessInv
    <3>4. entry[a] # NoEntry => entry[a].count \in Nat
      BY DEF AccessInv, AccessTypeOK, Entries
    <3>5. Cardinality(After(a, now - Lockout))' = Cardinality(After(a, (now + 1) - Lockout))
      <4>1. now' - Lockout = (now + 1) - Lockout /\ failed' = failed BY <2>1
      <4>3. \A g : now' - Lockout < g[1] <=> (now + 1) - Lockout < g[1] BY <4>1
      <4>2. Cardinality(After(a, now - Lockout))'
              = Cardinality({g \in failed'[a] : now' - Lockout < g[1]})
        BY SMT DEF After
      <4>4. {g \in failed'[a] : now' - Lockout < g[1]} = After(a, (now + 1) - Lockout)
        BY <4>1, <4>3 DEF After
      <4> QED BY <4>2, <4>4, Zenon
    <3>6. \A f \in failed'[a] : f[1] <= now' BY <2>1, <2>2, <3>1
    <3>7. entry[a] = NoEntry => Cardinality(After(a, now - Lockout))' <= Limit - 1
      BY <3>2, <3>3, <3>5, LimitFacts DEF AccessInv, CountsAreRecent
    <3>8. entry[a] # NoEntry => Cardinality(After(a, now - Lockout))' <= Limit - 1 + entry[a].count
      BY <3>2, <3>3, <3>4, <3>5, LimitFacts DEF AccessInv, CountsAreRecent
    <3>9. /\ entry'[a] = entry[a]
          /\ After(a, entry[a].first)' = After(a, entry[a].first)
          /\ After(a, entry[a].until - Lockout)' = After(a, entry[a].until - Lockout)
      BY <2>1 DEF After
    <3> QED BY <3>6, <3>7, <3>8, <3>9 DEF AccessInv, CountsAreRecent
  <2> QED BY <2>3, <2>4, CountsOK
<1>10. CASE UNCHANGED accessVars
  <2>1. row' \in [Tokens -> [made : BOOLEAN, expires : Nat, revoked : BOOLEAN]]
    BY <1>10 DEF accessVars, AccessInv, AccessTypeOK
  <2> QED BY <1>1, <1>10, <2>1 DEF accessVars
<1> QED BY <1>2, <1>3, <1>4, <1>5, <1>6, <1>7, <1>8, <1>9, <1>10 DEF AccessNext

\* The invariant bounds what fails within any one lock's length.
LEMMA AccessIsBounded == AccessInv => AttemptsBounded
<1> SUFFICES ASSUME AccessInv, NEW a \in Addresses
             PROVE  Cardinality(After(a, now - Lockout)) <= 2 * Limit - 1
  BY DEF AttemptsBounded
<1>1. Cardinality(After(a, now - Lockout)) \in Nat BY AfterIsFinite DEF AccessInv
<1>2. CASE entry[a] = NoEntry BY <1>1, <1>2, LimitFacts DEF AccessInv, CountsAreRecent
<1>3. CASE entry[a] # NoEntry
  <2>1. entry[a].count \in Nat BY <1>3 DEF AccessInv, AccessTypeOK, Entries
  <2>2. entry[a].count <= Limit BY <1>3, <2>1, LimitFacts DEF AccessInv, CountsAreRecent
  <2>3. Cardinality(After(a, now - Lockout)) <= Limit - 1 + entry[a].count
    BY <1>3 DEF AccessInv, CountsAreRecent
  <2> QED BY <1>1, <2>1, <2>2, <2>3, LimitFacts
<1> QED BY <1>2, <1>3

\* However attempts, clean-ups and the clock interleave, between two successes fewer than twice the
\* limit of wrong tokens of an address are looked at within the length of a lock
\* (recordFailedAttempt and cleanupAttempts of auth-manager.ts).
THEOREM LockoutHolds == AccessSpec => []AttemptsBounded
BY AccessStarts, AccessSteps, AccessIsBounded, PTL DEF AccessSpec

----------------------------------------------------------------------------
(***************************************************************************)
(* The Google credential.                                                  *)
(***************************************************************************)

\* What RemovedStays adds to itself: a row removed quietly stays away because nothing
\* that began before its removal is still to end.
GoneIsQuiet == gone = "quietly" => google = NoCred /\ Quiet

CredentialsInv == CredentialsTypeOK /\ GoneIsQuiet

\* The invariant holds of an empty table, with or without the command line tool's file.
LEMMA CredentialsInitOK == CredentialsInit => CredentialsInv
<1> SUFFICES ASSUME CredentialsInit PROVE CredentialsInv
  OBVIOUS
<1>1. cliFile \in [account : Accounts, fresh : BOOLEAN] \cup {NoCred}
  <2>1. \A a \in Accounts : [account |-> a, fresh |-> TRUE] \in [account : Accounts, fresh : BOOLEAN]
    OBVIOUS
  <2> QED
    BY <2>1 DEF CredentialsInit
<1>2. use \in [Uses -> Row \cup {NoCred}] /\ import \in [Imports -> Accounts \cup {NoCred}]
  BY DEF CredentialsInit
<1> QED
  BY <1>1, <1>2 DEF CredentialsInit, CredentialsInv, CredentialsTypeOK, GoneIsQuiet

\* Every step keeps it.
LEMMA CredentialsStepOK == CredentialsInv /\ [CredentialsNext]_credentialVars => CredentialsInv'
<1> SUFFICES ASSUME CredentialsInv, [CredentialsNext]_credentialVars PROVE CredentialsInv'
  OBVIOUS
<1> USE CredentialsAssumption DEF CredentialsInv, CredentialsTypeOK, GoneIsQuiet, Quiet, Row
<1>1. CASE SaveGoogleKey
  BY <1>1 DEF SaveGoogleKey, Clicked, Key
<1>2. CASE ClearCred
  BY <1>2 DEF ClearCred, Clicked
<1>3. CASE LoadStatus
  BY <1>3 DEF LoadStatus
<1>4. ASSUME NEW i \in Imports, ImportBegins(i) PROVE CredentialsInv'
  BY <1>4 DEF ImportBegins, Clicked
<1>5. ASSUME NEW i \in Imports, ImportEnds(i) PROVE CredentialsInv'
  <2>1. import[i] \in Accounts
    BY <1>5 DEF ImportEnds
  <2>2. Login(import[i], TRUE) \in Row
    BY <2>1 DEF Login
  <2>3. gone # "quietly"
    BY <1>5 DEF ImportEnds
  <2> QED
    BY <1>5, <2>2, <2>3 DEF ImportEnds
<1>6. CASE UseCliFile
  BY <1>6 DEF UseCliFile
<1>7. ASSUME NEW u \in Uses, RefreshBegins(u) PROVE CredentialsInv'
  BY <1>7 DEF RefreshBegins
<1>8. ASSUME NEW u \in Uses, RefreshEnds(u) PROVE CredentialsInv'
  BY <1>8 DEF RefreshEnds
<1>9. CASE Expires
  BY <1>9 DEF Expires
<1>10. CASE CliWrites
  BY <1>10 DEF CliWrites
<1>11. CASE UNCHANGED credentialVars
  BY <1>11 DEF credentialVars
<1> QED
  BY <1>1, <1>2, <1>3, <1>4, <1>5, <1>6, <1>7, <1>8, <1>9, <1>10, <1>11 DEF CredentialsNext

\* A credential that is removed while nothing is in flight stays removed (credential-store.ts).
THEOREM RemovedRowsStay == CredentialsSpec => []RemovedStays
<1>1. CredentialsInv => RemovedStays
  BY DEF CredentialsInv, GoneIsQuiet, RemovedStays
<1> QED
  BY <1>1, CredentialsInitOK, CredentialsStepOK, PTL DEF CredentialsSpec

----------------------------------------------------------------------------
(***************************************************************************)
(* The configuration file. A deletion by id takes one entry only because   *)
(* ids are distinct, which the invariant adds of the file that parses and  *)
(* of the backup a save begins with.                                       *)
(***************************************************************************)

\* What a file may say.
AgentEntries == [id : FileAgents, default : BOOLEAN]
TeamEntries == [id : FileTeams, members : SUBSET (FileRoles \X FileAgents)]
Sandboxes == [mode : Modes \cup {Absent}, memory : {"given", Absent}]
Files == [list : Seq(AgentEntries), sandbox : Sandboxes, roles : SUBSET FileRoles, teams : Seq(TeamEntries)]

\* Ids are distinct, which is why a deletion by id takes one entry.
GoodList(l) ==
  /\ l \in Seq(AgentEntries)
  /\ \A i, j \in 1..Len(l) : l[i].id = l[j].id => i = j

\* A list that is not empty has a default.
HasDefault(l) == Len(l) # 0 => \E i \in 1..Len(l) : l[i].default

\* What a form makes of a list is as good a list.
AsGood(l, m) == GoodList(m) /\ (HasDefault(l) => HasDefault(m))

ConfigInv ==
  /\ ConfigTypeOK /\ file \in Files /\ GoodList(file.list)
  /\ ServesTheFile /\ SomeAgentIsDefault

\* What a list of agents consists of.
LEMMA AgentEntriesTyped ==
  ASSUME NEW l \in Seq(AgentEntries)
  PROVE  /\ Len(l) \in Nat /\ DOMAIN l = 1..Len(l) /\ (l = <<>> <=> Len(l) = 0)
         /\ \A i \in 1..Len(l) : l[i] \in AgentEntries /\ l[i].id \in FileAgents /\ l[i].default \in BOOLEAN
<1>1. Len(l) \in Nat /\ DOMAIN l = 1..Len(l) /\ \A i \in 1..Len(l) : l[i] \in AgentEntries
  BY ElementOfSeq
<1>2. \A e \in AgentEntries : e.id \in FileAgents /\ e.default \in BOOLEAN
  BY DEF AgentEntries
<1> QED
  BY <1>1, <1>2, EmptySeq

\* The two ways to say that a list lacks a default.
LEMMA DefaultOrNone ==
  ASSUME NEW l, GoodList(l)
  PROVE  Defaultless(l) <=> ~HasDefault(l)
BY AgentEntriesTyped DEF GoodList, Defaultless, HasDefault

\* An entry is its id and its flag.
LEMMA EntryFacts ==
  /\ \A a \in FileAgents, d \in BOOLEAN :
       Entry(a, d) \in AgentEntries /\ Entry(a, d).id = a /\ Entry(a, d).default = d
  /\ \A e \in AgentEntries, d \in BOOLEAN :
       [e EXCEPT !.default = d] \in AgentEntries /\ [e EXCEPT !.default = d].id = e.id
       /\ [e EXCEPT !.default = d].default = d
  BY DEF Entry, AgentEntries

\* A file with another part is the file in every other part.
LEMMA FileParts ==
  ASSUME NEW f \in Files
  PROVE  /\ f.list \in Seq(AgentEntries) /\ f.sandbox \in Sandboxes /\ f.roles \in SUBSET FileRoles
         /\ f.teams \in Seq(TeamEntries)
         /\ \A l \in Seq(AgentEntries) : [f EXCEPT !.list = l] \in Files /\ [f EXCEPT !.list = l].list = l
         /\ \A m \in Modes : [f EXCEPT !.sandbox.mode = m] \in Files /\ [f EXCEPT !.sandbox.mode = m].list = f.list
         /\ \A s \in Sandboxes : /\ [f EXCEPT !.sandbox = s] \in Files /\ [f EXCEPT !.sandbox = s].list = f.list
                               /\ [f EXCEPT !.sandbox = s].sandbox = s
         /\ \A r \in SUBSET FileRoles : [f EXCEPT !.roles = r] \in Files /\ [f EXCEPT !.roles = r].list = f.list
         /\ \A t \in Seq(TeamEntries) : [f EXCEPT !.teams = t] \in Files /\ [f EXCEPT !.teams = t].list = f.list
<1> DEFINE LS == Seq(AgentEntries)
           TS == Seq(TeamEntries)
<1>1. f \in [list : LS, sandbox : Sandboxes, roles : SUBSET FileRoles, teams : TS]
  BY DEF Files
<1>2. \A m \in Modes : [f.sandbox EXCEPT !.mode = m] \in Sandboxes
  BY DEF Files, Sandboxes
<1> HIDE DEF LS, TS
<1>3. /\ f.list \in LS /\ f.sandbox \in Sandboxes /\ f.roles \in SUBSET FileRoles /\ f.teams \in TS
  BY <1>1
<1>4. ASSUME NEW l \in LS
      PROVE  /\ [f EXCEPT !.list = l] \in [list : LS, sandbox : Sandboxes, roles : SUBSET FileRoles, teams : TS]
             /\ [f EXCEPT !.list = l].list = l
  BY <1>1
<1>5. ASSUME NEW m \in Modes
      PROVE  /\ [f EXCEPT !.sandbox.mode = m] \in [list : LS, sandbox : Sandboxes, roles : SUBSET FileRoles, teams : TS]
             /\ [f EXCEPT !.sandbox.mode = m].list = f.list
  BY <1>1, <1>2
<1>6. ASSUME NEW r \in SUBSET FileRoles
      PROVE  /\ [f EXCEPT !.roles = r] \in [list : LS, sandbox : Sandboxes, roles : SUBSET FileRoles, teams : TS]
             /\ [f EXCEPT !.roles = r].list = f.list
  BY <1>1
<1>7. ASSUME NEW t \in TS
      PROVE  /\ [f EXCEPT !.teams = t] \in [list : LS, sandbox : Sandboxes, roles : SUBSET FileRoles, teams : TS]
             /\ [f EXCEPT !.teams = t].list = f.list
  BY <1>1
<1>8. ASSUME NEW s \in Sandboxes
      PROVE  /\ [f EXCEPT !.sandbox = s] \in [list : LS, sandbox : Sandboxes, roles : SUBSET FileRoles, teams : TS]
             /\ [f EXCEPT !.sandbox = s].list = f.list /\ [f EXCEPT !.sandbox = s].sandbox = s
  BY <1>1
<1> QED
  BY <1>3, <1>4, <1>5, <1>6, <1>7, <1>8 DEF Files, LS, TS

\* Saving roles and teams leaves the list of agents alone.
LEMMA RolesAndTeams ==
  ASSUME NEW f \in Files, NEW r \in SUBSET FileRoles, NEW t \in Seq(TeamEntries)
  PROVE  [f EXCEPT !.roles = r, !.teams = t] \in Files /\ [f EXCEPT !.roles = r, !.teams = t].list = f.list
<1> DEFINE h == [f EXCEPT !.roles = r]
<1>1. h \in Files /\ h.list = f.list
  BY FileParts
<1>2. [h EXCEPT !.teams = t] \in Files /\ [h EXCEPT !.teams = t].list = h.list
  <2> HIDE DEF h
  <2> QED
    BY <1>1, FileParts
<1>3. [f EXCEPT !.roles = r, !.teams = t] = [h EXCEPT !.teams = t]
  OBVIOUS
<1> QED
  BY <1>1, <1>2, <1>3, Zenon

\* A file that cannot be read is as good as an empty one.
LEMMA EmptyFileOK ==
  EmptyFile \in Files /\ EmptyFile.list = <<>> /\ GoodList(<<>>) /\ HasDefault(<<>>)
<1>1. <<>> \in Seq(AgentEntries) /\ <<>> \in Seq(TeamEntries) /\ Len(<<>>) = 0
  OBVIOUS
<1>2. NoSection \in Sandboxes
  BY DEF NoSection, Sandboxes
<1> QED
  BY <1>1, <1>2 DEF EmptyFile, Files, GoodList, HasDefault

\* So is what a save begins with, whatever state the file is in.
LEMMA ReadRawOK ==
  ASSUME ConfigInv
  PROVE  ReadRaw \in Files /\ GoodList(ReadRaw.list) /\ (~undefaulted => HasDefault(ReadRaw.list))
<1>1. CASE broken
  BY <1>1, EmptyFileOK DEF ReadRaw
<1>2. CASE ~broken
  BY <1>2, DefaultOrNone DEF ReadRaw, ConfigInv, SomeAgentIsDefault
<1> QED
  BY <1>1, <1>2

\* The properties of a file and of what the gateway serves, from their kinds.
LEMMA FileTyped ==
  ASSUME NEW f \in Files
  PROVE  /\ \A i \in DOMAIN f.list : f.list[i] \in [id : FileAgents, default : BOOLEAN]
         /\ f.sandbox \in [mode : Modes \cup {Absent}, memory : {"given", Absent}]
         /\ f.roles \subseteq FileRoles
         /\ \A i \in DOMAIN f.teams : f.teams[i] \in [id : FileTeams, members : SUBSET (FileRoles \X FileAgents)]
<1>1. /\ f.list \in Seq(AgentEntries) /\ f.sandbox \in Sandboxes /\ f.roles \in SUBSET FileRoles
      /\ f.teams \in Seq(TeamEntries)
  BY FileParts
<1>2. \A i \in DOMAIN f.list : f.list[i] \in AgentEntries
  BY <1>1, ElementOfSeq
<1>3. \A i \in DOMAIN f.teams : f.teams[i] \in TeamEntries
  BY <1>1, ElementOfSeq
<1> QED
  BY <1>1, <1>2, <1>3 DEF AgentEntries, TeamEntries, Sandboxes

\* Saving a sound list of agents keeps the invariant.
LEMMA SaveAgentsOK ==
  ASSUME ConfigInv, NEW f \in Files, AsGood(ReadRaw.list, f.list), SaveAgents(f)
  PROVE  ConfigInv'
<1>1. /\ file' = f /\ broken' = FALSE /\ served' = f.list /\ byHand' = FALSE /\ saves' \in 0..MaxSaves
      /\ sandbox' = (IF f.sandbox = NoSection THEN sandbox ELSE f.sandbox)
      /\ undefaulted' = (undefaulted /\ Defaultless(f.list))
      /\ UNCHANGED <<up, route, seen, hand, starts>>
  BY ConfigFileAssumption DEF SaveAgents, WriteRaw, OnAgentReload, ConfigInv, ConfigTypeOK
<1>2. sandbox' \in [mode : Modes \cup {Absent}, memory : {"given", Absent}]
  BY <1>1, FileTyped DEF ConfigInv, ConfigTypeOK
<1>3. ConfigTypeOK'
  <2>1. undefaulted' \in BOOLEAN /\ broken' \in BOOLEAN /\ byHand' \in BOOLEAN
    BY <1>1
  <2> QED
    BY <1>1, <1>2, <2>1, FileTyped DEF ConfigInv, ConfigTypeOK
<1>4. GoodList(f.list)
  BY DEF AsGood
<1>5. SomeAgentIsDefault'
  <2>1. ~undefaulted => ~Defaultless(f.list)
    BY <1>4, ReadRawOK, DefaultOrNone DEF AsGood
  <2>2. undefaulted \in BOOLEAN
    BY DEF ConfigInv, ConfigTypeOK
  <2> QED
    BY <1>1, <2>1, <2>2, Zenon DEF SomeAgentIsDefault
<1> QED
  BY <1>1, <1>3, <1>4, <1>5 DEF ConfigInv, ServesTheFile

\* Saving roles and teams keeps it.
LEMMA SaveTeamsOK ==
  ASSUME ConfigInv, NEW f \in Files, f.list = ReadRaw.list, SaveTeams(f)
  PROVE  ConfigInv'
<1>1. /\ file' = f /\ broken' = FALSE /\ saves' \in 0..MaxSaves
      /\ undefaulted' = (undefaulted /\ Defaultless(f.list))
      /\ UNCHANGED <<up, served, sandbox, route, seen, byHand, hand, starts>>
  BY ConfigFileAssumption DEF SaveTeams, WriteRaw, gatewayState, ConfigInv, ConfigTypeOK
<1>2. ConfigTypeOK'
  <2>1. undefaulted' \in BOOLEAN /\ broken' \in BOOLEAN
    BY <1>1
  <2> QED
    BY <1>1, <2>1, FileTyped DEF ConfigInv, ConfigTypeOK
<1>3. GoodList(f.list) /\ (~undefaulted => HasDefault(f.list))
  BY ReadRawOK
<1>4. ServesTheFile'
  <2>1. CASE broken
    BY <1>1, <2>1 DEF ReadRaw, EmptyFile, ServesTheFile
  <2>2. CASE ~broken
    BY <1>1, <2>2 DEF ReadRaw, ServesTheFile, ConfigInv
  <2> QED
    BY <2>1, <2>2
<1>5. SomeAgentIsDefault'
  <2>1. ~undefaulted => ~Defaultless(f.list)
    BY <1>3, DefaultOrNone
  <2> QED
    BY <1>1, <2>1, Zenon DEF SomeAgentIsDefault
<1> QED
  BY <1>1, <1>2, <1>3, <1>4, <1>5 DEF ConfigInv

\* The lists the handlers of agents write.
LEMMA CreatedList ==
  ASSUME NEW l, GoodList(l), NEW a \in FileAgents \ Named(l), NEW d \in BOOLEAN
  PROVE  AsGood(l, IF Len(Append(l, Entry(a, d))) = 1 THEN MarkFirst(Append(l, Entry(a, d)))
                                                       ELSE Append(l, Entry(a, d)))
<1> DEFINE n == Append(l, Entry(a, d))
<1>1. l \in Seq(AgentEntries) /\ Len(l) \in Nat /\ DOMAIN l = 1..Len(l)
      /\ \A i \in 1..Len(l) : l[i] \in AgentEntries /\ l[i].id # a
  BY AgentEntriesTyped DEF GoodList, Named
<1>2. Entry(a, d) \in AgentEntries /\ Entry(a, d).id = a
  BY EntryFacts
<1>3. /\ n \in Seq(AgentEntries) /\ Len(n) = Len(l) + 1 /\ n[Len(l) + 1] = Entry(a, d)
      /\ \A i \in 1..Len(l) : n[i] = l[i]
  BY <1>1, <1>2, AppendProperties
<1> HIDE DEF n
<1>4. CASE Len(n) = 1
  <2>1. Len(l) = 0 /\ n[1] = Entry(a, d) /\ DOMAIN n = 1..1
    BY <1>1, <1>3, <1>4, AgentEntriesTyped
  <2>2. MarkFirst(n) = [n EXCEPT ![1] = [n[1] EXCEPT !.default = TRUE]]
    BY DEF MarkFirst
  <2>3. [n[1] EXCEPT !.default = TRUE] \in AgentEntries /\ [n[1] EXCEPT !.default = TRUE].default
    BY <1>2, <2>1, EntryFacts
  <2> DEFINE e == [n[1] EXCEPT !.default = TRUE]
             m == MarkFirst(n)
  <2>4. m = [n EXCEPT ![1] = e] /\ e \in AgentEntries /\ e.default
    BY <2>2, <2>3
  <2> HIDE DEF e, m
  <2>5. m \in Seq(AgentEntries) /\ Len(m) = 1 /\ m[1] = e
    BY <1>3, <1>4, <2>1, <2>4, ExceptSeq
  <2>6. GoodList(m)
    <3>1. \A i, j \in 1..Len(m) : i = j
      BY <2>5
    <3> QED
      BY <2>5, <3>1 DEF GoodList
  <2>7. HasDefault(m)
    BY <2>4, <2>5 DEF HasDefault
  <2>8. AsGood(l, m)
    BY <2>6, <2>7 DEF AsGood
  <2> QED
    BY <1>4, <2>8 DEF n, m
<1>5. CASE Len(n) # 1
  <2>1. ASSUME HasDefault(l) PROVE HasDefault(n)
    <3>1. PICK i \in 1..Len(l) : l[i].default
      BY <1>1, <1>3, <1>5, <2>1 DEF HasDefault
    <3> QED
      BY <1>1, <1>3, <3>1 DEF HasDefault
  <2>2. GoodList(n)
    BY <1>1, <1>2, <1>3 DEF GoodList
  <2>3. AsGood(l, n)
    BY <2>1, <2>2 DEF AsGood
  <2> QED
    BY <1>5, <2>3 DEF n
<1> QED
  BY <1>4, <1>5

\* A list of which no id changes, and that keeps a default.
LEMMA SameIds ==
  ASSUME NEW l, GoodList(l), NEW m, DOMAIN m = 1..Len(l), m = [i \in 1..Len(l) |-> m[i]],
         \A i \in 1..Len(l) : m[i] \in AgentEntries /\ m[i].id = l[i].id,
         HasDefault(l) /\ Len(l) # 0 => \E i \in 1..Len(l) : m[i].default
  PROVE  AsGood(l, m)
<1>1. m \in Seq(AgentEntries) /\ Len(m) = Len(l)
  <2>1. Len(l) \in Nat
    BY AgentEntriesTyped DEF GoodList
  <2>2. m \in [1..Len(l) -> AgentEntries]
    OBVIOUS
  <2> QED
    BY <2>1, <2>2, SeqDef
<1> QED
  BY <1>1 DEF GoodList, HasDefault, AsGood

\* An update of one agent, which may make it the default, leaves the list sound.
LEMMA UpdatedList ==
  ASSUME NEW l, GoodList(l), NEW a \in Named(l), NEW d \in BOOLEAN
  PROVE  AsGood(l, [l EXCEPT ![PlaceOf(l, a)].default = @ \/ d])
<1> DEFINE p == PlaceOf(l, a)
           e == [l[p] EXCEPT !.default = l[p].default \/ d]
           m == [l EXCEPT ![p] = e]
<1>1. DOMAIN l = 1..Len(l) /\ \A i \in 1..Len(l) : l[i] \in AgentEntries /\ l[i].default \in BOOLEAN
  BY AgentEntriesTyped DEF GoodList
<1>2. p \in 1..Len(l)
  BY <1>1 DEF PlaceOf, Named
<1> HIDE DEF p
<1>3. (l[p].default \/ d) \in BOOLEAN
  OBVIOUS
<1>4. e \in AgentEntries /\ e.id = l[p].id /\ (l[p].default => e.default)
  <2> DEFINE b == l[p].default \/ d
  <2>1. b \in BOOLEAN
    BY <1>3
  <2>2. l[p].default => b
    OBVIOUS
  <2> HIDE DEF b
  <2>3. [l[p] EXCEPT !.default = b] \in AgentEntries /\ [l[p] EXCEPT !.default = b].id = l[p].id
        /\ [l[p] EXCEPT !.default = b].default = b
    BY <1>1, <1>2, <2>1, EntryFacts
  <2> QED
    BY <2>2, <2>3 DEF b
<1> HIDE DEF e
<1>5. DOMAIN m = 1..Len(l) /\ m = [i \in 1..Len(l) |-> m[i]]
      /\ \A i \in 1..Len(l) : m[i] = IF i = p THEN e ELSE l[i]
  BY <1>1, <1>2
<1> HIDE DEF m
<1>6. ASSUME HasDefault(l), Len(l) # 0 PROVE \E i \in 1..Len(l) : m[i].default
  <2>1. PICK i \in 1..Len(l) : l[i].default
    BY <1>6 DEF HasDefault
  <2> QED
    BY <1>4, <1>5, <2>1
<1>7. AsGood(l, m)
  BY <1>1, <1>4, <1>5, <1>6, SameIds
<1> QED
  BY <1>7 DEF m, e, p

\* Choosing a default leaves exactly one.
LEMMA DefaultMoved ==
  ASSUME NEW l, GoodList(l), NEW a \in Named(l)
  PROVE  AsGood(l, [i \in DOMAIN l |-> Entry(l[i].id, l[i].id = a)])
<1> DEFINE m == [i \in DOMAIN l |-> Entry(l[i].id, l[i].id = a)]
<1>1. DOMAIN l = 1..Len(l) /\ \A i \in 1..Len(l) : l[i] \in AgentEntries /\ l[i].id \in FileAgents
  BY AgentEntriesTyped DEF GoodList
<1>2. PICK p \in 1..Len(l) : l[p].id = a
  BY <1>1 DEF Named
<1>3. ASSUME NEW i \in 1..Len(l)
      PROVE  m[i] \in AgentEntries /\ m[i].id = l[i].id /\ (m[i].default <=> l[i].id = a)
  <2> DEFINE b == l[i].id = a
  <2>1. b \in BOOLEAN
    OBVIOUS
  <2>2. m[i] = Entry(l[i].id, b)
    BY <1>1
  <2>3. b <=> l[i].id = a
    OBVIOUS
  <2> HIDE DEF b, m
  <2>4. m[i] \in AgentEntries /\ m[i].id = l[i].id /\ m[i].default = b
    BY <1>1, <2>1, <2>2, EntryFacts
  <2> QED
    BY <2>3, <2>4
<1>4. DOMAIN m = 1..Len(l) /\ m = [i \in 1..Len(l) |-> m[i]]
  BY <1>1
<1> HIDE DEF m
<1>5. AsGood(l, m)
  BY <1>2, <1>3, <1>4, SameIds
<1> QED
  BY <1>5 DEF m

\* A deletion hands the default on if it takes the default away.
LEMMA DeletedList ==
  ASSUME NEW l, GoodList(l), NEW a \in Named(l), Len(l) > 1
  PROVE  AsGood(l, IF l[PlaceOf(l, a)].default THEN MarkFirst(Others(l, a)) ELSE Others(l, a))
<1> DEFINE p == PlaceOf(l, a)
           r == RemoveAt(l, p)
<1>1. l \in Seq(AgentEntries) /\ DOMAIN l = 1..Len(l) /\ Len(l) \in Nat
      /\ \A i \in 1..Len(l) : l[i] \in AgentEntries
  BY AgentEntriesTyped DEF GoodList
<1>2. p \in 1..Len(l)
  BY <1>1 DEF PlaceOf, Named
<1> HIDE DEF p
<1>3. /\ r \in Seq(AgentEntries) /\ Len(r) = Len(l) - 1
      /\ \A j \in 1..Len(l)-1 : r[j] = IF j < p THEN l[j] ELSE l[j+1]
  BY <1>1, <1>2, RemoveAtFacts
<1>4. \A j \in 1..Len(l) : j # p => \E k \in 1..Len(r) : r[k] = l[j]
  BY <1>1, <1>2, RemoveAtElements
<1> HIDE DEF r
<1>5. \A i, j \in 1..Len(r) : r[i].id = r[j].id => i = j
  <2> SUFFICES ASSUME NEW i \in 1..Len(r), NEW j \in 1..Len(r), r[i].id = r[j].id PROVE i = j
    OBVIOUS
  <2>1. i \in 1..Len(l)-1 /\ j \in 1..Len(l)-1
    BY <1>3
  <2>2. /\ r[i] = IF i < p THEN l[i] ELSE l[i+1]
        /\ r[j] = IF j < p THEN l[j] ELSE l[j+1]
    BY <1>3, <2>1
  <2>3. i \in 1..Len(l) /\ j \in 1..Len(l) /\ i+1 \in 1..Len(l) /\ j+1 \in 1..Len(l)
    BY <1>1, <2>1
  <2> QED
    BY <1>1, <1>2, <2>1, <2>2, <2>3 DEF GoodList
<1>6. CASE l[p].default
  <2> DEFINE e == [r[1] EXCEPT !.default = TRUE]
             m == [r EXCEPT ![1] = e]
  <2>1. 1 \in 1..Len(r) /\ DOMAIN r = 1..Len(r) /\ \A i \in 1..Len(r) : r[i] \in AgentEntries
    BY <1>1, <1>3, AgentEntriesTyped
  <2>2. e \in AgentEntries /\ e.id = r[1].id /\ e.default
    BY <2>1, EntryFacts
  <2> HIDE DEF e
  <2>3. m \in Seq(AgentEntries) /\ Len(m) = Len(r) /\ \A i \in 1..Len(r) : m[i] = IF i = 1 THEN e ELSE r[i]
    BY <1>3, <2>1, <2>2
  <2> HIDE DEF m
  <2>4. AsGood(l, m)
    BY <1>5, <2>1, <2>2, <2>3 DEF GoodList, HasDefault, AsGood
  <2>5. m = MarkFirst(Others(l, a))
    BY DEF m, e, r, p, MarkFirst, Others
  <2> QED
    BY <1>6, <2>4, <2>5 DEF p
<1>7. CASE ~l[p].default
  <2>1. ASSUME HasDefault(l) PROVE HasDefault(r)
    <3>1. PICK i \in 1..Len(l) : l[i].default
      BY <1>1, <2>1 DEF HasDefault
    <3>2. PICK k \in 1..Len(r) : r[k] = l[i]
      BY <1>4, <1>7, <3>1
    <3> QED
      BY <3>1, <3>2 DEF HasDefault
  <2>2. GoodList(r)
    BY <1>3, <1>5 DEF GoodList
  <2>3. AsGood(l, r)
    BY <2>1, <2>2 DEF AsGood
  <2> QED
    BY <1>7, <2>3 DEF r, p, Others
<1> QED
  BY <1>6, <1>7

\* The list of teams without one of them.
LEMMA OtherTeams ==
  ASSUME NEW l \in Seq(TeamEntries), NEW t, \E i \in DOMAIN l : l[i].id = t
  PROVE  Others(l, t) \in Seq(TeamEntries)
<1>1. DOMAIN l = 1..Len(l)
  BY ElementOfSeq
<1>2. PlaceOf(l, t) \in 1..Len(l)
  BY <1>1 DEF PlaceOf
<1> QED
  BY <1>2, RemoveAtFacts DEF Others
\* The default agent of a list is one of its agents, and the agent of SECURE_DEFAULTS if
\* it has none.
LEMMA DefaultIsAnAgent ==
  ASSUME NEW l, GoodList(l)
  PROVE  DefaultAgent(l) \in FileAgents
<1>1. l \in Seq(AgentEntries) /\ DOMAIN l = 1..Len(l) /\ Len(l) \in Nat /\ (l = <<>> <=> Len(l) = 0)
      /\ \A i \in 1..Len(l) : l[i].id \in FileAgents
  BY AgentEntriesTyped DEF GoodList
<1>2. CASE l = <<>>
  BY <1>2, ConfigFileAssumption DEF DefaultAgent
<1>3. CASE Defaultless(l)
  BY <1>1, <1>3 DEF DefaultAgent, Defaultless
<1>4. CASE l # <<>> /\ ~Defaultless(l)
  <2> DEFINE D == {i \in 1..Len(l) : l[i].default}
             first == CHOOSE i \in DOMAIN l : l[i].default /\ \A j \in 1..i-1 : ~l[j].default
  <2>1. D \in SUBSET Nat /\ D # {}
    BY <1>1, <1>4 DEF Defaultless
  <2>2. PICK m \in D : \A k \in D : m <= k
    BY <2>1, HasSmallest
  <2>3. m \in 1..Len(l) /\ l[m].default /\ \A j \in 1..m-1 : ~l[j].default
    BY <1>1, <2>2
  <2>4. first \in 1..Len(l)
    BY <1>1, <2>3
  <2>5. DefaultAgent(l) = l[first].id
    BY <1>1, <1>4, <2>3 DEF DefaultAgent
  <2> QED
    BY <1>1, <2>4, <2>5
<1> QED
  BY <1>2, <1>3, <1>4

\* The list the wizard writes is sound.
LEMMA MainListOK ==
  LET l == <<Entry(MainAgent, TRUE)>> IN l \in Seq(AgentEntries) /\ GoodList(l) /\ HasDefault(l) /\ l # <<>>
<1>1. ASSUME NEW e \in AgentEntries, e.default
      PROVE  /\ <<e>> \in Seq(AgentEntries) /\ GoodList(<<e>>) /\ HasDefault(<<e>>)
             /\ <<e>> # <<>>
  <2> DEFINE l == <<e>>
  <2>1. l \in Seq(AgentEntries) /\ Len(l) = 1 /\ l[1] = e
    OBVIOUS
  <2> HIDE DEF l
  <2>2. HasDefault(l)
    BY <1>1, <2>1 DEF HasDefault
  <2>3. \A i, j \in 1..Len(l) : i = j
    BY <2>1
  <2>4. l # <<>>
    BY <2>1, EmptySeq
  <2> QED
    BY <2>1, <2>2, <2>3, <2>4 DEF GoodList, l
<1>2. Entry(MainAgent, TRUE) \in AgentEntries /\ Entry(MainAgent, TRUE).default
  BY ConfigFileAssumption, EntryFacts
<1> QED
  BY <1>1, <1>2

\* The invariant holds of the files the gateway may find.
LEMMA ConfigInitOK == ConfigInit => ConfigInv
<1> SUFFICES ASSUME ConfigInit PROVE ConfigInv
  OBVIOUS
<1>1. MainAgent \in FileAgents /\ MaxSaves \in Nat /\ MaxHand \in Nat /\ MaxStarts \in Nat
  BY ConfigFileAssumption
<1> DEFINE l == <<Entry(MainAgent, TRUE)>>
<1>2. l \in Seq(AgentEntries) /\ l # <<>>
  BY MainListOK
<1>4. GoodList(l) /\ ~Defaultless(l)
  BY MainListOK, DefaultOrNone
<1> HIDE DEF l
<1> DEFINE sb == [mode |-> "all", memory |-> "given"]
<1>5. sb \in Sandboxes /\ NoSection \in Sandboxes /\ sb.mode = "all" /\ NoSection.mode = Absent
  BY DEF Sandboxes, NoSection, Absent, Modes
<1>6. WizardFile \in Files /\ WizardFile.list = l /\ WizardFile.sandbox = sb
  <2>1. <<>> \in Seq(TeamEntries)
    OBVIOUS
  <2> QED
    BY <1>2, <1>5, <2>1 DEF WizardFile, Files, l
<1>7. file \in Files /\ file.list = l /\ file.sandbox \in Sandboxes
  <2>1. file = WizardFile \/ file = [WizardFile EXCEPT !.sandbox = NoSection]
    BY DEF ConfigInit
  <2> QED
    <3>1. /\ [WizardFile EXCEPT !.sandbox = NoSection] \in Files
          /\ [WizardFile EXCEPT !.sandbox = NoSection].list = WizardFile.list
          /\ [WizardFile EXCEPT !.sandbox = NoSection].sandbox = NoSection
      BY <1>5, <1>6, FileParts
    <3> QED
      BY <1>5, <1>6, <2>1, <3>1
<1>8. LoadedList(file) = l /\ served = l
  BY <1>2, <1>7 DEF ConfigInit, LoadedList
<1>9. LoadedSandbox(file) \in Sandboxes
  BY <1>7 DEF LoadedSandbox, Sandboxes, Modes
<1>10. DefaultAgent(l) \in FileAgents
  BY <1>4, DefaultIsAnAgent
<1>11. ConfigTypeOK
  <2>1. /\ sandbox \in Sandboxes /\ route \in FileAgents /\ broken = FALSE /\ up = TRUE /\ byHand = FALSE
        /\ undefaulted = FALSE /\ saves = 0 /\ hand = 0 /\ starts = 0
        /\ seen \in [Tabs -> [agents : SUBSET FileAgents, roles : SUBSET FileRoles, teams : SUBSET FileTeams]]
    BY <1>8, <1>9, <1>10 DEF ConfigInit
  <2>2. \A i \in DOMAIN served : served[i] \in [id : FileAgents, default : BOOLEAN]
    BY <1>2, <1>8, AgentEntriesTyped DEF AgentEntries
  <2> QED
    <3>1. saves \in 0..MaxSaves /\ hand \in 0..MaxHand /\ starts \in 0..MaxStarts
      BY <1>1, <2>1
    <3>2. broken \in BOOLEAN /\ up \in BOOLEAN /\ byHand \in BOOLEAN /\ undefaulted \in BOOLEAN
      BY <2>1
    <3> QED
      BY <1>7, <2>1, <2>2, <3>1, <3>2, FileTyped DEF ConfigTypeOK, Sandboxes
<1> QED
  BY <1>4, <1>7, <1>8, <1>11 DEF ConfigInv, ServesTheFile, SomeAgentIsDefault

\* A role that is renamed in a team is a role of the file.
LEMMA RenamedOK ==
  ASSUME NEW e \in TeamEntries, NEW r \in FileRoles, NEW n \in FileRoles
  PROVE  Renamed(e, r, n) \in TeamEntries
<1> DEFINE M == {<<IF m[1] = r THEN n ELSE m[1], m[2]>> : m \in e.members}
<1>1. e.id \in FileTeams /\ e.members \in SUBSET (FileRoles \X FileAgents)
  BY DEF TeamEntries
<1>2. M \in SUBSET (FileRoles \X FileAgents)
  BY <1>1
<1> HIDE DEF M
<1>3. [e EXCEPT !.members = M] \in TeamEntries
  BY <1>2 DEF TeamEntries
<1> QED
  BY <1>3 DEF Renamed, M

\* So is a file that was edited by hand.
LEMMA EditedOK == ASSUME ConfigInv, EditByHand PROVE ConfigInv'
<1>1. /\ hand' \in 0..MaxHand /\ byHand' = TRUE
      /\ UNCHANGED <<up, served, sandbox, route, seen, saves, starts>>
  <2>1. hand \in 0..MaxHand /\ MaxHand \in Nat
    BY ConfigFileAssumption DEF ConfigInv, ConfigTypeOK
  <2>2. hand < MaxHand /\ hand' = hand + 1 /\ byHand' = TRUE
        /\ UNCHANGED <<gatewayState, seen, saves, starts>>
    BY DEF EditByHand
  <2>3. hand' \in 0..MaxHand
    BY <2>1, <2>2
  <2> QED
    BY <2>2, <2>3 DEF gatewayState
<1>2. CASE broken' = TRUE /\ UNCHANGED <<file, undefaulted>>
  <2>1. ConfigTypeOK'
    BY <1>1, <1>2 DEF ConfigInv, ConfigTypeOK
  <2> QED
    BY <1>1, <1>2, <2>1 DEF ConfigInv, ServesTheFile, SomeAgentIsDefault
<1>3. ASSUME NEW list \in HandLists, NEW section \in {file.sandbox, NoSection}, broken' = FALSE,
             file' = [file EXCEPT !.list = list, !.sandbox = section],
             undefaulted' = Defaultless(list)
      PROVE  ConfigInv'
  <2>1. list \in Seq(AgentEntries) /\ DOMAIN list = 1..Len(list)
    <3>1. list \in Seq(AgentEntries)
      BY HandListsAssumption DEF AgentEntries
    <3> QED
      BY <3>1, AgentEntriesTyped
  <2>2. GoodList(list)
    BY <2>1, HandListsAssumption DEF GoodList
  <2>3. section \in Sandboxes
    BY FileParts DEF ConfigInv, NoSection, Sandboxes
  <2> DEFINE h == [file EXCEPT !.list = list]
  <2>4. h \in Files /\ h.list = list
    BY <2>1, FileParts DEF ConfigInv
  <2>5. file' = [h EXCEPT !.sandbox = section]
    BY <1>3
  <2> HIDE DEF h
  <2>6. file' \in Files /\ file'.list = list
    BY <2>3, <2>4, <2>5, FileParts
  <2>7. undefaulted' \in BOOLEAN /\ broken' \in BOOLEAN /\ byHand' \in BOOLEAN
    BY <1>1, <1>3 DEF Defaultless
  <2>8. ConfigTypeOK'
    BY <1>1, <2>6, <2>7, FileTyped DEF ConfigInv, ConfigTypeOK
  <2>9. SomeAgentIsDefault'
    BY <1>3, <2>6 DEF SomeAgentIsDefault
  <2> QED
    BY <1>1, <2>2, <2>6, <2>8, <2>9 DEF ConfigInv, ServesTheFile
<1> QED
  BY <1>2, <1>3 DEF EditByHand

\* Every form, hand edit and start keeps the invariant.
LEMMA ConfigStepOK == ConfigInv /\ [ConfigNext]_configVars => ConfigInv'
<1> SUFFICES ASSUME ConfigInv, [ConfigNext]_configVars PROVE ConfigInv'
  OBVIOUS
<1> DEFINE raw == ReadRaw
<1>1. /\ raw \in Files /\ GoodList(raw.list) /\ raw.list \in Seq(AgentEntries)
      /\ raw.roles \in SUBSET FileRoles
      /\ raw.teams \in Seq(TeamEntries)
  BY ReadRawOK, FileParts
<1>2. ASSUME NEW l, AsGood(raw.list, l), SaveAgents([raw EXCEPT !.list = l]) PROVE ConfigInv'
  <2>1. l \in Seq(AgentEntries)
    BY <1>2 DEF AsGood, GoodList
  <2>2. [raw EXCEPT !.list = l] \in Files /\ [raw EXCEPT !.list = l].list = l
    BY <1>1, <2>1, FileParts
  <2> QED
    BY <1>2, <2>2, SaveAgentsOK
<1>3. ASSUME NEW m \in Modes, PutDefaults(m) PROVE ConfigInv'
  <2>1. [raw EXCEPT !.sandbox.mode = m] \in Files /\ [raw EXCEPT !.sandbox.mode = m].list = raw.list
    BY <1>1, FileParts
  <2> QED
    BY <1>1, <1>3, <2>1, SaveAgentsOK DEF PutDefaults, AsGood
<1>4. ASSUME NEW a \in FileAgents, NEW d \in BOOLEAN, CreateAgent(a, d) PROVE ConfigInv'
  BY <1>1, <1>2, <1>4, CreatedList DEF CreateAgent
<1>5. ASSUME NEW a \in FileAgents, NEW d \in BOOLEAN, UpdateAgent(a, d) PROVE ConfigInv'
  BY <1>1, <1>2, <1>5, UpdatedList DEF UpdateAgent
<1>6. ASSUME NEW a, DeleteAgent(a) PROVE ConfigInv'
  <2> DEFINE l == raw.list
             n == IF l[PlaceOf(l, a)].default THEN MarkFirst(Others(l, a)) ELSE Others(l, a)
  <2>1. a \in Named(l) /\ Len(l) > 1 /\ SaveAgents([raw EXCEPT !.list = n])
    BY <1>6 DEF DeleteAgent
  <2>2. AsGood(l, n)
    BY <1>1, <2>1, DeletedList
  <2> HIDE DEF n
  <2> QED
    BY <1>2, <2>1, <2>2
<1>7. ASSUME NEW a, SetDefault(a) PROVE ConfigInv'
  <2> DEFINE l == raw.list
             n == [i \in DOMAIN l |-> Entry(l[i].id, l[i].id = a)]
  <2>1. a \in Named(l) /\ SaveAgents([raw EXCEPT !.list = n])
    BY <1>7 DEF SetDefault
  <2>2. AsGood(l, n)
    BY <1>1, <2>1, DefaultMoved
  <2> HIDE DEF n
  <2> QED
    BY <1>2, <2>1, <2>2
<1>8. ASSUME NEW r \in SUBSET FileRoles, SaveTeams([raw EXCEPT !.roles = r]) PROVE ConfigInv'
  <2>1. [raw EXCEPT !.roles = r] \in Files /\ [raw EXCEPT !.roles = r].list = raw.list
    BY <1>1, FileParts
  <2> QED
    BY <1>8, <2>1, SaveTeamsOK
<1>9. ASSUME NEW t \in Seq(TeamEntries), SaveTeams([raw EXCEPT !.teams = t]) PROVE ConfigInv'
  <2>1. [raw EXCEPT !.teams = t] \in Files /\ [raw EXCEPT !.teams = t].list = raw.list
    BY <1>1, FileParts
  <2> QED
    BY <1>9, <2>1, SaveTeamsOK
<1>10. ASSUME NEW r \in FileRoles, CreateRole(r) PROVE ConfigInv'
  BY <1>1, <1>8, <1>10 DEF CreateRole
<1>11. ASSUME NEW r, DeleteRole(r) PROVE ConfigInv'
  BY <1>1, <1>8, <1>11 DEF DeleteRole
<1>12. ASSUME NEW r \in FileRoles, NEW n \in FileRoles, RenameRole(r, n) PROVE ConfigInv'
  <2> DEFINE rs == (raw.roles \ {r}) \cup {n}
             ts == [i \in DOMAIN raw.teams |-> Renamed(raw.teams[i], r, n)]
  <2>1. rs \in SUBSET FileRoles
    BY <1>1
  <2>2. ts \in Seq(TeamEntries)
    <3>1. DOMAIN raw.teams = 1..Len(raw.teams) /\ Len(raw.teams) \in Nat
          /\ \A i \in 1..Len(raw.teams) : raw.teams[i] \in TeamEntries
      BY <1>1, ElementOfSeq
    <3>2. \A e \in TeamEntries : Renamed(e, r, n) \in TeamEntries
      BY RenamedOK
    <3> QED
      BY <3>1, <3>2, SeqDef
  <2>3. SaveTeams([raw EXCEPT !.roles = rs, !.teams = ts])
    BY <1>12 DEF RenameRole
  <2> HIDE DEF rs, ts
  <2>4. [raw EXCEPT !.roles = rs, !.teams = ts] \in Files /\ [raw EXCEPT !.roles = rs, !.teams = ts].list = raw.list
    BY <1>1, <2>1, <2>2, RolesAndTeams
  <2> QED
    BY <2>3, <2>4, SaveTeamsOK
<1>13. ASSUME NEW t \in FileTeams, NEW members \in SUBSET (FileRoles \X FileAgents), StoreTeam(t, members)
       PROVE  ConfigInv'
  <2> DEFINE team == [id |-> t, members |-> members]
             exists == \E i \in DOMAIN raw.teams : raw.teams[i].id = t
             ts == IF exists THEN [i \in DOMAIN raw.teams |-> IF raw.teams[i].id = t THEN team ELSE raw.teams[i]]
                            ELSE Append(raw.teams, team)
  <2>1. DOMAIN raw.teams = 1..Len(raw.teams) /\ Len(raw.teams) \in Nat
        /\ \A i \in 1..Len(raw.teams) : raw.teams[i] \in TeamEntries
    BY <1>1, ElementOfSeq
  <2>2. team \in TeamEntries
    BY DEF TeamEntries
  <2> HIDE DEF team
  <2>3. [i \in DOMAIN raw.teams |-> IF raw.teams[i].id = t THEN team ELSE raw.teams[i]] \in Seq(TeamEntries)
    BY <2>1, <2>2, SeqDef
  <2>4. Append(raw.teams, team) \in Seq(TeamEntries)
    BY <1>1, <2>2
  <2>5. ts \in Seq(TeamEntries)
    BY <2>3, <2>4
  <2>6. SaveTeams([raw EXCEPT !.teams = ts])
    BY <1>13 DEF StoreTeam, team
  <2> HIDE DEF ts
  <2> QED
    BY <1>9, <2>5, <2>6
<1>14. ASSUME NEW t, DropTeam(t) PROVE ConfigInv'
  BY <1>1, <1>9, <1>14, OtherTeams DEF DropTeam
<1>15. ASSUME NEW p \in Tabs, LoadTab(p) PROVE ConfigInv'
  <2>1. /\ Named(raw.list) \in SUBSET FileAgents
        /\ {raw.teams[i].id : i \in DOMAIN raw.teams} \in SUBSET FileTeams
    <3>1. \A i \in DOMAIN raw.teams : raw.teams[i] \in TeamEntries
      BY <1>1, ElementOfSeq
    <3> QED
      BY <1>1, <3>1, AgentEntriesTyped DEF Named, TeamEntries
  <2> DEFINE s == [agents |-> Named(raw.list), roles |-> raw.roles, teams |-> {raw.teams[i].id : i \in DOMAIN raw.teams}]
  <2>2. s \in [agents : SUBSET FileAgents, roles : SUBSET FileRoles, teams : SUBSET FileTeams]
    BY <1>1, <2>1
  <2>3. seen' = [seen EXCEPT ![p] = s] /\ UNCHANGED <<file, broken, up, served, sandbox, route,
                                                      byHand, undefaulted, saves, hand, starts>>
    BY <1>15 DEF LoadTab, gatewayState, configBounds
  <2> HIDE DEF s
  <2>4. ConfigTypeOK'
    BY <2>2, <2>3 DEF ConfigInv, ConfigTypeOK
  <2> QED
    BY <2>3, <2>4 DEF ConfigInv, ServesTheFile, SomeAgentIsDefault
<1>16. CASE EditByHand
  BY <1>16, EditedOK
<1>17. CASE Stop
  <2>1. ConfigTypeOK'
    <3>1. /\ up' = FALSE /\ starts < MaxStarts /\ starts' = starts + 1
          /\ UNCHANGED <<file, broken, served, sandbox, route, seen, byHand, undefaulted, saves, hand>>
      BY <1>17 DEF Stop
    <3>2. starts' \in 0..MaxStarts
      BY <3>1, ConfigFileAssumption DEF ConfigInv, ConfigTypeOK
    <3> QED
      BY <3>1, <3>2 DEF ConfigInv, ConfigTypeOK
  <2> QED
    BY <1>17, <2>1 DEF Stop, ConfigInv, ServesTheFile, SomeAgentIsDefault
<1>18. CASE BootGateway
  <2>1. /\ up' = TRUE /\ served' = LoadedList(file) /\ sandbox' = LoadedSandbox(file)
        /\ route' = DefaultAgent(LoadedList(file)) /\ byHand' = FALSE
        /\ UNCHANGED <<file, broken, seen, undefaulted, saves, hand, starts>>
    BY <1>18 DEF BootGateway, configBounds
  <2>2. file.sandbox \in Sandboxes /\ GoodList(file.list) /\ file.list \in Seq(AgentEntries)
    BY FileParts DEF ConfigInv
  <2>3. LoadedSandbox(file) \in Sandboxes
    BY <2>2 DEF LoadedSandbox, Sandboxes, Modes
  <2>4. LoadedList(file) \in Seq(AgentEntries) /\ GoodList(LoadedList(file))
    BY <2>2, MainListOK DEF LoadedList
  <2>5. DefaultAgent(LoadedList(file)) \in FileAgents
    BY <2>4, DefaultIsAnAgent
  <2>6. \A i \in DOMAIN served' : served'[i] \in [id : FileAgents, default : BOOLEAN]
    BY <2>1, <2>4, AgentEntriesTyped DEF AgentEntries
  <2>7. ConfigTypeOK'
    BY <2>1, <2>3, <2>5, <2>6 DEF ConfigInv, ConfigTypeOK, Sandboxes
  <2> QED
    BY <2>1, <2>7 DEF ConfigInv, ServesTheFile, LoadedList, SomeAgentIsDefault
<1>19. CASE UNCHANGED configVars
  <2>1. ConfigTypeOK'
    BY <1>19 DEF configVars, ConfigInv, ConfigTypeOK
  <2> QED
    BY <1>19, <2>1 DEF configVars, ConfigInv, ServesTheFile, SomeAgentIsDefault
<1>20. \A p \in Tabs : seen[p].agents \in SUBSET FileAgents /\ seen[p].roles \in SUBSET FileRoles
  BY DEF ConfigInv, ConfigTypeOK
<1>21. ASSUME NEW p \in Tabs, SaveTeam(p) PROVE ConfigInv'
  <2>1. PICK t \in FileTeams, r \in seen[p].roles, a \in seen[p].agents : StoreTeam(t, {<<r, a>>})
    BY <1>21 DEF SaveTeam
  <2>2. {<<r, a>>} \in SUBSET (FileRoles \X FileAgents)
    BY <1>20
  <2> QED
    BY <1>13, <2>1, <2>2
<1>22. ASSUME NEW p \in Tabs, SaveAgent(p) \/ RemoveAgent(p) \/ MakeDefault(p) \/ RemoveRole(p) \/ RemoveTeam(p)
       PROVE  ConfigInv'
  BY <1>4, <1>5, <1>6, <1>7, <1>11, <1>14, <1>22 DEF SaveAgent, RemoveAgent, MakeDefault,
     RemoveRole, RemoveTeam
<1>23. CASE SaveDefaults \/ SaveRole
  BY <1>3, <1>10, <1>23 DEF SaveDefaults, SaveRole
<1> QED
  BY <1>12, <1>15, <1>16, <1>17, <1>18, <1>19, <1>21, <1>22, <1>23 DEF ConfigNext

\* Files stay sound, and a running gateway serves what it has read or written.
THEOREM ConfigInvariance == ConfigSpec => []ConfigInv
<1> QED
  BY ConfigInitOK, ConfigStepOK, PTL DEF ConfigSpec

\* The invariant has the run's invariant as two of its parts.
LEMMA ConfigIsSound == ConfigInv => FileIsSound
BY DEF ConfigInv, FileIsSound

\* Whatever forms are saved, however out of date, and over whatever lists an edit by hand left, with
\* or without a default: agents lack a default only after such an edit, until a form makes one the
\* default, and a running gateway serves what the file says from each save and start until the
\* next edit by hand (config-manager.ts, agent-routes.ts).
THEOREM FileStaysSound == ConfigSpec => []FileIsSound
<1> QED
  BY ConfigIsSound, ConfigInvariance, PTL

----------------------------------------------------------------------------
(***************************************************************************)
(* The unit of the daemon.                                                 *)
(***************************************************************************)

\* After the report of an install there is a unit, and the manager starts it: every
\* command that could take one of them away reports something else.
InstallHolds == told = "installed" => unit /\ enabled

DaemonInv == DaemonTypeOK /\ InstallHolds

\* An install on Linux that got to its last command got past the others.
LEMMA LastStage == \A reached \in 0..4 : reached = 4 => reached >= 1 /\ reached >= 3
  OBVIOUS

\* The invariant holds before the first command.
LEMMA DaemonInitOK == DaemonInit => DaemonInv
  BY DEF DaemonInit, DaemonInv, DaemonTypeOK, InstallHolds

\* Every command keeps it, complete or broken off.
LEMMA DaemonStepOK == DaemonInv /\ [DaemonNext]_daemonVars => DaemonInv'
<1> SUFFICES ASSUME DaemonInv, [DaemonNext]_daemonVars PROVE DaemonInv'
  OBVIOUS
<1> USE DEF DaemonInv, DaemonTypeOK, InstallHolds
<1>1. CASE InstallWindows
  <2>1. PICK created \in [1..3 -> BOOLEAN], ran \in [1..3 -> BOOLEAN], tried \in SUBSET (1..3) :
          /\ unit' = (unit \/ {i \in tried : created[i]} # {})
          /\ enabled' = unit'
          /\ byXml' = IF {i \in tried : created[i]} = {} THEN byXml ELSE {i \in tried : created[i]} = {1}
          /\ service' = IF \E i \in tried : created[i] /\ ran[i] THEN "on" ELSE service
          /\ Tells(IF \E i \in tried : created[i] /\ ran[i] THEN "installed" ELSE "failed")
    BY <1>1 DEF InstallWindows
  <2>2. unit' \in BOOLEAN /\ enabled' = unit' /\ service' \in {"off", "on", "again"}
    BY <2>1
  <2>6. byXml' \in BOOLEAN
    BY <2>1
  <2>3. told' \in {"installed", "failed"} /\ UNCHANGED <<platform, sleeping>>
    BY <2>1 DEF Tells
  <2>4. CASE \E i \in tried : created[i] /\ ran[i]
    <3>1. unit' = TRUE /\ enabled' = TRUE
      BY <2>1, <2>4
    <3> QED
      BY <2>2, <2>3, <2>6, <3>1
  <2>5. CASE ~ \E i \in tried : created[i] /\ ran[i]
    <3>1. told' = "failed"
      BY <2>1, <2>5 DEF Tells
    <3> QED
      BY <2>2, <2>3, <2>6, <3>1
  <2> QED
    BY <2>4, <2>5
<1>2. CASE InstallLinux
  <2>1. PICK reached \in 0..4 :
          /\ unit' = (unit \/ reached >= 1)
          /\ enabled' = (enabled \/ reached >= 3)
          /\ service' = IF reached = 4 THEN "on" ELSE service
          /\ Tells(IF reached = 4 THEN "installed" ELSE "failed")
    BY <1>2 DEF InstallLinux
  <2>2. told' = (IF reached = 4 THEN "installed" ELSE "failed") /\ UNCHANGED <<platform, sleeping, byXml>>
    BY <1>2, <2>1 DEF InstallLinux, Tells
  <2>3. unit' \in BOOLEAN /\ enabled' \in BOOLEAN /\ service' \in {"off", "on", "again"}
    BY <2>1
  <2>4. reached = 4 => unit' /\ enabled'
    BY <2>1, LastStage, Zenon
  <2>5. told' \in {"installed", "failed"} /\ (told' = "installed" => reached = 4)
    BY <2>2
  <2>6. (told' = "installed" => unit' /\ enabled') /\ {unit', enabled', byXml', sleeping'} \subseteq BOOLEAN
    BY <2>2, <2>3, <2>4, <2>5
  <2> QED
    BY <2>2, <2>3, <2>5, <2>6
<1>3. CASE InstallMacos
  BY <1>3 DEF InstallMacos, Tells
<1>4. CASE UninstallWindows
  BY <1>4 DEF UninstallWindows, Tells, Outcomes
<1>5. CASE UninstallLinux
  BY <1>5 DEF UninstallLinux, Tells, Outcomes
<1>6. CASE UninstallMacos
  BY <1>6 DEF UninstallMacos, Tells, Outcomes
<1>7. CASE StopDaemon
  BY <1>7 DEF StopDaemon, Tells, Stopped, Outcomes
<1>8. CASE StartDaemon
  BY <1>8 DEF StartDaemon, Tells, Outcomes
<1>9. CASE RestartDaemon
  BY <1>9 DEF RestartDaemon, Stopped, Outcomes
<1>10. CASE RestartEnds
  BY <1>10 DEF RestartEnds, Outcomes
<1>11. CASE StatusDaemon
  BY <1>11 DEF StatusDaemon, Tells
<1>12. CASE GatewayExits
  BY <1>12 DEF GatewayExits
<1>13. CASE ManagerRestarts
  BY <1>13 DEF ManagerRestarts
<1>14. CASE Reboot
  BY <1>14 DEF Reboot
<1>15. CASE UNCHANGED daemonVars
  BY <1>15 DEF daemonVars
<1> QED
  BY <1>1, <1>2, <1>3, <1>4, <1>5, <1>6, <1>7, <1>8, <1>9, <1>10, <1>11, <1>12, <1>13, <1>14,
     <1>15
  DEF DaemonNext

\* An install that was reported as done is in place.
LEMMA DaemonInvariance == DaemonSpec => []DaemonInv
  BY DaemonInitOK, DaemonStepOK, PTL DEF DaemonSpec

\* "Starts automatically on next login / boot" is true whenever it is said.
THEOREM InstalledBoots == DaemonSpec => BootsAfterInstall
<1>1. DaemonInv => [told = "installed" /\ Reboot => service' = "on"]_daemonVars
  BY DEF DaemonInv, InstallHolds, Reboot
<1> QED
  BY <1>1, DaemonInvariance, PTL DEF BootsAfterInstall

----------------------------------------------------------------------------
(***************************************************************************)
(* The workspace panel. The cap drops what has ended, so the invariant     *)
(* says of tasks that do not run yet that they are listed as pending; an   *)
(* entry is one task's alone while its id is not shared.                   *)
(***************************************************************************)

\* The tracker's tasks, one entry per id.
TaskEntries == [id : Ids, status : {"pending", "running"} \cup Final]
OnePerTask(l) == \A i, j \in 1..Len(l) : l[i].id = l[j].id => i = j

\* What RunningIsTracked needs of tasks that do not run yet: one that is created since the
\* last clear is listed as pending, and so is never a candidate for eviction.
LiveIsListed(l) ==
  \A t \in since : IdOf[t] \notin mixed =>
    /\ real[t] = "created" => \E i \in 1..Len(l) : l[i] = [id |-> IdOf[t], status |-> "pending"]
    /\ real[t] = "running" => \E i \in 1..Len(l) : l[i] = [id |-> IdOf[t], status |-> "running"]

\* ShownRunningRuns, of a list.
ShownRuns(l) ==
  \A i \in 1..Len(l) : l[i].status = "running" =>
    \E t \in PanelTasks : IdOf[t] = l[i].id /\ real[t] \in {"running", "rejected"}

\* Two tasks in progress under one id are noted as mixed.
SharingIsNoted ==
  \A t, u \in PanelTasks :
    t # u /\ IdOf[t] = IdOf[u] /\ InProgress(t) /\ InProgress(u) => IdOf[t] \in mixed

\* Only a lead's work ends without an event.
OnlyLeadsReject == \A t \in PanelTasks : real[t] = "rejected" => t \in LeadTasks

WorkspaceInv ==
  /\ WorkspaceTypeOK /\ listing \in Seq(TaskEntries) /\ OnePerTask(listing)
  /\ LiveIsListed(listing) /\ ShownRuns(listing) /\ CurrentTaskRuns /\ SharingIsNoted
  /\ OnlyLeadsReject

\* The invariant holds of an empty list.
LEMMA WorkspaceInitOK == WorkspaceInit => WorkspaceInv
<1> SUFFICES ASSUME WorkspaceInit PROVE WorkspaceInv
  OBVIOUS
<1>1. listing \in Seq(TaskEntries) /\ Len(listing) = 0 /\ DOMAIN listing = {}
  BY DEF WorkspaceInit
<1>2. activity \in [Workers -> [status : {"none", "idle", "thinking", "tool_use"}, task : Ids \cup {NoTask}]]
  BY DEF WorkspaceInit, Unlisted
<1> QED
  BY <1>1, <1>2, WorkspaceAssumption
  DEF WorkspaceInit, WorkspaceInv, WorkspaceTypeOK, OnePerTask, LiveIsListed, ShownRuns, SharingIsNoted,
      InProgress, CurrentTaskRuns, Unlisted, OnlyLeadsReject

\* What the tracker's list consists of.
LEMMA TaskEntriesTyped ==
  ASSUME NEW l \in Seq(TaskEntries)
  PROVE  /\ DOMAIN l = 1..Len(l)
         /\ \A i \in 1..Len(l) : l[i] \in TaskEntries /\ l[i].id \in Ids
                                 /\ l[i].status \in {"pending", "running"} \cup Final
<1>1. DOMAIN l = 1..Len(l) /\ \A i \in 1..Len(l) : l[i] \in TaskEntries
  BY ElementOfSeq
<1>2. \A e \in TaskEntries : e.id \in Ids /\ e.status \in {"pending", "running"} \cup Final
  BY DEF TaskEntries
<1> QED
  BY <1>1, <1>2

\* What is left of a listing without one of its entries.
LEMMA ShorterListing ==
  ASSUME NEW l \in Seq(TaskEntries), OnePerTask(l), NEW i \in 1..Len(l)
  PROVE  /\ RemoveAt(l, i) \in Seq(TaskEntries) /\ OnePerTask(RemoveAt(l, i))
         /\ \A j \in 1..Len(l) : j # i => \E k \in 1..Len(RemoveAt(l, i)) : RemoveAt(l, i)[k] = l[j]
         /\ \A k \in 1..Len(RemoveAt(l, i)) : \E j \in 1..Len(l) : j # i /\ RemoveAt(l, i)[k] = l[j]
<1> DEFINE r == RemoveAt(l, i)
<1>1. /\ r \in Seq(TaskEntries) /\ Len(r) = Len(l) - 1
      /\ \A j \in 1..Len(l)-1 : r[j] = IF j < i THEN l[j] ELSE l[j+1]
  BY RemoveAtFacts
<1>2. /\ \A j \in 1..Len(l) : j # i => \E k \in 1..Len(r) : r[k] = l[j]
      /\ \A k \in 1..Len(r) : \E j \in 1..Len(l) : j # i /\ r[k] = l[j]
  BY RemoveAtElements
<1> HIDE DEF r
<1>3. ASSUME NEW j \in 1..Len(r), NEW k \in 1..Len(r), r[j].id = r[k].id PROVE j = k
  <2>1. /\ j \in 1..Len(l) /\ k \in 1..Len(l) /\ j+1 \in 1..Len(l) /\ k+1 \in 1..Len(l)
    BY <1>1
  <2>2. r[j] = IF j < i THEN l[j] ELSE l[j+1]
    BY <1>1
  <2>3. r[k] = IF k < i THEN l[k] ELSE l[k+1]
    BY <1>1
  <2> QED
    BY <1>3, <2>1, <2>2, <2>3 DEF OnePerTask
<1> QED
  BY <1>1, <1>2, <1>3 DEF OnePerTask, r

\* The eviction takes only a task that has ended.
LEMMA EvictedFacts ==
  ASSUME NEW l \in Seq(TaskEntries), OnePerTask(l)
  PROVE  /\ Evicted(l) \in Seq(TaskEntries) /\ OnePerTask(Evicted(l))
         /\ \A k \in 1..Len(Evicted(l)) : \E j \in 1..Len(l) : Evicted(l)[k] = l[j]
         /\ \A j \in 1..Len(l) : l[j].status \notin Final =>
              \E k \in 1..Len(Evicted(l)) : Evicted(l)[k] = l[j]
<1> DEFINE ended == {i \in DOMAIN l : l[i].status \in Final}
           old == CHOOSE i \in ended : \A j \in ended : i <= j
<1>1. CASE Len(l) < MaxTasks \/ ended = {}
  BY <1>1 DEF Evicted
<1>2. CASE ~(Len(l) < MaxTasks \/ ended = {})
  <2>1. old \in ended
    <3>1. ended \subseteq Nat /\ ended # {}
      BY <1>2
    <3>2. \E i \in ended : \A j \in ended : i <= j
      BY <3>1, HasSmallest
    <3> QED
      BY <3>2
  <2>2. Evicted(l) = RemoveAt(l, old)
    BY <1>2 DEF Evicted
  <2>3. old \in 1..Len(l) /\ l[old].status \in Final
    BY <2>1
  <2> HIDE DEF old, ended
  <2>4. /\ RemoveAt(l, old) \in Seq(TaskEntries) /\ OnePerTask(RemoveAt(l, old))
        /\ \A j \in 1..Len(l) : j # old =>
             \E k \in 1..Len(RemoveAt(l, old)) : RemoveAt(l, old)[k] = l[j]
        /\ \A k \in 1..Len(RemoveAt(l, old)) :
             \E j \in 1..Len(l) : j # old /\ RemoveAt(l, old)[k] = l[j]
    BY <2>3, ShorterListing
  <2>5. \A j \in 1..Len(l) : l[j].status \notin Final => j # old
    BY <2>3
  <2> QED
    BY <2>2, <2>4, <2>5
<1> QED
  BY <1>1, <1>2

\* Taking a task out takes that one, and leaves the others as they are.
LEMMA WithoutFacts ==
  ASSUME NEW l \in Seq(TaskEntries), OnePerTask(l), NEW t \in Ids
  PROVE  /\ Without(l, t) \in Seq(TaskEntries) /\ OnePerTask(Without(l, t))
         /\ \A k \in 1..Len(Without(l, t)) : Without(l, t)[k].id # t
         /\ \A k \in 1..Len(Without(l, t)) : \E j \in 1..Len(l) : Without(l, t)[k] = l[j]
         /\ \A j \in 1..Len(l) : l[j].id # t => \E k \in 1..Len(Without(l, t)) : Without(l, t)[k] = l[j]
<1> DEFINE i == CHOOSE i \in PlacesOf(l, t) : TRUE
<1>1. CASE PlacesOf(l, t) = {}
  BY <1>1 DEF Without, PlacesOf
<1>2. CASE PlacesOf(l, t) # {}
  <2>1. i \in 1..Len(l) /\ l[i].id = t
    BY <1>2 DEF PlacesOf
  <2>2. Without(l, t) = RemoveAt(l, i)
    BY <1>2 DEF Without
  <2> HIDE DEF i
  <2>3. \A j \in 1..Len(l) : j # i => l[j].id # t
    BY <2>1 DEF OnePerTask
  <2>4. /\ RemoveAt(l, i) \in Seq(TaskEntries) /\ OnePerTask(RemoveAt(l, i))
        /\ \A j \in 1..Len(l) : j # i => \E k \in 1..Len(RemoveAt(l, i)) : RemoveAt(l, i)[k] = l[j]
        /\ \A k \in 1..Len(RemoveAt(l, i)) : \E j \in 1..Len(l) : j # i /\ RemoveAt(l, i)[k] = l[j]
    BY <2>1, ShorterListing
  <2>5. \A k \in 1..Len(RemoveAt(l, i)) : RemoveAt(l, i)[k].id # t
    BY <2>3, <2>4
  <2>6. \A j \in 1..Len(l) : l[j].id # t => j # i
    BY <2>1
  <2> QED
    BY <2>2, <2>4, <2>5, <2>6
<1> QED
  BY <1>1, <1>2

\* A task that is announced is listed, and what is dropped for it has ended, or had its id.
LEMMA AnnouncedOK ==
  ASSUME WorkspaceInv, NEW t \in PanelTasks, NEW st \in {"pending", "running"}, Announced(t),
         listing' = Entered(t, st), UNCHANGED clears,
         real' = [real EXCEPT ![t] = IF st = "running" THEN "running" ELSE "created"],
         CurrentTaskRuns',
         activity' \in [Workers -> [status : {"none", "idle", "thinking", "tool_use"}, task : Ids \cup {NoTask}]]
  PROVE  WorkspaceInv'
<1> DEFINE id == IdOf[t]
           e == Evicted(listing)
           w == Without(e, id)
           n == [id |-> id, status |-> st]
<1> USE DEF WorkspaceInv
<1>0. id \in Ids
  BY DEF Ids
<1>1. /\ e \in Seq(TaskEntries) /\ OnePerTask(e)
      /\ \A k \in 1..Len(e) : \E j \in 1..Len(listing) : e[k] = listing[j]
      /\ \A j \in 1..Len(listing) : listing[j].status \notin Final => \E k \in 1..Len(e) : e[k] = listing[j]
  BY EvictedFacts
<1> HIDE DEF e
<1>2. /\ w \in Seq(TaskEntries) /\ OnePerTask(w) /\ \A k \in 1..Len(w) : w[k].id # id
      /\ \A k \in 1..Len(w) : \E j \in 1..Len(e) : w[k] = e[j]
      /\ \A j \in 1..Len(e) : e[j].id # id => \E k \in 1..Len(w) : w[k] = e[j]
  BY <1>0, <1>1, WithoutFacts
<1> HIDE DEF w
<1>3. /\ listing' = Append(w, n) /\ since' = since \cup {t} /\ made' \in 0..MaxCreated
      /\ ~InProgress(t)
      /\ mixed' = IF \E u \in PanelTasks \ {t} : IdOf[u] = id /\ InProgress(u)
                   THEN mixed \cup {id} ELSE mixed \ {id}
  BY WorkspaceAssumption DEF Announced, Entered, w, e, WorkspaceTypeOK
<1>4. n \in TaskEntries /\ n.id = id /\ n.status = st
  BY <1>0 DEF TaskEntries
<1> HIDE DEF n, id
<1>5. /\ listing' \in Seq(TaskEntries) /\ Len(listing') = Len(w) + 1 /\ listing'[Len(w)+1] = n
      /\ \A k \in 1..Len(w) : listing'[k] = w[k]
  BY <1>2, <1>3, <1>4
<1>6. OnePerTask(listing')
  <2>1. ASSUME NEW j \in 1..Len(listing'), NEW k \in 1..Len(listing'), j < k
        PROVE  listing'[j].id # listing'[k].id
    <3>1. Len(w) \in Nat /\ j \in 1..Len(w) /\ listing'[j] = w[j]
      BY <1>2, <1>5, <2>1
    <3>2. CASE k = Len(w) + 1
      BY <1>2, <1>4, <1>5, <3>1, <3>2
    <3>3. CASE k # Len(w) + 1
      <4>1. k \in 1..Len(w) /\ listing'[k] = w[k]
        BY <1>5, <3>1, <3>3
      <4> QED
        BY <1>2, <2>1, <3>1, <4>1 DEF OnePerTask
    <3> QED
      BY <3>2, <3>3
  <2> QED
    BY <1>5, <2>1 DEF OnePerTask
<1>7. /\ \A u \in PanelTasks : u # t => real'[u] = real[u]
      /\ real'[t] = IF st = "running" THEN "running" ELSE "created"
  BY DEF WorkspaceTypeOK
<1>8. LiveIsListed(listing)'
  <2>1. ASSUME NEW u \in since, IdOf[u] # id, NEW j \in 1..Len(listing),
               listing[j].id = IdOf[u], listing[j].status \notin Final
        PROVE  \E k \in 1..Len(listing') : listing'[k] = listing[j]
    <3>1. PICK k1 \in 1..Len(e) : e[k1] = listing[j]
      BY <1>1, <2>1
    <3>2. PICK k2 \in 1..Len(w) : w[k2] = e[k1]
      BY <1>2, <2>1, <3>1
    <3>3. k2 \in 1..Len(listing') /\ listing'[k2] = listing[j]
      BY <1>2, <1>5, <3>1, <3>2
    <3> QED
      BY <3>3
  <2>2. ASSUME NEW u \in since, IdOf[u] # id, NEW s \in {"pending", "running"},
               \E i \in 1..Len(listing) : listing[i] = [id |-> IdOf[u], status |-> s]
        PROVE  \E k \in 1..Len(listing') : listing'[k] = [id |-> IdOf[u], status |-> s]
    BY <2>1, <2>2 DEF Final
  <2>3. \E k \in 1..Len(listing') : listing'[k] = [id |-> id, status |-> st]
    BY <1>2, <1>5 DEF n
  <2>4. ASSUME NEW u \in since', IdOf[u] \notin mixed', u # t, real'[u] \in {"created", "running"}
        PROVE  u \in since /\ IdOf[u] # id /\ IdOf[u] \notin mixed /\ real'[u] = real[u]
    <3>1. u \in since /\ u \in PanelTasks /\ real'[u] = real[u]
      BY <1>3, <1>7, <2>4 DEF WorkspaceTypeOK
    <3>2. InProgress(u)
      BY <2>4, <3>1 DEF InProgress
    <3> QED
      BY <1>3, <2>4, <3>1, <3>2
  <2>5. ASSUME NEW u \in since', IdOf[u] \notin mixed'
        PROVE  /\ real'[u] = "created" => \E i \in 1..Len(listing') : listing'[i] = [id |-> IdOf[u], status |-> "pending"]
               /\ real'[u] = "running" => \E i \in 1..Len(listing') : listing'[i] = [id |-> IdOf[u], status |-> "running"]
    <3>1. CASE u = t
      BY <1>7, <2>3, <3>1 DEF id
    <3>2. CASE u # t
      BY <2>2, <2>4, <2>5, <3>2 DEF LiveIsListed
    <3> QED
      BY <3>1, <3>2
  <2> QED
    BY <2>5 DEF LiveIsListed
<1>9. ShownRuns(listing)'
  <2>1. ASSUME NEW k \in 1..Len(listing'), listing'[k].status = "running"
        PROVE  \E u \in PanelTasks : IdOf[u] = listing'[k].id /\ real'[u] \in {"running", "rejected"}
    <3>1. CASE k = Len(w) + 1
      BY <1>4, <1>5, <1>7, <2>1, <3>1 DEF id
    <3>2. CASE k # Len(w) + 1
      <4>1. k \in 1..Len(w) /\ listing'[k] = w[k]
        BY <1>2, <1>5, <3>2
      <4>2. PICK i \in 1..Len(e) : w[k] = e[i]
        BY <1>2, <4>1
      <4>3. PICK j \in 1..Len(listing) : e[i] = listing[j]
        BY <1>1
      <4>4. PICK u \in PanelTasks : IdOf[u] = listing[j].id /\ real[u] \in {"running", "rejected"}
        BY <2>1, <4>1, <4>2, <4>3 DEF ShownRuns
      <4>5. u # t
        BY <1>2, <4>1, <4>2, <4>3, <4>4 DEF id
      <4> QED
        BY <1>7, <4>1, <4>2, <4>3, <4>4, <4>5
    <3> QED
      BY <3>1, <3>2
  <2> QED
    BY <2>1 DEF ShownRuns
<1>10. SharingIsNoted'
  <2>1. ASSUME NEW u \in PanelTasks, NEW v \in PanelTasks, u # v, IdOf[u] = IdOf[v],
               real'[u] \in {"created", "running"}, real'[v] \in {"created", "running"}
        PROVE  IdOf[u] \in mixed'
    <3>1. CASE u = t
      <4>1. InProgress(v)
        BY <1>7, <2>1, <3>1 DEF InProgress
      <4> QED
        BY <1>3, <2>1, <3>1, <4>1 DEF id
    <3>2. CASE v = t
      <4>1. InProgress(u)
        BY <1>7, <2>1, <3>2 DEF InProgress
      <4> QED
        BY <1>3, <2>1, <3>2, <4>1 DEF id
    <3>3. CASE u # t /\ v # t
      <4>1. InProgress(u) /\ InProgress(v)
        BY <1>7, <2>1, <3>3 DEF InProgress
      <4>2. IdOf[u] \in mixed
        BY <2>1, <4>1 DEF SharingIsNoted
      <4> QED
        BY <1>3, <3>3, <4>1, <4>2
    <3> QED
      BY <3>1, <3>2, <3>3
  <2> QED
    BY <2>1 DEF SharingIsNoted, OnlyLeadsReject, InProgress
<1>11. WorkspaceTypeOK'
  <2>1. \A i \in DOMAIN listing' : listing'[i].id \in Ids /\ listing'[i].status \in {"pending", "running"} \cup Final
    BY <1>5, TaskEntriesTyped
  <2>2. mixed' \subseteq Ids /\ since' \subseteq PanelTasks
    BY <1>0, <1>3 DEF WorkspaceTypeOK, id
  <2>3. real' \in [PanelTasks -> {"none", "created", "running", "ended", "rejected"}]
    BY DEF WorkspaceTypeOK
  <2> QED
    BY <1>3, <1>5, <1>6, <2>1, <2>2, <2>3 DEF WorkspaceTypeOK, OnePerTask
<1>12. OnlyLeadsReject'
  BY <1>7 DEF OnlyLeadsReject
<1> QED
  BY <1>5, <1>6, <1>8, <1>9, <1>10, <1>11, <1>12

\* A new status for the entry of a task leaves everything else as it is.
LEMMA RestatusFacts ==
  ASSUME WorkspaceInv, NEW t \in PanelTasks, NEW st \in {"pending", "running"} \cup Final
  PROVE  /\ Restatus(t, st) \in Seq(TaskEntries) /\ OnePerTask(Restatus(t, st))
         /\ Len(Restatus(t, st)) = Len(listing) /\ DOMAIN Restatus(t, st) = 1..Len(listing)
         /\ \A i \in 1..Len(listing) : Restatus(t, st)[i] =
              IF listing[i].id = IdOf[t] THEN [id |-> IdOf[t], status |-> st] ELSE listing[i]
<1> DEFINE r == Restatus(t, st)
<1>1. DOMAIN r = 1..Len(listing) /\ \A i \in 1..Len(listing) : r[i] =
              IF listing[i].id = IdOf[t] THEN [listing[i] EXCEPT !.status = st] ELSE listing[i]
  BY DEF Restatus, WorkspaceInv
<1> HIDE DEF r
<1>2. \A i \in 1..Len(listing) : listing[i].id = IdOf[t] => [listing[i] EXCEPT !.status = st] = [id |-> IdOf[t], status |-> st]
  <2>1. \A e \in TaskEntries : [e EXCEPT !.status = st] = [id |-> e.id, status |-> st]
    BY DEF TaskEntries
  <2> QED
    BY <2>1, TaskEntriesTyped DEF WorkspaceInv
<1>3. \A i \in 1..Len(listing) : r[i] \in TaskEntries
  <2>1. [id |-> IdOf[t], status |-> st] \in TaskEntries
    BY DEF TaskEntries, Ids
  <2> QED
    BY <1>1, <1>2, <2>1, TaskEntriesTyped DEF WorkspaceInv
<1>4. r \in Seq(TaskEntries) /\ Len(r) = Len(listing)
  <2>1. r = [i \in 1..Len(listing) |-> r[i]]
    BY <1>1 DEF r, Restatus, WorkspaceInv
  <2> QED
    BY <1>3, <2>1, IsASeq DEF WorkspaceInv
<1>5. OnePerTask(r)
  BY <1>1, <1>2, <1>4 DEF OnePerTask, WorkspaceInv
<1> QED
  BY <1>1, <1>2, <1>4, <1>5 DEF r

\* A running task gets its status, and whoever works on it is noted.
LEMMA RestatusOK ==
  ASSUME WorkspaceInv, NEW t \in PanelTasks, NEW st \in {"running"} \cup Final,
         listing' = Restatus(t, st), UNCHANGED <<since, mixed, made, clears>>,
         real[t] \in {"created", "running"},
         real' = [real EXCEPT ![t] = IF st = "running" THEN "running" ELSE "ended"],
         CurrentTaskRuns',
         activity' \in [Workers -> [status : {"none", "idle", "thinking", "tool_use"}, task : Ids \cup {NoTask}]]
  PROVE  WorkspaceInv'
<1>1. /\ listing' \in Seq(TaskEntries) /\ OnePerTask(listing')
      /\ Len(listing') = Len(listing) /\ DOMAIN listing' = 1..Len(listing)
      /\ \A i \in 1..Len(listing) : listing'[i] =
           IF listing[i].id = IdOf[t] THEN [id |-> IdOf[t], status |-> st] ELSE listing[i]
  BY RestatusFacts
<1>2. /\ \A u \in PanelTasks : u # t => real'[u] = real[u]
      /\ real'[t] = IF st = "running" THEN "running" ELSE "ended"
  BY DEF WorkspaceInv, WorkspaceTypeOK
<1>3. LiveIsListed(listing)'
  <2>1. ASSUME NEW u \in since, IdOf[u] # IdOf[t], NEW j \in 1..Len(listing), NEW s \in {"pending", "running"},
               listing[j] = [id |-> IdOf[u], status |-> s]
        PROVE  listing'[j] = [id |-> IdOf[u], status |-> s]
    BY <1>1, <2>1
  <2>2. ASSUME t \in since, IdOf[t] \notin mixed, st = "running"
        PROVE  \E j \in 1..Len(listing') : listing'[j] = [id |-> IdOf[t], status |-> "running"]
    <3>1. PICK j \in 1..Len(listing) : listing[j].id = IdOf[t]
      <4>1. PICK j \in 1..Len(listing), s \in {"pending", "running"} : listing[j] = [id |-> IdOf[t], status |-> s]
        BY <2>2 DEF WorkspaceInv, LiveIsListed
      <4> QED
        BY <4>1
    <3> QED
      BY <1>1, <2>2, <3>1
  <2>3. ASSUME NEW u \in since, u # t, IdOf[u] \notin mixed, real[u] \in {"created", "running"}
        PROVE  IdOf[u] # IdOf[t]
    BY <2>3 DEF SharingIsNoted, InProgress, WorkspaceInv, WorkspaceTypeOK
  <2>4. ASSUME NEW u \in since, IdOf[u] \notin mixed
        PROVE  /\ real'[u] = "created" => \E i \in 1..Len(listing') : listing'[i] = [id |-> IdOf[u], status |-> "pending"]
               /\ real'[u] = "running" => \E i \in 1..Len(listing') : listing'[i] = [id |-> IdOf[u], status |-> "running"]
    <3>1. CASE u = t
      BY <1>2, <2>2, <2>4, <3>1
    <3>2. CASE u # t
      <4>1. real'[u] = real[u]
        BY <1>2, <3>2 DEF WorkspaceInv, WorkspaceTypeOK
      <4> QED
        BY <1>1, <2>1, <2>3, <2>4, <3>2, <4>1 DEF LiveIsListed, WorkspaceInv
    <3> QED
      BY <3>1, <3>2
  <2> QED
    BY <2>4 DEF LiveIsListed
<1>5. ShownRuns(listing)'
  <2>1. ASSUME NEW k \in 1..Len(listing'), listing'[k].status = "running"
        PROVE  \E u \in PanelTasks : IdOf[u] = listing'[k].id /\ real'[u] \in {"running", "rejected"}
    <3>1. CASE listing[k].id = IdOf[t]
      <4>1. listing'[k] = [id |-> IdOf[t], status |-> st]
        BY <1>1, <2>1, <3>1
      <4>2. st = "running" /\ listing'[k].id = IdOf[t]
        BY <2>1, <4>1
      <4> QED
        BY <1>2, <4>2
    <3>2. CASE listing[k].id # IdOf[t]
      <4>1. listing'[k] = listing[k] /\ k \in 1..Len(listing)
        BY <1>1, <2>1, <3>2
      <4>2. PICK u \in PanelTasks : IdOf[u] = listing[k].id /\ real[u] \in {"running", "rejected"}
        BY <2>1, <4>1 DEF ShownRuns, WorkspaceInv
      <4> QED
        BY <1>2, <3>2, <4>1, <4>2
    <3> QED
      BY <3>1, <3>2
  <2> QED
    BY <2>1 DEF ShownRuns
<1>6. SharingIsNoted'
  <2>1. \A u \in PanelTasks : real'[u] \in {"created", "running"} => InProgress(u)
    BY <1>2 DEF InProgress
  <2> QED
    BY <2>1 DEF SharingIsNoted, WorkspaceInv, InProgress
<1>4. WorkspaceTypeOK'
  <2>1. \A i \in DOMAIN listing' : listing'[i].id \in Ids /\ listing'[i].status \in {"pending", "running"} \cup Final
    BY <1>1, TaskEntriesTyped
  <2>2. real' \in [PanelTasks -> {"none", "created", "running", "ended", "rejected"}]
    BY DEF WorkspaceInv, WorkspaceTypeOK
  <2> QED
    BY <1>1, <2>1, <2>2 DEF WorkspaceInv, WorkspaceTypeOK, OnePerTask
<1> QED
  BY <1>1, <1>2, <1>3, <1>4, <1>5, <1>6 DEF WorkspaceInv, OnlyLeadsReject

\* Every event keeps the invariant.
LEMMA WorkspaceStepOK == WorkspaceInv /\ [WorkspaceNext]_wsVars => WorkspaceInv'
<1> SUFFICES ASSUME WorkspaceInv, [WorkspaceNext]_wsVars PROVE WorkspaceInv'
  OBVIOUS
<1>1. WorkerOf \in [PanelTasks -> Workers] /\ NoTask \notin Ids
      /\ \A t \in PanelTasks : IdOf[t] \in Ids
  BY WorkspaceAssumption DEF Ids
<1> DEFINE Activities == [status : {"none", "idle", "thinking", "tool_use"}, task : Ids \cup {NoTask}]
<1>2. /\ activity \in [Workers -> Activities]
      /\ real \in [PanelTasks -> {"none", "created", "running", "ended", "rejected"}]
      /\ CurrentTaskRuns
  BY DEF WorkspaceInv, WorkspaceTypeOK
<1>3. ASSUME NEW t \in PanelTasks, Started(t) PROVE WorkspaceInv'
  <2>1. activity' = [activity EXCEPT ![WorkerOf[t]] = [status |-> "thinking", task |-> IdOf[t]]]
        /\ real' = [real EXCEPT ![t] = "running"] /\ real[t] = "created"
    BY <1>3 DEF Started
  <2>2. activity' \in [Workers -> Activities]
    BY <1>1, <1>2, <2>1
  <2>3. CurrentTaskRuns'
    BY <1>1, <1>2, <2>1 DEF CurrentTaskRuns
  <2> QED
    BY <1>3, <2>1, <2>2, <2>3, RestatusOK DEF Started
<1>4. ASSUME NEW t \in PanelTasks, NEW st \in {"done", "failed"}, Ended(t, st) PROVE WorkspaceInv'
  <2>1. activity' = [activity EXCEPT ![WorkerOf[t]] = IF @.task = IdOf[t] THEN IdleAgent ELSE @]
        /\ real' = [real EXCEPT ![t] = "ended"] /\ real[t] = "running"
    BY <1>4 DEF Ended
  <2>2. activity' \in [Workers -> Activities]
    BY <1>1, <1>2, <2>1 DEF IdleAgent
  <2>3. CurrentTaskRuns'
    BY <1>1, <1>2, <2>1 DEF CurrentTaskRuns, IdleAgent
  <2> QED
    BY <1>4, <2>1, <2>2, <2>3, RestatusOK DEF Ended, Final
<1>5. ASSUME UNCHANGED <<listing, real, since, mixed, made, clears>>, activity' \in [Workers -> Activities],
             \A a \in Workers : activity'[a].task \in {NoTask, activity[a].task}
                                \/ \E t \in PanelTasks : activity'[a].task = IdOf[t] /\ real[t] = "running" /\ WorkerOf[t] = a
      PROVE  WorkspaceInv'
  BY <1>2, <1>5 DEF WorkspaceInv, WorkspaceTypeOK, CurrentTaskRuns, LiveIsListed, OnePerTask,
                       ShownRuns, SharingIsNoted, OnlyLeadsReject, InProgress
<1>6. ASSUME NEW t \in PanelTasks, NEW st \in {"thinking", "tool_use"}, Step(t, st) PROVE WorkspaceInv'
  <2>1. /\ real[t] = "running" /\ UNCHANGED <<listing, real, since, mixed, made, clears>>
        /\ activity' = [activity EXCEPT ![WorkerOf[t]] =
             IF @.status = "none" THEN [status |-> st, task |-> IdOf[t]] ELSE [@ EXCEPT !.status = st]]
    BY <1>6 DEF Step
  <2>2. activity' \in [Workers -> Activities]
    BY <1>1, <1>2, <2>1
  <2>3. \A a \in Workers : activity'[a].task = activity[a].task \/ (activity'[a].task = IdOf[t] /\ WorkerOf[t] = a)
    <3>1. \A e \in Activities : [e EXCEPT !.status = st].task = e.task
      OBVIOUS
    <3>2. activity'[WorkerOf[t]].task \in {IdOf[t], activity[WorkerOf[t]].task}
      <4>1. activity[WorkerOf[t]] \in Activities /\ WorkerOf[t] \in Workers
        BY <1>1, <1>2
      <4>2. activity'[WorkerOf[t]] \in {[status |-> st, task |-> IdOf[t]], [activity[WorkerOf[t]] EXCEPT !.status = st]}
        BY <1>2, <2>1, <4>1
      <4> HIDE DEF Activities
      <4>3. [activity[WorkerOf[t]] EXCEPT !.status = st].task = activity[WorkerOf[t]].task
        BY <3>1, <4>1
      <4>4. CASE activity'[WorkerOf[t]] = [status |-> st, task |-> IdOf[t]]
        BY <4>4
      <4>5. CASE activity'[WorkerOf[t]] = [activity[WorkerOf[t]] EXCEPT !.status = st]
        <5>1. activity'[WorkerOf[t]].task = [activity[WorkerOf[t]] EXCEPT !.status = st].task
          BY <4>5, Zenon
        <5> QED
          BY <4>3, <5>1, Zenon
      <4> QED
        BY <4>2, <4>4, <4>5
    <3>3. \A a \in Workers : a # WorkerOf[t] => activity'[a] = activity[a]
      <4>1. \A a \in Workers : a # WorkerOf[t] => activity'[a] = activity[a]
        BY <1>1, <1>2, <2>1
      <4> QED
        BY <4>1
    <3> QED
      BY <3>2, <3>3
  <2> QED
    BY <1>5, <2>1, <2>2, <2>3
<1>7. ASSUME NEW a \in Workers, ToolRequest(a) \/ ToolResult(a) PROVE WorkspaceInv'
  <2>1. /\ UNCHANGED <<listing, real, since, mixed, made, clears>>
        /\ \E st \in {"thinking", "tool_use"} : activity' = [activity EXCEPT ![a].status = st]
    BY <1>7 DEF ToolRequest, ToolResult
  <2>2. activity' \in [Workers -> Activities]
    BY <1>2, <2>1
  <2>3. \A b \in Workers : activity'[b].task = activity[b].task
    BY <1>2, <2>1
  <2> QED
    BY <1>5, <2>1, <2>2, <2>3
<1>8. CASE Clear
  <2>1. /\ listing' = <<>> /\ since' = {} /\ UNCHANGED <<real, mixed, made>> /\ clears' \in 0..MaxClears
        /\ activity' = [a \in Workers |-> Unlisted]
    BY <1>8, WorkspaceAssumption DEF Clear, WorkspaceInv, WorkspaceTypeOK
  <2>2. listing' \in Seq(TaskEntries) /\ Len(listing') = 0 /\ DOMAIN listing' = {}
    BY <2>1
  <2>3. activity' \in [Workers -> Activities] /\ CurrentTaskRuns'
    BY <2>1 DEF Unlisted, CurrentTaskRuns
  <2> QED
    BY <2>1, <2>2, <2>3 DEF WorkspaceInv, WorkspaceTypeOK, OnePerTask, LiveIsListed, ShownRuns,
        SharingIsNoted, OnlyLeadsReject, InProgress
<1>10. ASSUME NEW t \in PanelTasks, Created(t) \/ LeadBegins(t) PROVE WorkspaceInv'
  <2>1. CASE Created(t)
    <3>1. CurrentTaskRuns'
      <4>1. real[t] \notin {"running", "created"}
            /\ \A u \in PanelTasks : u # t => real'[u] = real[u]
        BY <1>2, <2>1 DEF Created, Announced, InProgress
      <4>2. real[t] # "rejected"
        BY <2>1 DEF Created, WorkspaceInv, OnlyLeadsReject
      <4> QED
        BY <1>2, <2>1, <4>1, <4>2 DEF Created, CurrentTaskRuns
    <3> QED
      BY <1>2, <2>1, <3>1, AnnouncedOK DEF Created
  <2>2. CASE LeadBegins(t)
    <3>1. activity' \in [Workers -> Activities]
      BY <1>1, <1>2, <2>2 DEF LeadBegins
    <3>2. /\ \A a \in Workers : a # WorkerOf[t] => activity'[a] = activity[a]
          /\ activity'[WorkerOf[t]].task = IdOf[t]
          /\ \A u \in PanelTasks : real[u] \in {"running", "rejected"} => real'[u] \in {"running", "rejected"}
          /\ real'[t] = "running"
      BY <1>1, <1>2, <2>2 DEF LeadBegins
    <3>3. CurrentTaskRuns'
      BY <1>2, <3>2 DEF CurrentTaskRuns
    <3> QED
      BY <2>2, <3>1, <3>3, AnnouncedOK DEF LeadBegins
  <2> QED
    BY <1>10, <2>1, <2>2
<1>11. ASSUME NEW t \in PanelTasks, Abandoned(t) \/ Rejected(t) PROVE WorkspaceInv'
  <2>1. /\ UNCHANGED <<listing, activity, since, mixed, made, clears>>
        /\ \A u \in PanelTasks : u # t => real'[u] = real[u]
        /\ real'[t] \in {"ended", "rejected"}
        /\ real[t] = "running" => real'[t] = "rejected"
        /\ real[t] \in {"created", "running"}
        /\ real'[t] = "rejected" => t \in LeadTasks
        /\ real' \in [PanelTasks -> {"none", "created", "running", "ended", "rejected"}]
    BY <1>2, <1>11 DEF Abandoned, Rejected
  <2>2. \A u \in PanelTasks : real[u] \in {"running", "rejected"} => real'[u] \in {"running", "rejected"}
    BY <2>1
  <2>3. \A u \in PanelTasks : real'[u] \in {"created", "running"} => real'[u] = real[u]
    BY <2>1
  <2>4. CurrentTaskRuns' /\ ShownRuns(listing)'
    BY <2>1, <2>2 DEF WorkspaceInv, CurrentTaskRuns, ShownRuns
  <2>5. LiveIsListed(listing)'
    BY <2>1, <2>3 DEF WorkspaceInv, WorkspaceTypeOK, LiveIsListed
  <2>6. SharingIsNoted'
    BY <2>1, <2>3 DEF WorkspaceInv, SharingIsNoted, OnlyLeadsReject, InProgress
  <2>7. WorkspaceTypeOK'
    BY <2>1 DEF WorkspaceInv, WorkspaceTypeOK
  <2>8. OnlyLeadsReject'
    BY <2>1 DEF WorkspaceInv, OnlyLeadsReject
  <2> QED
    BY <2>1, <2>4, <2>5, <2>6, <2>7, <2>8 DEF WorkspaceInv
<1>9. CASE UNCHANGED wsVars
  BY <1>9 DEF wsVars, WorkspaceInv, WorkspaceTypeOK, OnePerTask, LiveIsListed, CurrentTaskRuns,
              ShownRuns, SharingIsNoted, OnlyLeadsReject, InProgress
<1> QED
  BY <1>3, <1>4, <1>6, <1>7, <1>8, <1>9, <1>10, <1>11 DEF WorkspaceNext

\* What was created or runs is listed as that.
THEOREM WorkspaceInvariance == WorkspaceSpec => []WorkspaceInv
<1> QED
  BY WorkspaceInitOK, WorkspaceStepOK, PTL DEF WorkspaceSpec

\* What the panel's invariant says in the words of the run.
LEMMA PanelHolds == WorkspaceInv => PanelIsTrue
<1> SUFFICES ASSUME WorkspaceInv PROVE PanelIsTrue
  OBVIOUS
<1>1. DOMAIN listing = 1..Len(listing)
  BY DEF WorkspaceInv
<1>2. RunningIsTracked
  BY <1>1 DEF WorkspaceInv, LiveIsListed, RunningIsTracked
<1>3. ShownRunningRuns
  BY <1>1 DEF WorkspaceInv, ShownRuns, ShownRunningRuns
<1> QED
  BY <1>2, <1>3 DEF WorkspaceInv, PanelIsTrue

\* A task whose id is its own is listed as running while it runs; what is shown as running,
\* or as what an agent works on, runs, or is a lead's work whose run rejected
\* (workspace-tracker.ts).
THEOREM PanelFollows == WorkspaceSpec => []PanelIsTrue
<1> QED
  BY PanelHolds, WorkspaceInvariance, PTL

----------------------------------------------------------------------------
(* The records together. *)

\* Rows of projects, and their order, have the shape that the run checks.
LEMMA ProjectsTyped == ProjectsInv => ProjectsTypeOK
<1> SUFFICES ASSUME ProjectsInv PROVE ProjectsTypeOK
  OBVIOUS
<1>1. DOMAIN recency = 1..Len(recency)
  BY DEF ProjectsInv, RowsSound
<1>2. IsInjective(recency)
  BY <1>1 DEF ProjectsInv, RowsSound, IsInjective
<1>3. ToSet(recency) = Rows
  <2>1. ToSet(recency) \subseteq Rows
    BY <1>1 DEF ProjectsInv, RowsSound, ToSet
  <2>2. Rows \subseteq ToSet(recency)
    BY <1>1 DEF ProjectsInv, RowsSound, ToSet
  <2> QED
    BY <2>1, <2>2
<1>4. /\ Rows \subseteq ProjectIds /\ everRun \subseteq Rows
      /\ projects \in [Rows -> [team : ProjectTeams, status : {"active", "archived"}]]
  BY DEF ProjectsInv, RowsSound, ProjectRows
<1>5. ASSUME NEW s \in RunSlots
      PROVE  /\ execution[s].stage \in {"idle", "creating", "brief", "planning", "tasks"}
             /\ execution[s].project \in Rows \cup {NoProject}
             /\ execution[s].stage \in {"brief", "planning", "tasks"} => execution[s].project \in Rows
  <2>1. execution[s] \in Executions
    BY DEF ProjectsInv, SlotsSound
  <2> QED
    BY <2>1 DEF ProjectsInv, SlotsSound, Executions, Stages
<1> QED
  BY <1>2, <1>3, <1>4, <1>5 DEF ProjectsTypeOK

\* The invariants of the parts hold together: a part that does not move keeps its own.
LEMMA RecordsInvariance ==
  MCSpec => []( /\ ProjectsInv /\ AuditInv /\ WebhooksInv /\ AccessInv
                /\ CredentialsInv /\ ConfigInv /\ DaemonInv /\ WorkspaceInv)
<1>1. MCInit => /\ ProjectsInit /\ AuditInit /\ WebhooksInit /\ AccessInit
                /\ CredentialsInit /\ ConfigInit /\ DaemonInit /\ WorkspaceInit
  BY DEF MCInit
<1>2. [MCNext]_partVars =>
        /\ [ProjectsNext]_projectVars /\ [AuditNext]_auditVars
        /\ [WebhooksNext]_hookVars /\ [AccessNext]_accessVars
        /\ [CredentialsNext]_credentialVars /\ [ConfigNext]_configVars
        /\ [DaemonNext]_daemonVars /\ [WorkspaceNext]_wsVars
  BY DEF MCNext, partVars
<1> QED
  BY <1>1, <1>2, PTL, ProjectsInitOK, AuditInitOK, WebhooksInitOK, AccessStarts,
     CredentialsInitOK,
     ConfigInitOK, DaemonInitOK, WorkspaceInitOK, ProjectsStepOK, AuditStepOK, WebhooksStepOK,
     AccessSteps, CredentialsStepOK, ConfigStepOK, DaemonStepOK, WorkspaceStepOK
     DEF MCSpec

\* The run's invariants of all these records, for any number of rows, processes and steps:
\* each variable holds a value of its kind, with the order of projects a permutation of their
\* rows; the file has a default agent and is served; the panel shows what runs.
THEOREM RecordsAreSound == MCSpec => [](RecordTypes /\ FileIsSound /\ PanelIsTrue)
<1>1. ASSUME ProjectsInv, AuditInv, WebhooksInv, AccessInv, CredentialsInv, ConfigInv, DaemonInv,
             WorkspaceInv
      PROVE  RecordTypes
  BY <1>1, ProjectsTyped
     DEF AuditInv, WebhooksInv, AccessInv, CredentialsInv, ConfigInv, DaemonInv, WorkspaceInv,
         RecordTypes
<1> QED
  BY <1>1, RecordsInvariance, ConfigIsSound, PanelHolds, PTL

=============================================================================
