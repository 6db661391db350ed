------------------------- MODULE OrchestratorProofs -------------------------
(***************************************************************************)
(* Safety of the orchestrator for every number of tasks, every graph,      *)
(* every stored-result set and every width, and what the loops of the task *)
(* graph compute.                                                          *)
(***************************************************************************)
EXTENDS MCOrchestrator, TaskGraphProofs, SequenceTheorems

Engaged == phase \in {"loop", "returned"}

\* Before a valid graph is in, nothing is; afterwards the graph is acyclic and the
\* tasks with a stored result are done for good.
PhaseInv ==
  /\ ~ Engaged => status = NewGraph({}) /\ running = {}
  /\ phase = "returned" => running = {}
  /\ Engaged => ValidGraph(deps)
  /\ Engaged => \A t \in seeded : status[t] = "done"

\* The inductive invariant.  RanAfterDependencies alone is not inductive: it needs
\* the statuses to agree with "running" (a task that ends was running, hence not
\* done, hence nobody's finished dependency), and SkipExact needs both.
IInv ==
  /\ TypeOK
  /\ PhaseInv
  /\ RunningMatchesStatus
  /\ RanAfterDependencies
  /\ SkipExact

----------------------------------------------------------------------------

\* The invariant holds before a graph is submitted.
LEMMA InitEstablishes == Init => IInv
<1> SUFFICES ASSUME Init PROVE IInv
  OBVIOUS
<1> USE DEF Init, NewGraph
<1>1. TypeOK
  <2>1. deps \in DependencyMaps /\ status \in [Tasks -> TaskStatus]
    BY DEF DependencyMaps, TaskStatus
  <2>2. sawResults \in [Tasks -> SUBSET Tasks]
    OBVIOUS
  <2>3. failFast \in BOOLEAN
    OBVIOUS
  <2>4. width \in Int
    OBVIOUS
  <2>5. QED
    <3> HIDE DEF Init
    <3>1. phase \in Phases /\ seeded \in SUBSET Tasks /\ running \in SUBSET Tasks
      BY DEF Init, Phases
    <3>2. QED BY <2>1, <2>2, <2>3, <2>4, <3>1 DEF TypeOK
<1>2. PhaseInv
  BY DEF PhaseInv, Engaged
<1>3. RunningMatchesStatus
  BY DEF RunningMatchesStatus, WithStatus
<1>4. RanAfterDependencies
  BY DEF RanAfterDependencies
<1>5. SkipExact
  BY DEF SkipExact
<1>6. QED BY <1>1, <1>2, <1>3, <1>4, <1>5 DEF IInv

\* What an engaged graph's dependency lists are: lists of its own tasks.
LEMMA DepsAreTasks ==
  ASSUME IInv, Engaged
  PROVE  \A t \in Tasks : deps[t] \subseteq Tasks
BY DEF IInv, PhaseInv, ValidGraph

\* Submitting a graph keeps it, valid or not.
LEMMA SubmitPreserves ==
  ASSUME IInv, NEW d \in Graphs, NEW done \in SUBSET Tasks, NEW w \in Widths,
         NEW ff \in BOOLEAN, Submit(d, done, w, ff)
  PROVE  IInv'
<1>1. CASE ValidGraph(d)
  <2> USE <1>1 DEF Submit, IInv, request
  <2>1. phase = "idle" /\ phase' = "loop" /\ running = {} /\ running' = {}
    BY DEF PhaseInv, Engaged
  <2>2. status' = NewGraph(done) /\ deps' = d /\ seeded' = done
    OBVIOUS
  <2>3. TypeOK'
    BY <2>1, <2>2, OrchestratorAssumption DEF TypeOK, Phases, NewGraph, TaskStatus
  <2>4. PhaseInv'
    BY <2>1, <2>2 DEF PhaseInv, Engaged, NewGraph
  <2>5. RunningMatchesStatus'
    BY <2>1, <2>2 DEF RunningMatchesStatus, WithStatus, NewGraph
  <2>6. RanAfterDependencies'
    BY <2>2 DEF RanAfterDependencies, NewGraph
  <2>7. SkipExact'
    <3>1. \A t \in Tasks : deps'[t] \subseteq Tasks
      BY <2>2 DEF ValidGraph
    <3>2. \A t \in Tasks : status'[t] \in {"pending", "done"}
      BY <2>2 DEF NewGraph
    <3>3. QED BY <3>1, <3>2 DEF SkipExact, HasBrokenDependency, BrokenStatus
  <2>8. QED BY <2>3, <2>4, <2>5, <2>6, <2>7
<1>2. CASE ~ ValidGraph(d)
  <2> USE <1>2 DEF Submit, IInv, request
  <2>1. phase = "idle" /\ phase' = "rejected"
    OBVIOUS
  <2>2. UNCHANGED <<deps, seeded, width, failFast, status, running, sawResults>>
    OBVIOUS
  <2>3. TypeOK'
    BY <2>1, <2>2 DEF TypeOK, Phases
  <2>4. PhaseInv' /\ RunningMatchesStatus' /\ RanAfterDependencies' /\ SkipExact'
    BY <2>1, <2>2 DEF PhaseInv, Engaged, RunningMatchesStatus, WithStatus,
                     RanAfterDependencies, SkipExact
  <2>5. QED BY <2>3, <2>4
<1>3. QED BY <1>1, <1>2

\* So does a wave: what it starts was ready.
LEMMA LaunchWavePreserves ==
  ASSUME IInv, LaunchWave
  PROVE  IInv'
<1>1. PICK batch \in SUBSET Startable : StartBatch(batch)
  BY DEF LaunchWave
<1>2. phase = "loop" /\ running = {} /\ UNCHANGED <<phase, deps, seeded, width, failFast>>
  BY DEF LaunchWave, AtLoopHead, request
<1>3. Engaged /\ \A t \in Tasks : deps[t] \subseteq Tasks
  BY <1>2, DepsAreTasks DEF Engaged
<1>4. \A t \in batch : t \in Tasks /\ status[t] = "pending"
                       /\ \A d \in deps[t] : status[d] = "done"
  BY <1>1 DEF Startable, ReadyTasks
<1>5. /\ status' = [t \in Tasks |-> IF t \in batch THEN "running" ELSE status[t]]
      /\ running' = running \cup batch
      /\ sawResults' = [t \in Tasks |-> IF t \in batch THEN WithStatus(status, "done")
                                        ELSE sawResults[t]]
  BY <1>1 DEF StartBatch
<1>6. TypeOK'
  BY <1>2, <1>4, <1>5 DEF IInv, TypeOK, TaskStatus, WithStatus
<1>7. PhaseInv'
  BY <1>2, <1>4, <1>5 DEF IInv, PhaseInv, Engaged, TypeOK
<1>8. RunningMatchesStatus'
  BY <1>4, <1>5 DEF IInv, RunningMatchesStatus, WithStatus
<1>9. RanAfterDependencies'
  <2>1. SUFFICES ASSUME NEW t \in Tasks \ seeded,
                        status'[t] \in {"running", "done", "failed"}, NEW d \in deps[t]
                 PROVE  d \in sawResults'[t] /\ status'[d] = "done"
    BY <1>2 DEF RanAfterDependencies
  <2>2. d \in Tasks
    BY <1>3, <2>1
  <2>3. CASE t \in batch
    BY <1>4, <1>5, <2>2, <2>3 DEF WithStatus
  <2>4. CASE t \notin batch
    BY <1>4, <1>5, <2>1, <2>2, <2>4 DEF IInv, RanAfterDependencies
  <2>5. QED BY <2>3, <2>4
<1>10. SkipExact'
  <2>1. \A t \in Tasks : status'[t] \in BrokenStatus <=> status[t] \in BrokenStatus
    BY <1>4, <1>5 DEF BrokenStatus
  <2>2. \A t \in Tasks : status'[t] = "skipped" <=> status[t] = "skipped"
    BY <1>4, <1>5
  <2>3. QED BY <1>2, <1>3, <2>1, <2>2 DEF IInv, SkipExact, HasBrokenDependency
<1>11. QED BY <1>6, <1>7, <1>8, <1>9, <1>10 DEF IInv

\* The end of a task, done or failed: both mark it and skip what now cannot run.
LEMMA TaskEndsPreserves ==
  ASSUME IInv, NEW t \in Tasks, t \in running, NEW outcome \in {"done", "failed"},
         status' = SkipDependentsOfFailed([status EXCEPT ![t] = outcome], deps),
         running' = running \ {t},
         UNCHANGED <<phase, deps, seeded, width, failFast, sawResults>>
  PROVE  IInv'
<1> DEFINE marked == [status EXCEPT ![t] = outcome]
<1>1. phase = "loop" /\ Engaged /\ status[t] = "running"
  BY DEF IInv, PhaseInv, TypeOK, Phases, Engaged, RunningMatchesStatus, WithStatus
<1>2. \A u \in Tasks : deps[u] \subseteq Tasks
  BY <1>1, DepsAreTasks
<1>3. marked \in [Tasks -> TaskStatus] /\ marked[t] = outcome
      /\ \A u \in Tasks \ {t} : marked[u] = status[u]
  BY DEF IInv, TypeOK, TaskStatus
<1>4. /\ status' \in [Tasks -> TaskStatus]
      /\ \A u \in Tasks : marked[u] # "pending" => status'[u] = marked[u]
      /\ \A u \in Tasks : marked[u] = "pending" => status'[u] \in {"pending", "skipped"}
      /\ \A u \in Tasks : status'[u] = "pending" =>
           marked[u] = "pending" /\ ~ HasBrokenDependency(u, status', deps)
      /\ \A u \in Tasks : marked[u] = "pending" /\ status'[u] = "skipped" =>
           HasBrokenDependency(u, status', deps)
  <2> HIDE DEF marked
  <2>1. status' = SkipDependentsOfFailed(marked, deps)
    BY DEF marked
  <2>2. QED BY <1>2, <1>3, <2>1, SkipDependentsEffect
<1>5. status'[t] = outcome
  BY <1>3, <1>4
<1> HIDE DEF marked
<1>6. TypeOK'
  BY <1>4 DEF IInv, TypeOK
<1>7. PhaseInv'
  <2>1. \A u \in seeded : status'[u] = "done"
    <3>1. SUFFICES ASSUME NEW u \in seeded PROVE status'[u] = "done"
      OBVIOUS
    <3>2. u \in Tasks /\ status[u] = "done"
      BY <1>1 DEF IInv, PhaseInv, TypeOK
    <3>3. QED BY <1>1, <1>3, <1>4, <3>2
  <2>2. QED BY <1>1, <2>1 DEF IInv, PhaseInv, Engaged
<1>8. RunningMatchesStatus'
  <2>1. ASSUME NEW u \in Tasks
        PROVE  status'[u] = "running" <=> status[u] = "running" /\ u # t
    BY <1>3, <1>4
  <2>2. QED BY <2>1 DEF IInv, RunningMatchesStatus, WithStatus, TypeOK
<1>9. \A u \in Tasks : status[u] = "done" => status'[u] = "done"
  BY <1>1, <1>3, <1>4
<1>10. RanAfterDependencies'
  <2>1. SUFFICES ASSUME NEW u \in Tasks \ seeded,
                        status'[u] \in {"running", "done", "failed"}, NEW d \in deps[u]
                 PROVE  d \in sawResults'[u] /\ status'[d] = "done"
    BY DEF RanAfterDependencies
  <2>2. status[u] \in {"running", "done", "failed"}
    <3>1. status[u] # "pending"
      BY <1>1, <1>3, <1>4, <2>1
    <3>2. status[u] # "skipped"
      BY <1>1, <1>3, <1>4, <2>1
    <3>3. status[u] \in TaskStatus
      BY DEF IInv, TypeOK
    <3>4. QED BY <3>1, <3>2, <3>3 DEF TaskStatus
  <2>3. d \in sawResults[u] /\ status[d] = "done" /\ d \in Tasks
    BY <1>2, <2>1, <2>2 DEF IInv, RanAfterDependencies
  <2>4. QED BY <1>9, <2>3
<1>11. SkipExact'
  <2>1. SUFFICES ASSUME NEW u \in Tasks \ seeded
                 PROVE  status'[u] = "skipped" <=> HasBrokenDependency(u, status', deps)
    BY DEF SkipExact, HasBrokenDependency
  <2>2. CASE status[u] = "pending"
    <3>1. marked[u] = "pending"
      BY <1>1, <1>3, <2>2
    <3>2. QED BY <1>4, <3>1
  <2>3. CASE status[u] = "skipped"
    <3>1. status'[u] = "skipped"
      BY <1>1, <1>3, <1>4, <2>3
    <3>2. PICK d \in deps[u] : status[d] \in BrokenStatus
      BY <1>1, <2>3 DEF IInv, SkipExact, HasBrokenDependency
    <3>3. d \in Tasks /\ d # t /\ status[d] # "pending"
      BY <1>1, <1>2, <3>2 DEF BrokenStatus
    <3>4. status'[d] = status[d]
      BY <1>3, <1>4, <3>3
    <3>5. QED BY <3>1, <3>2, <3>4 DEF HasBrokenDependency
  <2>4. CASE status[u] \in {"running", "done", "failed"}
    <3>1. \A d \in deps[u] : status'[d] = "done"
      BY <1>2, <1>9, <2>4 DEF IInv, RanAfterDependencies
    <3>2. status'[u] # "skipped"
      BY <1>1, <1>3, <1>4, <2>4
    <3>3. QED BY <3>1, <3>2 DEF HasBrokenDependency, BrokenStatus
  <2>5. QED BY <2>2, <2>3, <2>4 DEF IInv, TypeOK, TaskStatus
<1>12. QED BY <1>6, <1>7, <1>8, <1>10, <1>11 DEF IInv

\* So does the return of the loop.
LEMMA ReturnPreserves ==
  ASSUME IInv, Return
  PROVE  IInv'
BY DEF IInv, Return, AtLoopHead, request, TypeOK, Phases, PhaseInv, Engaged,
       RunningMatchesStatus, WithStatus, RanAfterDependencies, SkipExact

\* So does a step of somebody else.
LEMMA StutterPreserves ==
  ASSUME IInv, UNCHANGED vars
  PROVE  IInv'
BY DEF IInv, vars, request, TypeOK, PhaseInv, Engaged, RunningMatchesStatus,
       WithStatus, RanAfterDependencies, SkipExact

\* Every step keeps the invariant.
LEMMA StepPreserves == IInv /\ [Next]_vars => IInv'
<1> SUFFICES ASSUME IInv, [Next]_vars PROVE IInv'
  OBVIOUS
<1>1. ASSUME NEW d \in Graphs, NEW done \in SUBSET Tasks, NEW w \in Widths,
             NEW ff \in BOOLEAN, Submit(d, done, w, ff)
      PROVE  IInv'
  BY <1>1, SubmitPreserves
<1>2. CASE LaunchWave
  BY <1>2, LaunchWavePreserves
<1>3. CASE Return
  BY <1>3, ReturnPreserves
<1>4. ASSUME NEW t \in Tasks, TaskSucceeds(t) PROVE IInv'
  BY <1>4, TaskEndsPreserves DEF TaskSucceeds, MarkDone, request
<1>5. ASSUME NEW t \in Tasks, TaskFails(t) PROVE IInv'
  BY <1>5, TaskEndsPreserves DEF TaskFails, MarkFailed, request
<1>6. CASE UNCHANGED vars
  BY <1>6, StutterPreserves
<1>7. QED BY <1>1, <1>2, <1>3, <1>4, <1>5, <1>6 DEF Next

\* The inductive invariant holds throughout (orchestrator.ts and task-graph.ts).
THEOREM Invariance == Spec => []IInv
BY InitEstablishes, StepPreserves, PTL DEF Spec

----------------------------------------------------------------------------
(* The properties the runs check, for every instance *)

\* Every variable of the orchestrator keeps its type.
THEOREM TypeCorrect == Spec => []TypeOK
BY Invariance, PTL DEF IInv

\* A task only ever runs on the results of all its dependencies.
THEOREM DependenciesFirst == Spec => []RanAfterDependencies
BY Invariance, PTL DEF IInv

\* A task is skipped exactly when a dependency of it failed or was skipped.
THEOREM SkippingIsExact == Spec => []SkipExact
BY Invariance, PTL DEF IInv

\* The break for a graph with nothing to start is never taken for want of a ready
\* task: acyclicity yields one among the pending tasks, and exact skipping makes
\* everything it depends on done.
LEMMA NeverStalled == IInv => NoStall
<1> SUFFICES ASSUME IInv, AtLoopHead, ~ IsComplete(status) PROVE Startable # {}
  BY DEF NoStall
<1> DEFINE Waiting == WithStatus(status, "pending")
<1>1. Engaged /\ running = {} /\ ValidGraph(deps)
  BY DEF AtLoopHead, Engaged, IInv, PhaseInv
<1>2. \A t \in Tasks : status[t] \in TaskStatus /\ status[t] # "running"
  BY <1>1 DEF IInv, TypeOK, RunningMatchesStatus, WithStatus
<1>3. Waiting # {} /\ Waiting \in SUBSET Tasks
  BY <1>2 DEF IsComplete, TerminalStatus, TaskStatus, WithStatus
<1>4. PICK t \in Waiting : deps[t] \cap Waiting = {}
  BY <1>1, <1>3 DEF ValidGraph, Acyclic
<1>5. t \in Tasks /\ status[t] = "pending" /\ deps[t] \subseteq Tasks
  BY <1>1, <1>4 DEF WithStatus, ValidGraph
<1>6. ~ HasBrokenDependency(t, status, deps)
  BY <1>1, <1>5 DEF IInv, PhaseInv, SkipExact, Engaged
<1>7. \A d \in deps[t] : status[d] = "done"
  BY <1>2, <1>4, <1>5, <1>6 DEF WithStatus, HasBrokenDependency, BrokenStatus, TaskStatus
<1>8. QED BY <1>1, <1>5, <1>7 DEF Startable, ReadyTasks

\* So the break commented "Deadlock" is never taken on an accepted graph.
THEOREM NoDeadlockBreak == Spec => []NoStall
BY Invariance, NeverStalled, PTL

\* The wave never exceeds maxConcurrent, whatever its value from 0 up.
THEOREM WidthIsBound == Spec => []WidthRespected
<1>1. Init => WidthRespected
  BY FS_EmptySet DEF Init, WidthRespected
<1>2. IInv /\ WidthRespected /\ [Next]_vars => WidthRespected'
  <2> SUFFICES ASSUME IInv, WidthRespected, [Next]_vars, width' >= 0
               PROVE  Cardinality(running') <= width'
    BY DEF WidthRespected
  <2>1. /\ running \in SUBSET Tasks /\ running' \in SUBSET Tasks
        /\ width \in Int /\ width' \in Int
    BY StepPreserves DEF IInv, TypeOK
  <2>2. IsFiniteSet(running) /\ Cardinality(running) \in Nat
    BY <2>1, TasksFinite, FS_CardinalityType
  <2>3. ASSUME NEW d \in Graphs, NEW done \in SUBSET Tasks, NEW w \in Widths,
               NEW ff \in BOOLEAN, Submit(d, done, w, ff)
        PROVE  Cardinality(running') <= width'
    <3>1. running' = {}
      BY <2>3 DEF Submit, IInv, PhaseInv, Engaged
    <3>2. QED BY <3>1, <2>1, FS_EmptySet
  <2>4. CASE LaunchWave
    <3>1. PICK batch \in SUBSET Startable : IsBatch(batch) /\ StartBatch(batch)
      BY <2>4 DEF LaunchWave
    <3>2. running = {} /\ running' = batch /\ width' = width
      BY <2>4, <3>1 DEF LaunchWave, AtLoopHead, StartBatch, request
    <3>3. Cardinality(running) = 0 /\ Cardinality(Startable) \in Nat
      BY <3>2, TasksFinite, FS_EmptySet, FS_CardinalityType DEF Startable, ReadyTasks
    <3>4. Slots = width /\ Cardinality(batch) = SliceLength(width, Cardinality(Startable))
      BY <2>1, <3>1, <3>2, <3>3 DEF IsBatch, IsSlice, Slots
    <3>5. Cardinality(batch) <= width
      BY <2>1, <3>2, <3>3, <3>4 DEF SliceLength
    <3>6. QED BY <3>2, <3>5
  <2>5. CASE Return \/ UNCHANGED vars
    BY <2>5 DEF Return, vars, request, WidthRespected
  <2>6. ASSUME NEW t \in Tasks, TaskSucceeds(t) \/ TaskFails(t)
        PROVE  Cardinality(running') <= width'
    <3>1. running' = running \ {t} /\ width' = width
      BY <2>6 DEF TaskSucceeds, TaskFails, request
    <3>2. Cardinality(running') <= Cardinality(running) /\ Cardinality(running') \in Nat
      BY <2>2, <3>1, FS_Subset, FS_CardinalityType
    <3>3. QED BY <2>1, <2>2, <3>1, <3>2 DEF WidthRespected
  <2>7. QED BY <2>3, <2>4, <2>5, <2>6 DEF Next
<1>3. QED BY <1>1, <1>2, Invariance, PTL DEF Spec

\* With a width of at least 1, run returns only a settled graph.
LEMMA ReturnIsSettled == IInv /\ ReturnsSettledIfWide /\ [Next]_vars => ReturnsSettledIfWide'
<1> SUFFICES ASSUME IInv, ReturnsSettledIfWide, [Next]_vars,
                    width' >= 1, phase' = "returned"
             PROVE  IsComplete(status') \/ (failFast' /\ HasFailed(status'))
  BY DEF ReturnsSettledIfWide, ReturnsSettled
<1>1. CASE Return
  <2>1. UNCHANGED <<deps, seeded, width, failFast, status, running>> /\ AtLoopHead
    BY <1>1 DEF Return, request
  <2>2. CASE ~ Continues
    BY <2>1, <2>2 DEF Continues
  <2>3. CASE IsBatch({})
    <3>1. running = {} /\ width \in Int /\ width >= 1 /\ IsFiniteSet(Startable)
      BY <2>1, TasksFinite DEF IInv, TypeOK, AtLoopHead, Startable, ReadyTasks
    <3>2. Cardinality(running) = 0 /\ Cardinality(Startable) \in Nat
      BY <3>1, FS_EmptySet, FS_CardinalityType
    <3>3. Cardinality(Startable) = 0
      <4>1. SliceLength(width, Cardinality(Startable)) = 0
        BY <2>3, <3>1, <3>2, FS_EmptySet DEF IsBatch, IsSlice, Slots
      <4>2. QED BY <3>1, <3>2, <4>1 DEF SliceLength
    <3>4. Startable = {}
      BY <3>1, <3>3, FS_EmptySet
    <3>5. IsComplete(status)
      BY <2>1, <3>4, NeverStalled DEF NoStall
    <3>6. QED BY <2>1, <3>5
  <2>4. QED BY <1>1, <2>2, <2>3 DEF Return
<1>2. CASE UNCHANGED vars
  BY <1>2 DEF vars, request, ReturnsSettledIfWide, ReturnsSettled
<1>3. ASSUME NEW d \in Graphs, NEW done \in SUBSET Tasks, NEW w \in Widths,
             NEW ff \in BOOLEAN, Submit(d, done, w, ff)
      PROVE  FALSE
  BY <1>3 DEF Submit
<1>4. CASE LaunchWave
  BY <1>4 DEF LaunchWave, AtLoopHead
<1>5. ASSUME NEW t \in Tasks, TaskSucceeds(t) \/ TaskFails(t) PROVE FALSE
  BY <1>5 DEF TaskSucceeds, TaskFails, request, IInv, PhaseInv
<1>6. QED BY <1>1, <1>2, <1>3, <1>4, <1>5 DEF Next

\* run returns only what is settled, at a width of one or more.
THEOREM ReturnsOnlySettled == Spec => []ReturnsSettledIfWide
<1>1. Init => ReturnsSettledIfWide
  BY DEF Init, ReturnsSettledIfWide, ReturnsSettled
<1>2. QED BY <1>1, ReturnIsSettled, Invariance, PTL DEF Spec

\* Success is reported exactly when every task is done.
THEOREM SuccessIsHonest == Spec => []SuccessMeansDone
<1>1. IInv /\ ReturnsSettledIfWide => SuccessMeansDone
  <2> SUFFICES ASSUME IInv, ReturnsSettledIfWide, phase = "returned", width >= 1
               PROVE  Success <=> \A t \in Tasks : status[t] = "done"
    BY DEF SuccessMeansDone
  <2>1. \A s \in TaskStatus : WithStatus(status, s) = {} <=> Cardinality(WithStatus(status, s)) = 0
    BY TasksFinite, FS_EmptySet DEF WithStatus
  <2>2. Success <=> \A t \in Tasks : status[t] \notin {"failed", "skipped"}
    <3>1. Success <=> WithStatus(status, "failed") = {} /\ WithStatus(status, "skipped") = {}
      BY <2>1 DEF Success, FailedCount, SkippedCount, TaskStatus
    <3>2. QED BY <3>1 DEF WithStatus
  <2>3. IsComplete(status) \/ HasFailed(status)
    BY DEF ReturnsSettledIfWide, ReturnsSettled
  <2>4. ASSUME \A t \in Tasks : status[t] \notin {"failed", "skipped"}, NEW t \in Tasks
        PROVE  status[t] = "done"
    BY <2>3, <2>4 DEF IsComplete, HasFailed, TerminalStatus
  <2>5. (\A t \in Tasks : status[t] = "done")
           => \A t \in Tasks : status[t] \notin {"failed", "skipped"}
    OBVIOUS
  <2>6. QED BY <2>2, <2>4, <2>5
<1>2. QED BY <1>1, ReturnsOnlySettled, Invariance, PTL

\* A task runs when, and only when, its dependencies are done (readyTasks and
\* skipDependentsOfFailed of task-graph.ts).
THEOREM OrderIsKept == Spec => []OrderKept
BY TypeCorrect, DependenciesFirst, SkippingIsExact, PTL DEF OrderKept

\* The loop gives up on no valid graph, returns settled graphs only, and what it
\* calls success is one (Orchestrator.run).
THEOREM ReturnIsHonest == Spec => []ReturnsHonestly
BY NoDeadlockBreak, ReturnsOnlySettled, SuccessIsHonest, PTL DEF ReturnsHonestly

\* Under failFast nothing starts once a task has failed.
THEOREM FailFastHalts == Spec => FailFastStartsNothing
<1>1. IInv /\ [Next]_vars =>
        [failFast /\ HasFailed(status) => WithStatus(status', "running") \subseteq running]_vars
  <2> SUFFICES ASSUME IInv, Next, failFast, HasFailed(status)
               PROVE  WithStatus(status', "running") \subseteq running
    OBVIOUS
  <2>1. ~ LaunchWave
    BY DEF LaunchWave, Continues
  <2>2. RunningMatchesStatus' /\ RunningMatchesStatus
    BY StepPreserves DEF IInv
  <2>3. running' \subseteq running
    <3>1. ASSUME NEW d \in Graphs, NEW done \in SUBSET Tasks, NEW w \in Widths,
                 NEW ff \in BOOLEAN, Submit(d, done, w, ff)
          PROVE  running' \subseteq running
      BY <3>1 DEF Submit
    <3>2. ASSUME NEW t \in Tasks, TaskSucceeds(t) \/ TaskFails(t)
          PROVE  running' \subseteq running
      BY <3>2 DEF TaskSucceeds, TaskFails
    <3>3. CASE Return
      BY <3>3 DEF Return
    <3>4. QED BY <2>1, <3>1, <3>2, <3>3 DEF Next
  <2>4. QED BY <2>2, <2>3 DEF RunningMatchesStatus
<1>2. QED BY <1>1, Invariance, PTL DEF Spec, FailFastStartsNothing

----------------------------------------------------------------------------
(* The loop implements the contract *)

\* The contract is instantiated over the same tasks: its graph operators are these.
LEMMA ContractGraph ==
  /\ Contract!Tasks = Tasks
  /\ Contract!TaskStatus = TaskStatus
  /\ Contract!DependencyMaps = DependencyMaps
  /\ \A s : Contract!NewGraph(s) = NewGraph(s)
  /\ \A d : Contract!ValidGraph(d) <=> ValidGraph(d)
  /\ \A t, st, d : Contract!HasBrokenDependency(t, st, d) <=> HasBrokenDependency(t, st, d)
<1>1. Contract!Tasks = Tasks
  BY DEF Contract!Tasks, Tasks
<1>2. Contract!TaskStatus = TaskStatus
  BY DEF Contract!TaskStatus, TaskStatus
<1>3. Contract!DependencyMaps = DependencyMaps
  BY <1>1 DEF Contract!DependencyMaps, DependencyMaps, Contract!UnknownTask, UnknownTask
<1>4. \A s : Contract!NewGraph(s) = NewGraph(s)
  BY <1>1 DEF Contract!NewGraph, NewGraph
<1>5. \A d : Contract!ValidGraph(d) <=> ValidGraph(d)
  BY <1>1 DEF Contract!ValidGraph, ValidGraph, Contract!Acyclic, Acyclic
<1>6. \A t, st, d : Contract!HasBrokenDependency(t, st, d) <=> HasBrokenDependency(t, st, d)
  BY DEF Contract!HasBrokenDependency, HasBrokenDependency, Contract!BrokenStatus, BrokenStatus
<1>7. QED BY <1>1, <1>2, <1>3, <1>4, <1>5, <1>6

\* Handing in a valid graph is the contract's Accept; a bad one changes nothing it sees.
LEMMA SubmitRefines ==
  ASSUME IInv, NEW d \in Graphs, NEW done \in SUBSET Tasks, NEW w \in Widths,
         NEW ff \in BOOLEAN, Submit(d, done, w, ff)
  PROVE  [Contract!Next]_Contract!contractVars
<1>1. CASE ValidGraph(d)
  <2>1. ~ Engaged /\ Engaged' /\ deps' = d /\ status' = NewGraph(done)
    BY <1>1 DEF Submit, Engaged
  <2>2. d \in DependencyMaps
    BY OrchestratorAssumption
  <2>3. Contract!Accept
    <3>1. Contract!ValidGraph(deps') /\ status' = Contract!NewGraph(done)
      BY <1>1, <2>1, ContractGraph
    <3>2. deps' \in Contract!DependencyMaps /\ done \in SUBSET Contract!Tasks
      BY <2>1, <2>2, ContractGraph
    <3>3. QED BY <2>1, <3>1, <3>2 DEF Contract!Accept, Engaged
  <2>4. QED BY <2>3 DEF Contract!Next
<1>2. CASE ~ ValidGraph(d)
  BY <1>2 DEF Submit, request, Contract!contractVars
<1>3. QED BY <1>1, <1>2

\* A wave is a step of the contract.
LEMMA LaunchRefines ==
  ASSUME IInv, LaunchWave
  PROVE  Contract!Progress
<1>1. PICK batch \in SUBSET Startable : StartBatch(batch)
  BY DEF LaunchWave
<1>2. phase = "loop" /\ UNCHANGED <<phase, deps>>
  BY DEF LaunchWave, AtLoopHead, request
<1>3. \A t \in Tasks : t \in batch =>
        status[t] = "pending" /\ \A d \in deps[t] : status[d] = "done"
  BY <1>1 DEF Startable, ReadyTasks
<1>4. status' = [t \in Tasks |-> IF t \in batch THEN "running" ELSE status[t]]
  BY <1>1 DEF StartBatch
<1>5. status' \in [Tasks -> TaskStatus]
  BY <1>4 DEF IInv, TypeOK, TaskStatus
<1>6. \A t \in Tasks : Contract!Begins(t) \/ status'[t] = status[t]
  BY <1>3, <1>4 DEF Contract!Begins
<1>7. QED BY <1>2, <1>5, <1>6, ContractGraph DEF Contract!Progress

\* The end of a task is one, with what it makes the graph skip.
LEMMA EndRefines ==
  ASSUME IInv, NEW t \in Tasks, t \in running, NEW outcome \in {"done", "failed"},
         status' = SkipDependentsOfFailed([status EXCEPT ![t] = outcome], deps),
         UNCHANGED <<phase, deps>>
  PROVE  Contract!Progress
<1> DEFINE marked == [status EXCEPT ![t] = outcome]
<1>1. phase = "loop" /\ Engaged /\ status[t] = "running"
  BY DEF IInv, PhaseInv, TypeOK, Phases, Engaged, RunningMatchesStatus, WithStatus
<1>2. \A u \in Tasks : deps[u] \subseteq Tasks
  BY <1>1, DepsAreTasks
<1>3. marked \in [Tasks -> TaskStatus] /\ marked[t] = outcome
      /\ \A u \in Tasks \ {t} : marked[u] = status[u]
  BY DEF IInv, TypeOK, TaskStatus
<1>4. status' = SkipDependentsOfFailed(marked, deps)
  OBVIOUS
<1> HIDE DEF marked
<1>5. /\ status' \in [Tasks -> TaskStatus]
      /\ \A u \in Tasks : marked[u] # "pending" => status'[u] = marked[u]
      /\ \A u \in Tasks : marked[u] = "pending" => status'[u] \in {"pending", "skipped"}
      /\ \A u \in Tasks : status'[u] = "pending" =>
           marked[u] = "pending" /\ ~ HasBrokenDependency(u, status', deps)
      /\ \A u \in Tasks : marked[u] = "pending" /\ status'[u] = "skipped" =>
           HasBrokenDependency(u, status', deps)
  BY <1>2, <1>3, <1>4, SkipDependentsEffect
<1>6. ASSUME NEW u \in Tasks
      PROVE  Contract!Ends(u) \/ Contract!IsSkipped(u) \/ status'[u] = status[u]
  <2>1. CASE u = t
    BY <1>1, <1>3, <1>5, <2>1 DEF Contract!Ends
  <2>2. CASE u # t
    BY <1>3, <1>5, <2>2, ContractGraph DEF Contract!IsSkipped
  <2>3. QED BY <2>1, <2>2
<1>7. QED BY <1>1, <1>5, <1>6, ContractGraph DEF Contract!Progress

\* Every behaviour of the wave loop is one the contract allows.
THEOREM Refinement == Spec => ImplementsContract
<1>1. Init => Contract!Init
  BY ContractGraph DEF Init, Contract!Init
<1>2. IInv /\ [Next]_vars => [Contract!Next]_Contract!contractVars
  <2> SUFFICES ASSUME IInv, [Next]_vars PROVE [Contract!Next]_Contract!contractVars
    OBVIOUS
  <2>1. ASSUME NEW d \in Graphs, NEW done \in SUBSET Tasks, NEW w \in Widths,
               NEW ff \in BOOLEAN, Submit(d, done, w, ff)
        PROVE  [Contract!Next]_Contract!contractVars
    BY <2>1, SubmitRefines
  <2>2. CASE LaunchWave
    BY <2>2, LaunchRefines DEF Contract!Next
  <2>3. CASE Return
    BY <2>3 DEF Return, AtLoopHead, request, Contract!contractVars
  <2>4. ASSUME NEW t \in Tasks, TaskSucceeds(t) PROVE Contract!Progress
    BY <2>4, EndRefines DEF TaskSucceeds, MarkDone, request
  <2>5. ASSUME NEW t \in Tasks, TaskFails(t) PROVE Contract!Progress
    BY <2>5, EndRefines DEF TaskFails, MarkFailed, request
  <2>6. CASE UNCHANGED vars
    BY <2>6 DEF vars, request, Contract!contractVars
  <2>7. QED BY <2>1, <2>2, <2>3, <2>4, <2>5, <2>6 DEF Next, Contract!Next
<1>3. QED BY <1>1, <1>2, Invariance, PTL DEF Spec, ImplementsContract, Contract!Safety

----------------------------------------------------------------------------
(***************************************************************************)
(* The loops of the task graph. The search has found a cycle exactly when  *)
(* there is one because what it has left behind depends only on what it    *)
(* has left behind and has none; the passes skip what the closed form      *)
(* skips because they skip no other task, and go on while there is one     *)
(* left.                                                                   *)
(***************************************************************************)

Frames == [task : Tasks, left : SUBSET (Tasks \cup {UnknownTask})]

\* The stack of dfs: one frame below another waits for it, and what a frame has no
\* longer to look at is visited or is the frame above it.
StackSound ==
  /\ path \in Seq(Frames)
  /\ \A i \in 1..Len(path) :
       /\ path[i].task \notin visited
       /\ path[i].left \subseteq depMap[path[i].task]
       /\ \A d \in depMap[path[i].task] \ path[i].left :
            d \in visited \/ (i < Len(path) /\ d = path[i + 1].task)
       /\ i < Len(path) => path[i + 1].task \in depMap[path[i].task]
  /\ \A i, j \in 1..Len(path) : path[i].task = path[j].task => i = j

\* What has been left depends only on what has been left, and nobody in it waits in a
\* circle; the tasks a search was started at are among it, but for the one under way.
VisitedSound ==
  /\ visited \subseteq Tasks
  /\ \A t \in visited : depMap[t] \subseteq visited
  /\ \A S \in SUBSET visited : S # {} => \E t \in S : depMap[t] \cap S = {}
  /\ \A k \in Tasks : k < root => k \in visited \/ (path # <<>> /\ path[1].task = k)

SearchInv == pc = "search" => StackSound /\ VisitedSound

\* The passes: only what the closed form skips has been skipped, and as long as a pass
\* has changed nothing, no task before its position is left to skip.
PassInv ==
  /\ before \in [Tasks -> TaskStatus] /\ now \in [Tasks -> TaskStatus]
  /\ \A t \in Tasks : \/ now[t] = before[t]
                      \/ before[t] = "pending" /\ now[t] = "skipped" /\ t \in ToSkip(before, depMap)
  /\ pc = "pass" => node \in Nat \ {0}
  /\ pc = "pass" /\ ~changed =>
       \A t \in Tasks : t < node /\ now[t] = "pending" => ~HasBrokenDependency(t, now, depMap)
  /\ pc = "finished" =>
       \A t \in Tasks : now[t] = "pending" => ~HasBrokenDependency(t, now, depMap)

LoopsInv ==
  /\ depMap \in DependencyMaps /\ root \in Nat \ {0}
  /\ pc \in {"search", "marked", "pass", "finished", "thrown"}
  /\ SearchInv /\ ValidateAgrees /\ PassInv

\* The invariant holds as either loop begins.
LEMMA LoopsStart == LoopsInit => LoopsInv
<1> SUFFICES ASSUME LoopsInit PROVE LoopsInv OBVIOUS
<1>1. StackSound BY DEF LoopsInit, StackSound
<1>2. VisitedSound BY NumTasksAssumption DEF LoopsInit, VisitedSound, Tasks
<1>3. PassInv BY DEF LoopsInit, PassInv, NewGraph, TaskStatus
<1> QED BY <1>1, <1>2, <1>3 DEF LoopsInit, LoopsInv, SearchInv, ValidateAgrees

\* A sequence without its last element.
LEMMA FrontFacts ==
  ASSUME NEW F, NEW s \in Seq(F), s # <<>>
  PROVE  /\ Len(s) \in Nat /\ Len(s) >= 1 /\ s[Len(s)] \in F
         /\ Front(s) \in Seq(F) /\ Len(Front(s)) = Len(s) - 1
         /\ \A i \in 1..Len(s) - 1 : Front(s)[i] = s[i]
<1>1. Len(s) \in Nat /\ Len(s) >= 1 OBVIOUS
<1>2. \A i \in 1..Len(s) : s[i] \in F OBVIOUS
<1>3. Front(s) = SubSeq(s, 1, Len(s) - 1) BY DEF Front
<1> HIDE DEF Front
<1>4. /\ SubSeq(s, 1, Len(s) - 1) \in Seq(F)
      /\ Len(SubSeq(s, 1, Len(s) - 1)) = IF 1 <= Len(s) - 1 THEN Len(s) - 1 - 1 + 1 ELSE 0
      /\ \A i \in 1..(Len(s) - 1) - 1 + 1 : SubSeq(s, 1, Len(s) - 1)[i] = s[1 + i - 1]
  BY <1>1, <1>2, SubSeqProperties
<1>5. Front(s) \in Seq(F) BY <1>3, <1>4
<1>7. Len(Front(s)) = Len(s) - 1
  <2>1. (IF 1 <= Len(s) - 1 THEN Len(s) - 1 - 1 + 1 ELSE 0) = Len(s) - 1
    <3>1. \A n \in Nat : n >= 1 => (IF 1 <= n - 1 THEN n - 1 - 1 + 1 ELSE 0) = n - 1
      OBVIOUS
    <3> QED BY <1>1, <3>1
  <2> QED BY <1>3, <1>4, <2>1, Zenon
<1>6. ASSUME NEW i \in 1..Len(s) - 1 PROVE Front(s)[i] = s[i]
  <2>1. (1 + i) - 1 = i /\ i \in 1..(Len(s) - 1) - 1 + 1 BY <1>1
  <2>2. 1 + i - 1 = i BY <1>1
  <2>3. SubSeq(s, 1, Len(s) - 1)[i] = s[1 + i - 1] BY <1>4, <2>1
  <2> QED BY <1>3, <2>2, <2>3
<1> QED BY <1>1, <1>2, <1>5, <1>6, <1>7

\* What the last frame, and the stack without it, are.
LEMMA StackFacts ==
  ASSUME path \in Seq(Frames), path # <<>>
  PROVE  /\ Len(path) \in Nat /\ Len(path) >= 1
         /\ Last(path) = path[Len(path)] /\ Last(path) \in Frames
         /\ Front(path) \in Seq(Frames) /\ Len(Front(path)) = Len(path) - 1
         /\ \A i \in 1..Len(path) - 1 : Front(path)[i] = path[i]
<1> HIDE DEF Frames
<1> QED BY FrontFacts DEF Last

\* Which tasks are on the stack, in terms of its frames.
LEMMA OnStackFacts ==
  ASSUME path \in Seq(Frames)
  PROVE  \A d : d \in OnStack <=> \E i \in 1..Len(path) : path[i].task = d
BY DEF OnStack, ToSet

\* A task that is met again while it is on the stack is part of a circle.
LEMMA MetAgain ==
  ASSUME LoopsInv, pc = "search", path # <<>>,
         NEW d \in Last(path).left, d \in OnStack
  PROVE  ~ ValidGraph(depMap)
<1> DEFINE n == Len(path)
<1>0. StackSound /\ path \in Seq(Frames) BY DEF LoopsInv, SearchInv, StackSound
<1>1. n \in Nat /\ n >= 1 /\ Last(path) = path[n] BY <1>0, StackFacts
<1>t. \A i \in 1..n : path[i] \in Frames BY <1>0, <1>1
<1>2. PICK j \in 1..n : path[j].task = d BY <1>0, OnStackFacts
<1> DEFINE S == {path[i].task : i \in j..n}
<1>3. S \in SUBSET Tasks /\ S # {}
  <2>1. \A i \in j..n : i \in 1..n BY <1>1, <1>2
  <2>2. \A i \in 1..n : path[i].task \in Tasks BY <1>t DEF Frames
  <2>3. path[n].task \in S BY <1>1, <1>2
  <2> QED BY <2>1, <2>2, <2>3
<1>4. ASSUME NEW t \in S PROVE depMap[t] \cap S # {}
  <2>1. PICK i \in j..n : t = path[i].task OBVIOUS
  <2>2. CASE i < n
    <3>1. path[i + 1].task \in depMap[t] BY <1>0, <1>1, <1>2, <2>1, <2>2 DEF StackSound
    <3>2. i + 1 \in j..n BY <1>1, <1>2, <2>1, <2>2
    <3> QED BY <3>1, <3>2
  <2>3. CASE i = n
    <3>1. d \in depMap[t] BY <1>0, <1>1, <2>1, <2>3 DEF StackSound
    <3>2. d \in S BY <1>1, <1>2
    <3> QED BY <3>1, <3>2
  <2> QED BY <1>1, <2>1, <2>2, <2>3
<1> HIDE DEF S
<1> QED BY <1>3, <1>4 DEF ValidGraph, Acyclic

\* A frame is pushed on a stack whose last frame has looked at its task.
LEMMA Pushed ==
  ASSUME LoopsInv, pc = "search", NEW d \in Tasks, d \notin OnStack, d \notin visited,
         NEW stack \in Seq(Frames), Len(stack) = Len(path),
         \A i \in 1..Len(path) : stack[i].task = path[i].task,
         \A i \in 1..Len(path) - 1 : stack[i] = path[i],
         path # <<>> => /\ d \in depMap[path[Len(path)].task]
                        /\ stack[Len(path)].left = path[Len(path)].left \ {d},
         path' = Append(stack, [task |-> d, left |-> depMap[d]]),
         UNCHANGED <<depMap, visited>>, root' \in Nat \ {0},
         \A k \in Tasks : k < root' => k < root \/ (path = <<>> /\ k = d)
  PROVE  StackSound' /\ VisitedSound'
<1> DEFINE n == Len(path)
           f == [task |-> d, left |-> depMap[d]]
<1>0. StackSound /\ VisitedSound /\ path \in Seq(Frames) BY DEF LoopsInv, SearchInv, StackSound
<1>1. n \in Nat BY <1>0
<1>2. f \in Frames BY DEF LoopsInv, DependencyMaps, Frames
<1>3. /\ path' \in Seq(Frames) /\ Len(path') = n + 1 /\ path'[n + 1] = f
      /\ \A i \in 1..n : path'[i] = stack[i]
  BY <1>1, <1>2
<1>4. \A i \in 1..n : path'[i].task = path[i].task BY <1>3
<1>5. \A i \in 1..n : path[i].task # d BY <1>0, OnStackFacts
<1>6. ASSUME NEW i \in 1..n
      PROVE  /\ path'[i].task \notin visited
             /\ path'[i].left \subseteq depMap[path'[i].task]
             /\ \A e \in depMap[path'[i].task] \ path'[i].left :
                  e \in visited \/ e = path'[i + 1].task
             /\ path'[i + 1].task \in depMap[path'[i].task]
  <2>1. CASE i < n
    <3>1. path'[i] = path[i] /\ path'[i + 1].task = path[i + 1].task /\ i + 1 \in 1..n
      BY <1>1, <1>3, <1>4, <2>1
    <3> QED BY <1>0, <1>1, <2>1, <3>1 DEF StackSound
  <2>2. CASE i = n
    <3>1. path # <<>> BY <1>1, <2>2
    <3>2. path'[n].left = path[n].left \ {d} /\ path'[n].task = path[n].task
      BY <1>1, <1>3, <3>1, <2>2
    <3>3. path'[n + 1].task = d BY <1>3
    <3>4. d \in depMap[path[n].task] BY <3>1
    <3> QED BY <1>0, <1>1, <2>2, <3>2, <3>3, <3>4 DEF StackSound
  <2> QED BY <1>1, <2>1, <2>2
<1>7. path'[n + 1].task = d /\ path'[n + 1].left = depMap[d] BY <1>3
<1>8. \A i \in 1..n + 1 : /\ path'[i].task \notin visited
                          /\ path'[i].left \subseteq depMap[path'[i].task]
                          /\ \A e \in depMap[path'[i].task] \ path'[i].left :
                               e \in visited \/ (i < n + 1 /\ e = path'[i + 1].task)
                          /\ i < n + 1 => path'[i + 1].task \in depMap[path'[i].task]
  <2> SUFFICES ASSUME NEW i \in 1..n + 1
               PROVE  /\ path'[i].task \notin visited
                      /\ path'[i].left \subseteq depMap[path'[i].task]
                      /\ \A e \in depMap[path'[i].task] \ path'[i].left :
                           e \in visited \/ (i < n + 1 /\ e = path'[i + 1].task)
                      /\ i < n + 1 => path'[i + 1].task \in depMap[path'[i].task]
    OBVIOUS
  <2>1. CASE i \in 1..n BY <1>1, <1>6, <2>1
  <2>2. CASE i = n + 1 BY <1>1, <1>7, <2>2
  <2> QED BY <1>1, <2>1, <2>2
<1>9. \A i, j \in 1..n + 1 : path'[i].task = path'[j].task => i = j
  BY <1>0, <1>1, <1>4, <1>5, <1>7 DEF StackSound
<1>10. StackSound'
  <2>1. path' \in Seq(Frames) /\ Len(path') = n + 1 BY <1>3
  <2>2. \A i \in 1..n + 1 : /\ path'[i].task \notin visited'
                            /\ path'[i].left \subseteq depMap'[path'[i].task]
                            /\ \A e \in depMap'[path'[i].task] \ path'[i].left :
                                 e \in visited' \/ (i < n + 1 /\ e = path'[i + 1].task)
                            /\ i < n + 1 => path'[i + 1].task \in depMap'[path'[i].task]
    BY <1>8
  <2> HIDE DEF n
  <2> QED BY <1>9, <2>1, <2>2 DEF StackSound
<1>11. path' # <<>> /\ (path = <<>> => path'[1].task = d) /\ (path # <<>> => path'[1].task = path[1].task)
  BY <1>0, <1>1, <1>3, <1>4, <1>7
<1>12. VisitedSound' BY <1>0, <1>11 DEF VisitedSound, LoopsInv
<1> QED BY <1>10, <1>12

\* A frame has looked at a task that is visited.
LEMMA LookedAt ==
  ASSUME LoopsInv, pc = "search", path # <<>>, NEW d \in Last(path).left, d \in visited,
         path' = Append(Front(path), [Last(path) EXCEPT !.left = Last(path).left \ {d}]),
         UNCHANGED <<depMap, visited, root>>
  PROVE  StackSound' /\ VisitedSound'
<1> DEFINE n == Len(path)
           f == [Last(path) EXCEPT !.left = Last(path).left \ {d}]
<1>0. StackSound /\ VisitedSound /\ path \in Seq(Frames) BY DEF LoopsInv, SearchInv, StackSound
<1>1. /\ n \in Nat /\ n >= 1 /\ Last(path) = path[n] /\ Last(path) \in Frames
      /\ Front(path) \in Seq(Frames) /\ Len(Front(path)) = n - 1
      /\ \A i \in 1..n - 1 : Front(path)[i] = path[i]
  BY <1>0, StackFacts
<1>2. f \in Frames /\ f.task = path[n].task /\ f.left = path[n].left \ {d} BY <1>1 DEF Frames
<1> HIDE DEF f
<1>3. path' = Append(Front(path), f) BY DEF f
<1>4. /\ path' \in Seq(Frames) /\ Len(path') = n /\ path'[n] = f
      /\ \A i \in 1..n - 1 : path'[i] = path[i]
  BY <1>1, <1>2, <1>3
<1>5. \A i \in 1..n : path'[i].task = path[i].task BY <1>1, <1>2, <1>4
<1>6. ASSUME NEW i \in 1..n
      PROVE  /\ path'[i].task \notin visited
             /\ path'[i].left \subseteq depMap[path'[i].task]
             /\ \A e \in depMap[path'[i].task] \ path'[i].left :
                  e \in visited \/ (i < n /\ e = path'[i + 1].task)
             /\ i < n => path'[i + 1].task \in depMap[path'[i].task]
  <2>1. CASE i < n
    <3>1. path'[i] = path[i] /\ path'[i + 1].task = path[i + 1].task BY <1>1, <1>4, <1>5, <2>1
    <3> QED BY <1>0, <2>1, <3>1 DEF StackSound
  <2>2. CASE i = n BY <1>0, <1>1, <1>2, <1>4, <2>2 DEF StackSound
  <2> QED BY <1>1, <2>1, <2>2
<1>7. StackSound' BY <1>0, <1>4, <1>5, <1>6 DEF StackSound
<1>8. path' # <<>> /\ path'[1].task = path[1].task BY <1>1, <1>4, <1>5
<1>9. VisitedSound' BY <1>0, <1>8 DEF VisitedSound
<1> QED BY <1>7, <1>9

\* The last frame is done: its task is visited.
LEMMA LeaveOK == ASSUME LoopsInv, Leave PROVE StackSound' /\ VisitedSound'
<1> DEFINE n == Len(path)
           t == path[n].task
<1>0. StackSound /\ VisitedSound /\ path \in Seq(Frames) /\ path # <<>>
  BY DEF LoopsInv, SearchInv, StackSound, Leave
<1>1. /\ n \in Nat /\ n >= 1 /\ Last(path) = path[n] /\ Last(path) \in Frames
      /\ Front(path) \in Seq(Frames) /\ Len(Front(path)) = n - 1
      /\ \A i \in 1..n - 1 : Front(path)[i] = path[i]
  BY <1>0, StackFacts
<1>2. /\ path' = Front(path) /\ visited' = visited \cup {t} /\ path[n].left = {}
      /\ UNCHANGED <<depMap, root>>
  BY <1>1 DEF Leave
<1>3. t \in Tasks /\ t \notin visited BY <1>0, <1>1 DEF Frames, StackSound
<1>4. depMap[t] \subseteq visited BY <1>0, <1>1, <1>2 DEF StackSound
<1>5. \A i \in 1..n - 1 : path[i].task # t BY <1>0, <1>1 DEF StackSound
<1>6. ASSUME NEW i \in 1..n - 1
      PROVE  /\ path[i].task \notin visited'
             /\ path[i].left \subseteq depMap[path[i].task]
             /\ \A e \in depMap[path[i].task] \ path[i].left :
                  e \in visited' \/ (i < n - 1 /\ e = path[i + 1].task)
             /\ i < n - 1 => path[i + 1].task \in depMap[path[i].task]
  <2>1. path[i].task \notin visited' BY <1>0, <1>1, <1>2, <1>5 DEF StackSound
  <2>2. CASE i < n - 1
    <3>1. /\ path[i].left \subseteq depMap[path[i].task]
          /\ \A e \in depMap[path[i].task] \ path[i].left : e \in visited \/ e = path[i + 1].task
          /\ path[i + 1].task \in depMap[path[i].task]
      BY <1>0, <1>1, <2>2 DEF StackSound
    <3> QED BY <1>2, <2>1, <2>2, <3>1
  <2>3. CASE i = n - 1
    <3>1. \A e \in depMap[path[i].task] \ path[i].left : e \in visited \/ e = t
      BY <1>0, <1>1, <2>3 DEF StackSound
    <3> QED BY <1>0, <1>1, <1>2, <2>1, <2>3, <3>1 DEF StackSound
  <2> QED BY <1>1, <2>2, <2>3
<1>7. StackSound'
  <2>1. path' \in Seq(Frames) /\ Len(path') = n - 1 /\ \A i \in 1..n - 1 : path'[i] = path[i]
    BY <1>1, <1>2
  <2>2. \A i, j \in 1..n - 1 : path'[i].task = path'[j].task => i = j
    BY <1>0, <1>1, <2>1 DEF StackSound
  <2>3. \A i \in 1..n - 1 : i < n - 1 => path'[i + 1] = path[i + 1] BY <1>1, <2>1
  <2>4. ASSUME NEW i \in 1..n - 1
        PROVE  /\ path'[i].task \notin visited'
               /\ path'[i].left \subseteq depMap'[path'[i].task]
               /\ \A e \in depMap'[path'[i].task] \ path'[i].left :
                    e \in visited' \/ (i < n - 1 /\ e = path'[i + 1].task)
               /\ i < n - 1 => path'[i + 1].task \in depMap'[path'[i].task]
    <3>1. path'[i] = path[i] /\ depMap' = depMap BY <1>2, <2>1
    <3> QED BY <1>6, <2>3, <3>1
  <2> HIDE DEF n
  <2> QED BY <2>1, <2>2, <2>4 DEF StackSound
<1>8. \A S \in SUBSET visited' : S # {} => \E u \in S : depMap[u] \cap S = {}
  <2> SUFFICES ASSUME NEW S \in SUBSET visited', S # {} PROVE \E u \in S : depMap[u] \cap S = {}
    OBVIOUS
  <2>1. CASE S = {t} BY <1>3, <1>4, <2>1
  <2>2. CASE S # {t}
    <3>1. S \ {t} \in SUBSET visited /\ S \ {t} # {} BY <1>2, <2>2
    <3>2. PICK u \in S \ {t} : depMap[u] \cap (S \ {t}) = {} BY <1>0, <3>1 DEF VisitedSound
    <3>3. depMap[u] \subseteq visited BY <1>0, <3>1, <3>2 DEF VisitedSound
    <3> QED BY <1>3, <3>2, <3>3
  <2> QED BY <2>1, <2>2
<1>9. \A k \in Tasks : k < root => k \in visited' \/ (path' # <<>> /\ path'[1].task = k)
  <2> SUFFICES ASSUME NEW k \in Tasks, k < root, k \notin visited'
               PROVE  path' # <<>> /\ path'[1].task = k
    OBVIOUS
  <2>1. path[1].task = k /\ k # t BY <1>0, <1>2 DEF VisitedSound
  <2>2. n # 1 BY <2>1
  <2> QED BY <1>1, <1>2, <2>1, <2>2
<1>10. VisitedSound' BY <1>0, <1>2, <1>3, <1>4, <1>8, <1>9 DEF VisitedSound
<1> QED BY <1>7, <1>10

\* Each step of the depth-first search keeps it.
LEMMA SearchOK ==
  ASSUME LoopsInv, SearchFrom \/ Descend \/ Leave \/ Accept
  PROVE  LoopsInv'
<1> DEFINE n == Len(path)
<1>0. /\ pc = "search" /\ StackSound /\ VisitedSound /\ path \in Seq(Frames)
      /\ depMap \in DependencyMaps /\ root \in Nat \ {0} /\ n \in Nat
      /\ depMap' = depMap
  BY DEF LoopsInv, SearchInv, StackSound, SearchFrom, Descend, Leave, Accept, searchVars
\* A step of the search that goes on needs only the two facts of the search.
<1>a. ASSUME pc' = "search", UNCHANGED passVars, root' \in Nat \ {0}, StackSound' /\ VisitedSound'
      PROVE  LoopsInv'
  <2>1. PassInv' BY <1>0, <1>a DEF LoopsInv, PassInv, passVars
  <2> QED BY <1>0, <1>a, <2>1 DEF LoopsInv, SearchInv, ValidateAgrees
\* And one that throws needs a reason.
<1>b. ASSUME pc' = "thrown", UNCHANGED passVars, root' \in Nat \ {0}, ~ ValidGraph(depMap)
      PROVE  LoopsInv'
  <2>1. PassInv' BY <1>0, <1>b DEF LoopsInv, PassInv, passVars
  <2> QED BY <1>0, <1>b, <2>1 DEF LoopsInv, SearchInv, ValidateAgrees
<1>1. CASE SearchFrom
  <2>1. /\ path = <<>> /\ root <= NumTasks /\ root' = root + 1 /\ Enter(root, path)
        /\ UNCHANGED <<depMap, passVars>>
    BY <1>1 DEF SearchFrom
  <2>2. OnStack = {} BY <1>0, <2>1, OnStackFacts
  <2>3. CASE root \in visited /\ path' = path /\ UNCHANGED <<pc, visited>>
    <3>1. StackSound' BY <1>0, <2>1, <2>3 DEF StackSound
    <3>2. VisitedSound' BY <1>0, <2>1, <2>3 DEF VisitedSound, Tasks
    <3> QED BY <1>0, <2>1, <2>3, <3>1, <3>2, <1>a
  <2>4. CASE /\ root \notin visited /\ UNCHANGED <<pc, visited>>
             /\ path' = Append(path, [task |-> root, left |-> depMap[root]])
    <3>1. CASE root \in Tasks
      <4>1. \A k \in Tasks : k < root' => k < root \/ (path = <<>> /\ k = root)
        BY <1>0, <2>1 DEF Tasks
      <4>2. StackSound' /\ VisitedSound'
        <5>1. root' \in Nat \ {0} BY <1>0, <2>1
        <5>2. Len(path) = 0 BY <2>1
        <5>3. /\ \A i \in 1..Len(path) : path[i].task = path[i].task
              /\ \A i \in 1..Len(path) - 1 : path[i] = path[i]
          OBVIOUS
        <5>4. root \notin OnStack BY <2>2
        <5>5. UNCHANGED <<depMap, visited>> BY <2>1, <2>4
        <5> QED BY <1>0, <2>1, <2>4, <3>1, <4>1, <5>1, <5>2, <5>3, <5>4, <5>5, Pushed
      <4> QED BY <1>0, <2>1, <2>4, <4>2, <1>a
    <3> QED BY <1>0, <2>1, <3>1, NumTasksAssumption DEF Tasks
  <2> QED BY <2>1, <2>2, <2>3, <2>4 DEF Enter
<1>2. CASE Descend
  <2>0. /\ path # <<>> /\ n >= 1 /\ UNCHANGED <<depMap, root, passVars>>
        /\ Last(path) = path[n] /\ Last(path) \in Frames
        /\ Front(path) \in Seq(Frames) /\ Len(Front(path)) = n - 1
        /\ \A i \in 1..n - 1 : Front(path)[i] = path[i]
    BY <1>0, <1>2, StackFacts DEF Descend
  <2>1. PICK d \in Last(path).left :
          \/ d \notin Tasks /\ pc' = "thrown" /\ UNCHANGED <<path, visited>>
          \/ /\ d \in Tasks
             /\ Enter(d, Append(Front(path), [Last(path) EXCEPT !.left = Last(path).left \ {d}]))
    BY <1>2 DEF Descend
  <2>2. d \in depMap[path[n].task] /\ path[n].task \in Tasks
    BY <1>0, <2>0, <2>1 DEF StackSound, Frames
  <2>3. CASE d \notin Tasks /\ pc' = "thrown"
    <3>1. ~ ValidGraph(depMap) BY <2>2, <2>3 DEF ValidGraph
    <3> QED BY <1>0, <2>0, <2>3, <3>1, <1>b
  <2> DEFINE f == [Last(path) EXCEPT !.left = Last(path).left \ {d}]
             stack == Append(Front(path), f)
  <2>4. CASE d \in Tasks /\ Enter(d, stack)
    <3>1. CASE d \in OnStack /\ pc' = "thrown"
      BY <1>0, <2>0, <2>1, <3>1, MetAgain, <1>b
    <3>2. CASE d \in visited /\ path' = stack /\ UNCHANGED <<pc, visited>>
      <4>1. StackSound' /\ VisitedSound' BY <1>0, <2>0, <2>1, <3>2, LookedAt
      <4> QED BY <1>0, <2>0, <3>2, <4>1, <1>a
    <3>3. CASE /\ d \notin OnStack /\ d \notin visited /\ UNCHANGED <<pc, visited>>
               /\ path' = Append(stack, [task |-> d, left |-> depMap[d]])
      <4>1. f \in Frames /\ f.task = path[n].task /\ f.left = path[n].left \ {d}
        BY <2>0 DEF Frames
      <4> HIDE DEF f
      <4>2. /\ stack \in Seq(Frames) /\ Len(stack) = n /\ stack[n] = f
            /\ \A i \in 1..n - 1 : stack[i] = path[i]
        BY <1>0, <2>0, <4>1
      <4>3. \A i \in 1..n : stack[i].task = path[i].task BY <1>0, <4>1, <4>2
      <4> HIDE DEF stack
      <4>4. StackSound' /\ VisitedSound'
        BY <1>0, <2>0, <2>2, <2>4, <3>3, <4>1, <4>2, <4>3, Pushed
      <4> QED BY <1>0, <2>0, <3>3, <4>4, <1>a
    <3> QED BY <2>4, <3>1, <3>2, <3>3 DEF Enter
  <2> QED BY <2>1, <2>3, <2>4
<1>3. CASE Leave
  <2>1. StackSound' /\ VisitedSound' BY <1>3, LeaveOK
  <2> QED BY <1>0, <1>3, <2>1, <1>a DEF Leave
<1>4. CASE Accept
  <2>1. /\ path = <<>> /\ root > NumTasks /\ pc' = "marked" /\ UNCHANGED <<depMap, searchVars>>
        /\ \E st \in [Tasks -> TaskStatus] : before' = st /\ now' = st
    BY <1>4 DEF Accept
  <2>2. \A k \in Tasks : k \in visited
    BY <1>0, <2>1, NumTasksAssumption DEF VisitedSound, Tasks
  <2>3. ValidGraph(depMap) BY <1>0, <2>2 DEF VisitedSound, ValidGraph, Acyclic
  <2>4. PassInv' BY <2>1 DEF PassInv
  <2> QED BY <1>0, <2>1, <2>3, <2>4 DEF LoopsInv, SearchInv, ValidateAgrees, searchVars
<1> QED BY <1>1, <1>2, <1>3, <1>4

\* Each step of a pass of skipDependentsOfFailed keeps it.
LEMMA PassOK ==
  ASSUME LoopsInv, BeginPass \/ VisitNode \/ Finish
  PROVE  LoopsInv'
<1>0. /\ pc \in {"marked", "pass"} /\ UNCHANGED <<depMap, root, before>> /\ ValidGraph(depMap)
      /\ PassInv /\ pc' \in {"pass", "finished"}
  BY DEF LoopsInv, ValidateAgrees, BeginPass, VisitNode, Finish, searchVars, passVars
<1>a. ASSUME PassInv' PROVE LoopsInv'
  BY <1>0, <1>a DEF LoopsInv, SearchInv, ValidateAgrees
<1>1. CASE BeginPass
  BY <1>0, <1>1, <1>a DEF BeginPass, PassInv, Tasks
<1>2. CASE VisitNode
  <2>0. /\ pc = "pass" /\ pc' = "pass" /\ node \in Nat \ {0} /\ node' = node + 1
    BY <1>0, <1>2 DEF VisitNode, PassInv
  <2>1. CASE /\ now[node] = "pending" /\ HasBrokenDependency(node, now, depMap)
             /\ now' = [now EXCEPT ![node] = "skipped"] /\ changed' = TRUE
    <3>1. CASE node \in Tasks
      <4>1. before[node] = "pending" BY <1>0, <2>1, <3>1 DEF PassInv
      <4>2. PICK d \in depMap[node] : now[d] \in BrokenStatus BY <2>1 DEF HasBrokenDependency
      <4>3. d \in Tasks BY <1>0, <3>1, <4>2 DEF ValidGraph
      <4>4. before[d] \in BrokenStatus \/ d \in ToSkip(before, depMap)
        BY <1>0, <4>2, <4>3 DEF PassInv
      <4>5. ClosedUnderSkipping(ToSkip(before, depMap), before, depMap)
        BY <1>0, ToSkipClosed DEF ValidGraph
      <4>6. node \in ToSkip(before, depMap)
        BY <3>1, <4>1, <4>2, <4>4, <4>5 DEF ClosedUnderSkipping, HasBrokenDependency
      <4>7. now' \in [Tasks -> TaskStatus] BY <1>0, <2>1 DEF PassInv, TaskStatus
      <4>8. \A t \in Tasks : \/ now'[t] = before[t]
                             \/ /\ before[t] = "pending" /\ now'[t] = "skipped"
                                /\ t \in ToSkip(before, depMap)
        BY <1>0, <2>1, <4>1, <4>6 DEF PassInv
      <4> QED BY <1>0, <2>0, <2>1, <4>7, <4>8, <1>a DEF PassInv
    <3> QED BY <1>2, <2>0, <3>1, NumTasksAssumption DEF VisitNode, Tasks
  <2>2. CASE /\ ~ (now[node] = "pending" /\ HasBrokenDependency(node, now, depMap))
             /\ UNCHANGED <<now, changed>>
    <3>1. ~changed => \A t \in Tasks : t < node' /\ now[t] = "pending"
                                         => ~HasBrokenDependency(t, now, depMap)
      BY <1>0, <2>0, <2>2 DEF PassInv, Tasks
    <3> QED BY <1>0, <2>0, <2>2, <3>1, <1>a DEF PassInv
  <2> QED BY <1>2, <2>1, <2>2 DEF VisitNode
<1>3. CASE Finish
  <2>1. \A t \in Tasks : now[t] = "pending" => ~HasBrokenDependency(t, now, depMap)
    BY <1>0, <1>3, NumTasksAssumption DEF Finish, PassInv, Tasks
  <2> QED BY <1>0, <1>3, <2>1, <1>a DEF Finish, PassInv, passVars
<1> QED BY <1>1, <1>2, <1>3

\* Every step keeps it.
LEMMA LoopsStep == LoopsInv /\ [LoopsNext]_loopVars => LoopsInv'
<1> SUFFICES ASSUME LoopsInv, [LoopsNext]_loopVars PROVE LoopsInv' OBVIOUS
<1>1. CASE UNCHANGED loopVars
  BY <1>1 DEF loopVars, LoopsInv, SearchInv, StackSound, VisitedSound, ValidateAgrees, PassInv
<1> QED BY <1>1, SearchOK, PassOK DEF LoopsNext

\* When the passes have come to an end, they have skipped the least closed set: what they
\* skipped is closed, and every closed set holds what they skipped.
LEMMA LoopsCompute == LoopsInv => LoopsAgree
<1> SUFFICES ASSUME LoopsInv PROVE SkipAgrees BY DEF LoopsAgree, LoopsInv
<1> SUFFICES ASSUME pc = "finished" PROVE now = SkipDependentsOfFailed(before, depMap)
  BY DEF SkipAgrees
<1>1. ValidGraph(depMap) /\ PassInv BY DEF LoopsInv, ValidateAgrees
<1> DEFINE S == {t \in Tasks : before[t] = "pending" /\ now[t] = "skipped"}
<1>2. ClosedUnderSkipping(S, before, depMap)
  <2> SUFFICES ASSUME NEW t \in Tasks, before[t] = "pending",
                      HasBrokenDependency(t, before, depMap) \/ depMap[t] \cap S # {},
                      t \notin S
               PROVE  FALSE
    BY DEF ClosedUnderSkipping
  <2>1. now[t] = "pending" BY <1>1 DEF PassInv
  <2>2. \A d \in depMap[t] : now[d] \notin BrokenStatus
    BY <1>1, <2>1 DEF PassInv, HasBrokenDependency
  <2>3. \A d \in depMap[t] : d \in Tasks BY <1>1 DEF ValidGraph
  <2>4. CASE HasBrokenDependency(t, before, depMap)
    <3>1. PICK d \in depMap[t] : before[d] \in BrokenStatus BY <2>4 DEF HasBrokenDependency
    <3>2. now[d] = before[d] BY <1>1, <2>3, <3>1 DEF PassInv, BrokenStatus
    <3> QED BY <2>2, <3>1, <3>2
  <2>5. CASE depMap[t] \cap S # {}
    BY <2>2, <2>5 DEF BrokenStatus
  <2> QED BY <2>4, <2>5
<1>3. \A t \in Tasks : t \in ToSkip(before, depMap) => t \in S
  BY <1>2 DEF ToSkip
<1>4. \A t \in Tasks : now[t] = IF t \in ToSkip(before, depMap) THEN "skipped" ELSE before[t]
  BY <1>1, <1>3 DEF PassInv
<1>5. now = [t \in Tasks |-> now[t]] BY <1>1 DEF PassInv
<1> QED BY <1>4, <1>5 DEF SkipDependentsOfFailed

\* For any number of tasks and any graph, the search of buildTaskGraph answers whether there is a
\* cycle, and the passes of skipDependentsOfFailed end with the closed form ToSkip
\* (orchestration/task-graph.ts).
THEOREM LoopsAreClosedForms == LoopsSpec => []LoopsAgree
BY LoopsStart, LoopsStep, LoopsCompute, PTL DEF LoopsSpec

=============================================================================
