---------------------------- MODULE Orchestrator ----------------------------
(***************************************************************************)
(* Orchestrator.run of src/orchestration/orchestrator.ts over a TaskGraph. *)
(*                                                                         *)
(* The loop alternates between its head, where it is synchronous (read the *)
(* ready tasks, slice them to the free width, mark and start each of them) *)
(* and the await of Promise.all over the wave it started.  Between two     *)
(* awaits nothing else runs, so one pass of the loop head is one action;   *)
(* while the wave is awaited its tasks end one by one, in any order.  The  *)
(* loop head runs again only when the whole wave has ended.                *)
(***************************************************************************)
EXTENDS TaskGraph

CONSTANTS
  Graphs,   \* dependency maps a caller may submit
  Widths    \* maxConcurrent values a caller may submit (not validated)

ASSUME OrchestratorAssumption ==
  /\ Graphs \subseteq DependencyMaps
  /\ Widths \subseteq Int

VARIABLES
  phase,      \* "idle", "loop", "returned" or "rejected" (the constructor threw)
  deps,       \* the graph's dependency map
  seeded,     \* tasks that had a stored result (completedResults)
  width,      \* maxConcurrent
  failFast,   \* req.failFast
  status,     \* the graph's node statuses
  running,    \* the local Set of started and unfinished tasks
  sawResults  \* per task: whose results its prompt could be given when it started

request == <<deps, seeded, width, failFast>>
vars == <<phase, deps, seeded, width, failFast, status, running, sawResults>>

Phases == {"idle", "loop", "returned", "rejected"}

----------------------------------------------------------------------------
(* The loop head *)

\* graph.readyTasks() without those already started.
Startable == ReadyTasks(status, deps) \ running

\* maxConcurrent - running.size
Slots == width - Cardinality(running)

\* toStart: the first Slots startable tasks in insertion order.
IsBatch(batch) == IsSlice(batch, Startable, Slots)

\* The loop head is reached: Promise.all over the last wave has settled.
AtLoopHead == phase = "loop" /\ running = {}

Continues == ~ IsComplete(status) /\ ~ (failFast /\ HasFailed(status))

\* startTask of a batch, one after the other with no await in between.
StartBatch(batch) ==
  /\ status' = [t \in Tasks |-> IF t \in batch THEN "running" ELSE status[t]]
  /\ running' = running \cup batch
  /\ sawResults' = [t \in Tasks |-> IF t \in batch THEN WithStatus(status, "done")
                                    ELSE sawResults[t]]

----------------------------------------------------------------------------
(* Actions *)

Init ==
  /\ phase = "idle"
  /\ deps = [t \in Tasks |-> {}]
  /\ seeded = {}
  /\ width = 0
  /\ failFast = FALSE
  /\ status = NewGraph({})
  /\ running = {}
  /\ sawResults = [t \in Tasks |-> {}]

\* run(req): build and validate the graph; a bad graph throws out of run.
Submit(d, done, w, ff) ==
  /\ phase = "idle"
  /\ IF ValidGraph(d)
       THEN /\ phase' = "loop"
            /\ deps' = d
            /\ seeded' = done
            /\ width' = w
            /\ failFast' = ff
            /\ status' = NewGraph(done)
       ELSE /\ phase' = "rejected"
            /\ UNCHANGED <<request, status>>
  /\ UNCHANGED <<running, sawResults>>

LaunchWave ==
  /\ AtLoopHead /\ Continues
  /\ \E batch \in SUBSET Startable :
       /\ IsBatch(batch)
       /\ batch # {}
       /\ StartBatch(batch)
  /\ UNCHANGED <<phase, request>>

\* The loop condition, the failFast break and the "Deadlock" break.
Return ==
  /\ AtLoopHead
  /\ ~ Continues \/ IsBatch({})
  /\ phase' = "returned"
  /\ UNCHANGED <<request, status, running, sawResults>>

\* runtime.run answered success.
TaskSucceeds(t) ==
  /\ t \in running
  /\ status' = MarkDone(status, deps, t)
  /\ running' = running \ {t}
  /\ UNCHANGED <<phase, request, sawResults>>

\* runtime.run answered failure or threw.
TaskFails(t) ==
  /\ t \in running
  /\ status' = MarkFailed(status, deps, t)
  /\ running' = running \ {t}
  /\ UNCHANGED <<phase, request, sawResults>>

Next ==
  \/ \E d \in Graphs, done \in SUBSET Tasks, w \in Widths, ff \in BOOLEAN :
       Submit(d, done, w, ff)
  \/ LaunchWave
  \/ Return
  \/ \E t \in Tasks : TaskSucceeds(t)
  \/ \E t \in Tasks : TaskFails(t)

Spec == Init /\ [][Next]_vars

\* The event loop runs ready continuations, and an agent run ends by its deadline.
Fairness ==
  /\ WF_vars(LaunchWave)
  /\ WF_vars(Return)
  /\ \A t \in Tasks : WF_vars(TaskSucceeds(t) \/ TaskFails(t))

FairSpec == Spec /\ Fairness

----------------------------------------------------------------------------
(* The result object *)

FailedCount  == Cardinality(WithStatus(status, "failed"))
SkippedCount == Cardinality(WithStatus(status, "skipped"))

Success == FailedCount = 0 /\ SkippedCount = 0

----------------------------------------------------------------------------
(* Properties *)

\* Every variable holds a value of its kind; orchestrator.ts and task-graph.ts state.
TypeOK ==
  /\ phase \in Phases
  /\ deps \in DependencyMaps
  /\ seeded \in SUBSET Tasks
  /\ width \in Int
  /\ failFast \in BOOLEAN
  /\ status \in [Tasks -> TaskStatus]
  /\ running \in SUBSET Tasks
  /\ sawResults \in [Tasks -> SUBSET Tasks]

\* A task that ran had the result of every task it depends on to inject into its
\* prompt (resolvePrompt), and those tasks are still done.
RanAfterDependencies ==
  \A t \in Tasks \ seeded :
    status[t] \in {"running", "done", "failed"} =>
      \A d \in deps[t] : d \in sawResults[t] /\ status[d] = "done"

\* The wave's bookkeeping never drifts from the node statuses: what the Set
\* "running" holds is what the graph calls running, so no task is started twice.
RunningMatchesStatus == running = WithStatus(status, "running")

\* At most maxConcurrent tasks run at once ("Max tasks running simultaneously").
WidthRespected == width >= 0 => Cardinality(running) <= width

\* Skipping is exact: a task that had no stored result is skipped when, and only
\* when, one of its dependencies failed or was skipped.
SkipExact ==
  phase \in {"loop", "returned"} =>
    \A t \in Tasks \ seeded :
      status[t] = "skipped" <=> HasBrokenDependency(t, status, deps)

\* The break commented "Deadlock - shouldn't happen if the graph is valid" is not
\* taken: with nothing running and work left there is always a ready task.
NoStall == AtLoopHead /\ ~ IsComplete(status) => Startable # {}

\* run returns only when the graph is complete, or has failed under failFast
\* ("Repeating until complete or a terminal failure occurs").
ReturnsSettled ==
  phase = "returned" => IsComplete(status) \/ (failFast /\ HasFailed(status))

\* The same for the widths the config schema allows (minimum 1).
ReturnsSettledIfWide == width >= 1 => ReturnsSettled

\* What the caller reads as success means that every task is done.
SuccessMeansDone ==
  phase = "returned" /\ width >= 1 => (Success <=> \A t \in Tasks : status[t] = "done")

\* After the first failure a failFast run starts nothing more.
FailFastStartsNothing ==
  [][failFast /\ HasFailed(status) => WithStatus(status', "running") \subseteq running]_vars

\* The three together: a task runs when, and only when, its dependencies are done.
OrderKept == TypeOK /\ RanAfterDependencies /\ SkipExact

\* The three together: run never gives up early, never returns early, and what it
\* returns as success is one.
ReturnsHonestly == NoStall /\ ReturnsSettledIfWide /\ SuccessMeansDone

Contract == INSTANCE DagContract WITH accepted <- phase \in {"loop", "returned"}

\* Each step of the loop is a step, or a stutter, of the contract.
ImplementsContract == Contract!Safety

\* ... and without failFast, at a width of 1 or more, it keeps the promise of progress.
KeepsPromise ==
  []((phase = "loop" /\ width >= 1 /\ ~ failFast) => <>IsComplete(status))

============================================================================
