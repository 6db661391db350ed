------------------------------ MODULE TeamRun ------------------------------
(***************************************************************************)
(* Team runs that survive a process: TeamCoordinator.run and .resume       *)
(* (src/roles/team-coordinator.ts) over the run, task and issue rows of    *)
(* the SQLite stores (src/projects/).                                      *)
(*                                                                         *)
(* A run is executed by the process that received it: the gateway, which   *)
(* serves several runs and resumes at once, or a command line "run" or     *)
(* "resume", one a process.  An execution keeps the task graph in memory,  *)
(* and learns of its tasks' progress from the process-wide event bus, on   *)
(* which it listens for task events of its team and copies them to its     *)
(* run's rows.  The rows are all that outlives a crash.                    *)
(*                                                                         *)
(* The lead planner is left out: no caller of the coordinator supplies     *)
(* one.  The width of the orchestrator is the coordinator's constant 4.    *)
(***************************************************************************)
EXTENDS TaskGraph

CONSTANTS
  Runs,           \* run ids
  Teams,          \* team ids
  TeamOf,         \* the team each run is for
  GatewaySlots,   \* executions the gateway process may hold at once
  CliSlots,       \* command line processes, one execution each
  Graphs,         \* dependency maps a lead agent may answer with
  MaxCrashes,     \* bound on process crashes
  MaxResumes,     \* bound on resume commands
  ResumesLive,    \* TRUE: resume may be given a run that is still executing
  NoRun           \* not a run

ASSUME TeamRunAssumption ==
  /\ TeamOf \in [Runs -> Teams]
  /\ Graphs \subseteq DependencyMaps
  /\ MaxCrashes \in Nat /\ MaxResumes \in Nat
  /\ ResumesLive \in BOOLEAN
  /\ GatewaySlots \cap CliSlots = {}
  /\ NoRun \notin Runs

VARIABLES
  runRow,      \* team_runs.status, "none" before the row exists
  depsRow,     \* team_run_tasks.depends_json
  taskRow,     \* team_run_tasks.status
  resultRow,   \* whose execution wrote team_run_tasks.result
  issue,       \* the issue opened for the run: "closed" by it, or "dismissed"
  runOf,       \* per slot: the run it executes, or NoRun
  call,        \* per slot: "idle", "run" or "resume"
  stage,       \* per slot: "idle", "tasks" or "synthesis"
  graph,       \* per slot: statuses of its in-memory task graph
  crashes,
  resumes

rows == <<runRow, depsRow, taskRow, resultRow, issue>>
memory == <<runOf, call, stage, graph>>
counters == <<crashes, resumes>>
vars == <<rows, memory, counters>>

Slots == GatewaySlots \cup CliSlots
Width == 4

RunStatus == {"none", "running", "done", "failed"}

----------------------------------------------------------------------------
(* Helpers *)

Process(s) == IF s \in GatewaySlots THEN "gateway" ELSE s

Executing(r) == \E s \in Slots : runOf[s] = r

InFlight(s) == WithStatus(graph[s], "running")

DoneRows(r) == {t \in Tasks : taskRow[r][t] = "done"}

\* subscribeTaskEvents: an execution hears the task events of its own process
\* that carry its team's id, from the start of its tasks to its last line.
Hears(listener, s) ==
  /\ stage[listener] # "idle"
  /\ Process(listener) = Process(s)
  /\ TeamOf[runOf[listener]] = TeamOf[runOf[s]]

\* The runs whose rows an event of slot s reaches.
Touched(s) == {runOf[l] : l \in {l \in Slots : Hears(l, s)}}

\* updateTask(runId, taskId, {status}) by every listener.
WriteStatus(s, ts, new) ==
  taskRow' = [r \in Runs |-> [t \in Tasks |->
                IF r \in Touched(s) /\ t \in ts THEN new ELSE taskRow[r][t]]]

\* ... and {result}: the text is that of s's run, whoever's row it lands in.
WriteResult(s, t) ==
  resultRow' = [r \in Runs |-> [resultRow[r] EXCEPT ![t] =
                  IF r \in Touched(s) THEN runOf[s] ELSE @]]

Vacate(s) ==
  /\ runOf' = [runOf EXCEPT ![s] = NoRun]
  /\ call' = [call EXCEPT ![s] = "idle"]
  /\ stage' = [stage EXCEPT ![s] = "idle"]
  /\ graph' = [graph EXCEPT ![s] = NewGraph({})]

Occupy(s, r, method, done) ==
  /\ runOf' = [runOf EXCEPT ![s] = r]
  /\ call' = [call EXCEPT ![s] = method]
  /\ stage' = [stage EXCEPT ![s] = "tasks"]
  /\ graph' = [graph EXCEPT ![s] = NewGraph(done)]

----------------------------------------------------------------------------
(* Actions *)

Init ==
  /\ runRow = [r \in Runs |-> "none"]
  /\ depsRow = [r \in Runs |-> [t \in Tasks |-> {}]]
  /\ taskRow = [r \in Runs |-> NewGraph({})]
  /\ resultRow = [r \in Runs |-> [t \in Tasks |-> NoRun]]
  /\ issue = [r \in Runs |-> "none"]
  /\ runOf = [s \in Slots |-> NoRun]
  /\ call = [s \in Slots |-> "idle"]
  /\ stage = [s \in Slots |-> "idle"]
  /\ graph = [s \in Slots |-> NewGraph({})]
  /\ crashes = 0
  /\ resumes = 0

\* run(): the lead's task list is in; run, tasks and issue are persisted at once,
\* then the graph is built.  A list that is no DAG throws there, after the rows.
Start(s, r, d, opensIssue) ==
  /\ stage[s] = "idle"
  /\ runRow[r] = "none"
  /\ runRow' = [runRow EXCEPT ![r] = "running"]
  /\ depsRow' = [depsRow EXCEPT ![r] = d]
  /\ issue' = [issue EXCEPT ![r] = IF opensIssue THEN "open" ELSE "none"]
  /\ IF ValidGraph(d) THEN Occupy(s, r, "run", {}) ELSE UNCHANGED memory
  /\ UNCHANGED <<taskRow, resultRow, counters>>

\* Mutant of Resume: the stored results are not handed to the graph.
ResumeFromScratch(s, r) ==
  /\ stage[s] = "idle" /\ resumes < MaxResumes
  /\ runRow[r] \in {"running", "failed"}
  /\ ResumesLive \/ ~ Executing(r)
  /\ resumes' = resumes + 1
  /\ runRow' = [runRow EXCEPT ![r] = "running"]
  /\ IF ValidGraph(depsRow[r]) THEN Occupy(s, r, "resume", {}) ELSE UNCHANGED memory
  /\ UNCHANGED <<depsRow, taskRow, resultRow, issue, crashes>>

\* resume(): any run that is not done is taken up from its rows.
Resume(s, r) ==
  /\ stage[s] = "idle" /\ resumes < MaxResumes
  /\ runRow[r] \in {"running", "failed"}
  /\ ResumesLive \/ ~ Executing(r)
  /\ resumes' = resumes + 1
  /\ runRow' = [runRow EXCEPT ![r] = "running"]
  /\ IF ValidGraph(depsRow[r]) THEN Occupy(s, r, "resume", DoneRows(r)) ELSE UNCHANGED memory
  /\ UNCHANGED <<depsRow, taskRow, resultRow, issue, crashes>>

\* The orchestrator's loop head starts a wave; each start is an event.
LaunchWave(s) ==
  /\ stage[s] = "tasks" /\ InFlight(s) = {}
  /\ \E batch \in SUBSET ReadyTasks(graph[s], depsRow[runOf[s]]) :
       /\ IsSlice(batch, ReadyTasks(graph[s], depsRow[runOf[s]]), Width)
       /\ batch # {}
       /\ graph' = [graph EXCEPT ![s] =
                      [t \in Tasks |-> IF t \in batch THEN "running" ELSE @[t]]]
       /\ WriteStatus(s, batch, "running")
  /\ UNCHANGED <<runRow, depsRow, resultRow, issue, runOf, call, stage, counters>>

TaskSucceeds(s, t) ==
  /\ t \in InFlight(s)
  /\ graph' = [graph EXCEPT ![s] = MarkDone(@, depsRow[runOf[s]], t)]
  /\ WriteStatus(s, {t}, "done")
  /\ WriteResult(s, t)
  /\ UNCHANGED <<runRow, depsRow, issue, runOf, call, stage, counters>>

\* Mutant of TaskFails: the row keeps saying "running".
TaskFailsUnrecorded(s, t) ==
  /\ t \in InFlight(s)
  /\ graph' = [graph EXCEPT ![s] = MarkFailed(@, depsRow[runOf[s]], t)]
  /\ UNCHANGED <<rows, runOf, call, stage, counters>>

TaskFails(s, t) ==
  /\ t \in InFlight(s)
  /\ graph' = [graph EXCEPT ![s] = MarkFailed(@, depsRow[runOf[s]], t)]
  /\ WriteStatus(s, {t}, "failed")
  /\ UNCHANGED <<runRow, depsRow, resultRow, issue, runOf, call, stage, counters>>

\* orchestrator.run returns; the lead is asked for the synthesis.
TasksEnd(s) ==
  /\ stage[s] = "tasks" /\ InFlight(s) = {} /\ IsComplete(graph[s])
  /\ stage' = [stage EXCEPT ![s] = "synthesis"]
  /\ UNCHANGED <<rows, runOf, call, graph, counters>>

AllDone(s) == \A t \in Tasks : graph[s][t] = "done"

\* The synthesis is in: the run row gets its status, run() settles the issue
\* (resume() does not), the execution stops listening and returns.
Finish(s) ==
  /\ stage[s] = "synthesis"
  /\ runRow' = [runRow EXCEPT ![runOf[s]] = IF AllDone(s) THEN "done" ELSE "failed"]
  /\ issue' = [issue EXCEPT ![runOf[s]] =
                 IF call[s] = "run" /\ @ = "open" /\ AllDone(s) THEN "closed" ELSE @]
  /\ Vacate(s)
  /\ UNCHANGED <<depsRow, taskRow, resultRow, crashes, resumes>>

\* A lead agent's run that rejects ends the execution and leaves the row as it is.
SynthesisThrows(s) ==
  /\ stage[s] = "synthesis"
  /\ Vacate(s)
  /\ UNCHANGED <<rows, counters>>

\* The dashboard's user closes the issue: no run is named as the one closing it.
UserClosesIssue(r) ==
  /\ issue[r] = "open"
  /\ issue' = [issue EXCEPT ![r] = "dismissed"]
  /\ UNCHANGED <<runRow, depsRow, taskRow, resultRow, memory, counters>>

\* A process dies with everything it holds in memory.
Crash(p) ==
  /\ crashes < MaxCrashes
  /\ crashes' = crashes + 1
  /\ LET dead == {s \in Slots : Process(s) = p} IN
       /\ \E s \in dead : stage[s] # "idle"
       /\ runOf' = [s \in Slots |-> IF s \in dead THEN NoRun ELSE runOf[s]]
       /\ call' = [s \in Slots |-> IF s \in dead THEN "idle" ELSE call[s]]
       /\ stage' = [s \in Slots |-> IF s \in dead THEN "idle" ELSE stage[s]]
       /\ graph' = [s \in Slots |-> IF s \in dead THEN NewGraph({}) ELSE graph[s]]
  /\ UNCHANGED <<rows, resumes>>

Work(s) ==
  \/ LaunchWave(s)
  \/ \E t \in Tasks : TaskSucceeds(s, t)
  \/ \E t \in Tasks : TaskFails(s, t)
  \/ TasksEnd(s)
  \/ Finish(s)
  \/ SynthesisThrows(s)

Next ==
  \/ \E s \in Slots, r \in Runs, d \in Graphs, i \in BOOLEAN : Start(s, r, d, i)
  \/ \E s \in Slots, r \in Runs : Resume(s, r)
  \/ \E s \in Slots : Work(s)
  \/ \E r \in Runs : UserClosesIssue(r)
  \/ \E p \in {Process(s) : s \in Slots} : Crash(p)

Spec == Init /\ [][Next]_vars

----------------------------------------------------------------------------
(* Properties *)

\* Every variable holds a value of its kind (rows, executions, counters).
TypeOK ==
  /\ runRow \in [Runs -> RunStatus]
  /\ depsRow \in [Runs -> DependencyMaps]
  /\ taskRow \in [Runs -> [Tasks -> TaskStatus]]
  /\ resultRow \in [Runs -> [Tasks -> Runs \cup {NoRun}]]
  /\ issue \in [Runs -> {"none", "open", "closed", "dismissed"}]
  /\ runOf \in [Slots -> Runs \cup {NoRun}]
  /\ call \in [Slots -> {"idle", "run", "resume"}]
  /\ stage \in [Slots -> {"idle", "tasks", "synthesis"}]
  /\ graph \in [Slots -> [Tasks -> TaskStatus]]
  /\ crashes \in 0 .. MaxCrashes /\ resumes \in 0 .. MaxResumes

\* The stored result of a task is that of its own run ("Source of truth for
\* resumable team runs"): it is what a resumed run hands to the task's dependents.
ResultsAreOwn ==
  \A r \in Runs, t \in Tasks : taskRow[r][t] = "done" => resultRow[r][t] = r

\* A live execution's rows are done exactly where its graph is, and say failed where
\* a task failed: nothing done is forgotten by a crash now, and nothing else is taken
\* for done by a resume.
RowsFollowGraph ==
  \A s \in Slots, t \in Tasks :
    stage[s] # "idle" =>
      /\ graph[s][t] = "done" <=> taskRow[runOf[s]][t] = "done"
      /\ graph[s][t] = "failed" => taskRow[runOf[s]][t] = "failed"

\* A run recorded as done has every task recorded as done.
DoneRunIsDone ==
  \A r \in Runs : runRow[r] = "done" => DoneRows(r) = Tasks

\* Resuming does not repeat work: no execution starts a task its run has done.
NothingRedone ==
  [][\A s \in Slots, t \in Tasks :
       graph[s][t] # "running" /\ graph'[s][t] = "running"
         => taskRow[runOf[s]][t] # "done"]_vars

\* An issue closed in a run's name belongs to a run that is done.
ClosedMeansDone ==
  \A r \in Runs : issue[r] = "closed" => runRow[r] = "done"

\* The parts together: what the database says of a team run is what happened.
RowsTellTheTruth ==
  TypeOK /\ ResultsAreOwn /\ RowsFollowGraph /\ DoneRunIsDone /\ ClosedMeansDone

----------------------------------------------------------------------------
(* The rows, seen from outside *)

LiveRuns == {r \in Runs : Executing(r)}

\* The rows are all that a resume, the board and the user see: they implement the
\* contract, whatever crashes, resumes and runs at once.
Contract == INSTANCE RunContract WITH run <- runRow, deps <- depsRow, task <- taskRow,
                                      live <- LiveRuns

RowsImplementContract == Contract!Safety

============================================================================
