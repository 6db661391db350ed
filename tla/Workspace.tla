------------------------------ MODULE Workspace ------------------------------
(***************************************************************************)
(* The live view of tasks and agents that the events of team runs build    *)
(* (src/workspace/workspace-tracker.ts), against what really runs.         *)
(*                                                                         *)
(* The emitters are src/orchestration/orchestrator.ts and                  *)
(* src/roles/team-coordinator.ts.  A task of the model is an id as one     *)
(* execution of a team uses it.  The ids of the tasks a lead plans are its *)
(* own ("t1"), so two executions may use the same one at once; those of    *)
(* the lead's planning and synthesis name the team.  Nothing emits         *)
(* task:skipped, so a task that was created and not run stays pending in   *)
(* the view.  Team records are left out: the tracker keeps one per team,   *)
(* and the view of tasks and agents does not read them.                    *)
(***************************************************************************)
EXTENDS Integers, Sequences, SequencesExt

CONSTANTS
  PanelTasks, \* ids of tasks, each as one execution uses it
  IdOf,       \* the id it is emitted under
  LeadTasks,  \* those of a lead's planning or synthesis, created and started at once
  Workers,    \* agents
  WorkerOf,   \* the agent a task is assigned to
  MaxTasks,   \* MAX_TASKS
  MaxCreated, \* bound: tasks created
  MaxClears,  \* bound: times the user clears the view
  NoTask      \* currentTaskId is undefined

Ids == {IdOf[t] : t \in PanelTasks}

ASSUME WorkspaceAssumption ==
  /\ LeadTasks \subseteq PanelTasks
  /\ WorkerOf \in [PanelTasks -> Workers]
  /\ MaxTasks \in Nat \ {0} /\ MaxCreated \in Nat /\ MaxClears \in Nat
  /\ NoTask \notin Ids

VARIABLES
  listing,  \* tasks of the tracker, by age: [id, status]
  activity, \* agents of the tracker: [status, task], "none" when not listed
  real,     \* what a task does: "none", "created", "running", "ended", "rejected"
  since,    \* tasks created since the view was cleared
  mixed,    \* history: ids that two executions had in progress at once
  made, clears

wsVars == <<listing, activity, real, since, mixed, made, clears>>

Final == {"done", "failed", "skipped"}
InProgress(t) == real[t] \in {"created", "running"}
PlacesOf(l, id) == {i \in DOMAIN l : l[i].id = id}
Without(l, id) ==
  IF PlacesOf(l, id) = {} THEN l ELSE RemoveAt(l, CHOOSE i \in PlacesOf(l, id) : TRUE)
Restatus(t, st) ==
  [i \in DOMAIN listing |->
    IF listing[i].id = IdOf[t] THEN [listing[i] EXCEPT !.status = st] ELSE listing[i]]
Unlisted == [status |-> "none", task |-> NoTask]
IdleAgent == [status |-> "idle", task |-> NoTask]

WorkspaceInit ==
  /\ listing = <<>>
  /\ activity = [a \in Workers |-> Unlisted]
  /\ real = [t \in PanelTasks |-> "none"]
  /\ since = {} /\ mixed = {} /\ made = 0 /\ clears = 0

\* Mutant of Evicted: the oldest task, whatever it does.
EvictedOldest(l) == IF Len(l) < MaxTasks THEN l ELSE Tail(l)

\* The eviction of task:created: the oldest task that has ended, if there is one.
Evicted(l) ==
  LET ended == {i \in DOMAIN l : l[i].status \in Final} IN
  IF Len(l) < MaxTasks \/ ended = {} THEN l
  ELSE RemoveAt(l, CHOOSE i \in ended : \A j \in ended : i <= j)

\* Mutant of Entered: the entry of an earlier task with the id stays.
EnteredBeside(t, status) == Append(Evicted(listing), [id |-> IdOf[t], status |-> status])

\* tasks.set(): the entry of another task with the id, whatever it does, is replaced.
Entered(t, status) ==
  Append(Without(Evicted(listing), IdOf[t]), [id |-> IdOf[t], status |-> status])

\* What an execution announces anew, and whether another has the id in progress.
Announced(t) ==
  /\ ~InProgress(t)
  /\ made < MaxCreated /\ made' = made + 1
  /\ since' = since \cup {t}
  /\ mixed' = IF \E u \in PanelTasks \ {t} : IdOf[u] = IdOf[t] /\ InProgress(u)
                THEN mixed \cup {IdOf[t]} ELSE mixed \ {IdOf[t]}

\* task:created, for each task of the lead's plan, or of the rows a resume reads, before
\* the first of them starts.
Created(t) ==
  /\ t \notin LeadTasks /\ Announced(t)
  /\ real' = [real EXCEPT ![t] = "created"]
  /\ listing' = Entered(t, "pending")
  /\ UNCHANGED <<activity, clears>>

\* task:created and task:started of the lead's own work, one after the other.
LeadBegins(t) ==
  /\ t \in LeadTasks /\ Announced(t)
  /\ real' = [real EXCEPT ![t] = "running"]
  /\ listing' = Entered(t, "running")
  /\ activity' = [activity EXCEPT ![WorkerOf[t]] = [status |-> "thinking", task |-> IdOf[t]]]
  /\ UNCHANGED clears

\* task:started, and setAgentStatus().
Started(t) ==
  /\ real[t] = "created"
  /\ real' = [real EXCEPT ![t] = "running"]
  /\ listing' = Restatus(t, "running")
  /\ activity' = [activity EXCEPT ![WorkerOf[t]] = [status |-> "thinking", task |-> IdOf[t]]]
  /\ UNCHANGED <<since, mixed, made, clears>>

\* A task that was announced is skipped, or its run is given up: nothing is emitted.
Abandoned(t) ==
  /\ real[t] = "created"
  /\ real' = [real EXCEPT ![t] = "ended"]
  /\ UNCHANGED <<listing, activity, since, mixed, made, clears>>

\* task:step: an agent that is listed keeps its current task.
Step(t, status) ==
  LET a == WorkerOf[t] IN
  /\ real[t] = "running"
  /\ activity' = [activity EXCEPT ![a] =
       IF @.status = "none" THEN [status |-> status, task |-> IdOf[t]] ELSE [@ EXCEPT !.status = status]]
  /\ UNCHANGED <<listing, real, since, mixed, made, clears>>

\* tool:request, also of an agent that has no task.
ToolRequest(a) ==
  /\ activity' = [activity EXCEPT ![a].status = "tool_use"]
  /\ UNCHANGED <<listing, real, since, mixed, made, clears>>

\* tool:result: an agent without a task is left thinking.
ToolResult(a) ==
  /\ activity[a].status = "tool_use"
  /\ activity' = [activity EXCEPT ![a].status = "thinking"]
  /\ UNCHANGED <<listing, real, since, mixed, made, clears>>

\* task:done and task:failed, and clearAgentTask(): an agent whose current task is
\* another, or unknown after a clear, is left as it is.
Ended(t, status) ==
  LET a == WorkerOf[t] IN
  /\ real[t] = "running"
  /\ real' = [real EXCEPT ![t] = "ended"]
  /\ listing' = Restatus(t, status)
  /\ activity' = [activity EXCEPT ![a] = IF @.task = IdOf[t] THEN IdleAgent ELSE @]
  /\ UNCHANGED <<since, mixed, made, clears>>

\* The run that the lead's work waits for rejects: the execution ends with neither
\* task:done nor task:failed.
Rejected(t) ==
  /\ t \in LeadTasks /\ real[t] = "running"
  /\ real' = [real EXCEPT ![t] = "rejected"]
  /\ UNCHANGED <<listing, activity, since, mixed, made, clears>>

\* clear().
Clear ==
  /\ clears < MaxClears /\ clears' = clears + 1
  /\ listing' = <<>>
  /\ activity' = [a \in Workers |-> Unlisted]
  /\ since' = {}
  /\ UNCHANGED <<real, mixed, made>>

WorkspaceNext ==
  \/ \E t \in PanelTasks :
       \/ Created(t) \/ LeadBegins(t) \/ Started(t) \/ Abandoned(t) \/ Rejected(t)
       \/ \E st \in {"thinking", "tool_use"} : Step(t, st)
       \/ \E st \in {"done", "failed"} : Ended(t, st)
  \/ \E a \in Workers : ToolRequest(a) \/ ToolResult(a)
  \/ Clear

WorkspaceSpec == WorkspaceInit /\ [][WorkspaceNext]_wsVars

----------------------------------------------------------------------------
(* Properties *)

\* Every variable holds a value of its kind, and no id is listed twice.
WorkspaceTypeOK ==
  /\ \A i \in DOMAIN listing :
       /\ listing[i].id \in Ids /\ listing[i].status \in {"pending", "running"} \cup Final
       /\ \A j \in DOMAIN listing : listing[i].id = listing[j].id => i = j
  /\ activity \in [Workers -> [status : {"none", "idle", "thinking", "tool_use"}, task : Ids \cup {NoTask}]]
  /\ real \in [PanelTasks -> {"none", "created", "running", "ended", "rejected"}]
  /\ since \subseteq PanelTasks /\ mixed \subseteq Ids
  /\ made \in 0..MaxCreated /\ clears \in 0..MaxClears

\* A task that runs is in the view, as running, unless the user cleared the view after
\* it was created or another execution had a task with its id in progress meanwhile:
\* the history's cap never pushes it out, nor does the end of a task with another id
\* touch it.
RunningIsTracked ==
  \A t \in since : real[t] = "running" /\ IdOf[t] \notin mixed =>
    \E i \in DOMAIN listing : listing[i] = [id |-> IdOf[t], status |-> "running"]

\* What is shown as running runs, under whatever id, or is a lead's work whose run
\* rejected.
ShownRunningRuns ==
  \A i \in DOMAIN listing : listing[i].status = "running" =>
    \E t \in PanelTasks : IdOf[t] = listing[i].id /\ real[t] \in {"running", "rejected"}

\* The task an agent is said to work on is its own and runs, or is a lead's work whose
\* run rejected.
CurrentTaskRuns ==
  \A a \in Workers : activity[a].task # NoTask =>
    \E t \in PanelTasks :
      IdOf[t] = activity[a].task /\ WorkerOf[t] = a /\ real[t] \in {"running", "rejected"}

============================================================================
