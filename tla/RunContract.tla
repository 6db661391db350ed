---------------------------- MODULE RunContract ----------------------------
(***************************************************************************)
(* What the rows of team runs promise to whoever reads them (the board,    *)
(* "resume" and the user of the issue), without saying how they come       *)
(* about: tasks of a run move only while it is executed; a task begins     *)
(* when all it depends on is recorded as done, and what is recorded as     *)
(* done stays so, whatever dies and is resumed; a run is settled once, as  *)
(* done if all of it is, and then nothing of it is recorded as running.    *)
(* Slots, processes, events and graphs in memory are the implementation's. *)
(***************************************************************************)
EXTENDS TaskGraph

CONSTANT Runs

VARIABLES
  run,    \* what is recorded of each run
  deps,   \* its dependency map
  task,   \* what is recorded of its tasks
  issue,  \* of its issue
  live    \* the runs that are executed

contractVars == <<run, deps, task, issue, live>>

Init ==
  /\ run = [r \in Runs |-> "none"]
  /\ deps = [r \in Runs |-> [t \in Tasks |-> {}]]
  /\ task = [r \in Runs |-> NewGraph({})]
  /\ issue = [r \in Runs |-> "none"]
  /\ live = {}

\* A run is executed if its list is a graph.
TakenUp(r) ==
  /\ run' = [run EXCEPT ![r] = "running"]
  /\ live' = IF ValidGraph(deps'[r]) THEN live \cup {r} ELSE live
  /\ UNCHANGED task

Create(r) ==
  /\ run[r] = "none" /\ TakenUp(r)
  /\ \E d \in DependencyMaps : deps' = [deps EXCEPT ![r] = d]
  /\ \E i \in {"none", "open"} : issue' = [issue EXCEPT ![r] = i]

Resume(r) ==
  /\ run[r] \in {"running", "failed"} /\ r \notin live /\ TakenUp(r)
  /\ UNCHANGED <<deps, issue>>

\* Failed tasks, and those a crash has left running, may begin again; done ones do not.
Begins(r, t) ==
  /\ task[r][t] # "done" /\ task'[r][t] = "running"
  /\ \A d \in deps[r][t] : task[r][d] = "done"

Ends(r, t) == task[r][t] = "running" /\ task'[r][t] \in {"done", "failed"}

Progress(r) ==
  /\ r \in live
  /\ \A t \in Tasks : Begins(r, t) \/ Ends(r, t) \/ task'[r][t] = task[r][t]
  /\ \A q \in Runs \ {r} : task'[q] = task[q]
  /\ task' \in [Runs -> [Tasks -> TaskStatus]]
  /\ UNCHANGED <<run, deps, issue, live>>

AllDone(r) == \A t \in Tasks : task[r][t] = "done"

Settle(r) ==
  /\ r \in live /\ live' = live \ {r}
  /\ \A t \in Tasks : task[r][t] # "running"
  /\ run' = [run EXCEPT ![r] = IF AllDone(r) THEN "done" ELSE "failed"]
  /\ \/ UNCHANGED issue
     \/ AllDone(r) /\ issue[r] = "open" /\ issue' = [issue EXCEPT ![r] = "closed"]
  /\ UNCHANGED <<deps, task>>

\* Executions die, or give up, and leave their rows as they are.
Abandon ==
  /\ live' \subseteq live
  /\ UNCHANGED <<run, deps, task, issue>>

Dismiss(r) ==
  /\ issue[r] = "open" /\ issue' = [issue EXCEPT ![r] = "dismissed"]
  /\ UNCHANGED <<run, deps, task, live>>

Next ==
  \/ \E r \in Runs : Create(r) \/ Resume(r) \/ Progress(r) \/ Settle(r) \/ Dismiss(r)
  \/ Abandon

Safety == Init /\ [][Next]_contractVars

============================================================================
