---------------------------- MODULE DagContract ----------------------------
(***************************************************************************)
(* What the orchestrator promises its callers (the header of               *)
(* src/orchestration/orchestrator.ts), without saying how: each task of an *)
(* accepted graph moves on its own, begins only when all it depends on is  *)
(* done, is skipped only behind a dependency that failed or was skipped,   *)
(* never leaves a terminal status, and all of them reach one.  Widths,     *)
(* waves, insertion order and the fixpoint loop are the implementation's.  *)
(***************************************************************************)
EXTENDS TaskGraph

VARIABLES
  accepted,   \* a valid graph was handed in
  deps,       \* its dependency map
  status      \* its tasks' statuses

contractVars == <<accepted, deps, status>>

Init ==
  /\ accepted = FALSE
  /\ deps = [t \in Tasks |-> {}]
  /\ status = NewGraph({})

Accept ==
  /\ ~ accepted
  /\ accepted' = TRUE
  /\ deps' \in DependencyMaps
  /\ ValidGraph(deps')
  /\ \E seeded \in SUBSET Tasks : status' = NewGraph(seeded)

Begins(t) ==
  /\ status[t] = "pending" /\ status'[t] = "running"
  /\ \A d \in deps[t] : status[d] = "done"

Ends(t) == status[t] = "running" /\ status'[t] \in {"done", "failed"}

IsSkipped(t) ==
  /\ status[t] = "pending" /\ status'[t] = "skipped"
  /\ HasBrokenDependency(t, status', deps)

\* Any number of tasks may move in one step, each by a move of its own.
Progress ==
  /\ accepted
  /\ \A t \in Tasks : Begins(t) \/ Ends(t) \/ IsSkipped(t) \/ status'[t] = status[t]
  /\ status' \in [Tasks -> TaskStatus]
  /\ UNCHANGED <<accepted, deps>>

Next == Accept \/ Progress

Safety == Init /\ [][Next]_contractVars

============================================================================
