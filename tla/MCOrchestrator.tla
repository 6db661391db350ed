--------------------------- MODULE MCOrchestrator ---------------------------
(* Constants for TLC: what callers may submit.  A behaviour is either one of  *)
(* the orchestrator or one of the two loops it takes as steps, whichever part *)
(* is chosen at the start.                                                    *)
EXTENDS Orchestrator, TaskGraphLoops

\* Every dependency map over the tasks, cyclic ones included, and one that
\* names an unknown task.
AllGraphs ==
  [Tasks -> SUBSET Tasks]
    \cup {[t \in Tasks |-> IF t = 1 THEN {UnknownTask} ELSE {}]}

SomeWidths == {-1, 0, 1, 2}

VARIABLE part
partVars == <<part, vars, loopVars>>

MCInit ==
  /\ part \in {"orchestrator", "loops"}
  /\ part = "orchestrator" => depMap = [t \in Tasks |-> {}]
  /\ Init /\ LoopsInit

MCNext ==
  /\ \/ part = "orchestrator" /\ Next /\ UNCHANGED loopVars
     \/ part = "loops" /\ LoopsNext /\ UNCHANGED vars
  /\ UNCHANGED part

MCSpec ==
  /\ MCInit /\ [][MCNext]_partVars
  /\ Fairness /\ WF_loopVars(part = "loops" /\ LoopsNext)

\* The orchestrator keeps its promise of progress, and both loops come to an end.
Terminates == KeepsPromise /\ (part = "loops" => LoopsEnd)

============================================================================
