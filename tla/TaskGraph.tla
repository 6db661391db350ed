----------------------------- MODULE TaskGraph -----------------------------
(***************************************************************************)
(* The task DAG of src/orchestration/task-graph.ts as operators over a     *)
(* status map and a dependency map.  A task id is its position in the      *)
(* submitted list, which is also its position in the Map the class keeps,  *)
(* so "earlier in insertion order" is "smaller".  Every operator is free   *)
(* of recursion: the while loop of skipDependentsOfFailed is given by the  *)
(* set it computes (module TaskGraphLoops checks the loop against it).     *)
(***************************************************************************)
EXTENDS Integers, FiniteSets

CONSTANT NumTasks   \* tasks in the submitted list

ASSUME NumTasksAssumption == NumTasks \in Nat

Tasks == 1 .. NumTasks

\* An id some "depends" list names and no task has.
UnknownTask == 0

TaskStatus     == {"pending", "running", "done", "failed", "skipped"}
TerminalStatus == {"done", "failed", "skipped"}
BrokenStatus   == {"failed", "skipped"}

DependencyMaps == [Tasks -> SUBSET (Tasks \cup {UnknownTask})]

----------------------------------------------------------------------------
(* Construction *)

\* Tasks with a stored result start as done, the others as pending.
NewGraph(seeded) == [t \in Tasks |-> IF t \in seeded THEN "done" ELSE "pending"]

\* No set of tasks in which everyone waits for another member of the set.
Acyclic(deps) ==
  \A S \in SUBSET Tasks : S # {} => \E t \in S : deps[t] \cap S = {}

\* What the constructor's validate() lets through without throwing.
ValidGraph(deps) ==
  /\ \A t \in Tasks : deps[t] \subseteq Tasks
  /\ Acyclic(deps)

----------------------------------------------------------------------------
(* Queries *)

\* Mutant of ReadyTasks: a dependency need only not be broken.
ReadyTasksUnlessBroken(st, deps) ==
  {t \in Tasks : st[t] = "pending" /\ \A d \in deps[t] : st[d] \notin BrokenStatus}

ReadyTasks(st, deps) ==
  {t \in Tasks : st[t] = "pending" /\ \A d \in deps[t] : st[d] = "done"}

IsComplete(st) == \A t \in Tasks : st[t] \in TerminalStatus

HasFailed(st) == \E t \in Tasks : st[t] = "failed"

HasBrokenDependency(t, st, deps) == \E d \in deps[t] : st[d] \in BrokenStatus

WithStatus(st, s) == {t \in Tasks : st[t] = s}

\* The length of Array.prototype.slice(0, k): a negative end counts from the back.
SliceLength(k, len) ==
  IF k >= 0 THEN (IF k < len THEN k ELSE len)
            ELSE (IF len + k > 0 THEN len + k ELSE 0)

\* batch is S.slice(0, k) with S in insertion order.
IsSlice(batch, S, k) ==
  /\ batch \subseteq S
  /\ Cardinality(batch) = SliceLength(k, Cardinality(S))
  /\ \A b \in batch, r \in S \ batch : b < r

----------------------------------------------------------------------------
(* Updates *)

\* S holds every pending task with a dependency that is broken or in S.
ClosedUnderSkipping(S, st, deps) ==
  \A t \in Tasks :
    /\ st[t] = "pending"
    /\ HasBrokenDependency(t, st, deps) \/ deps[t] \cap S # {}
    => t \in S

\* Mutant of ToSkip: the loop makes one pass, over direct dependents only.
ToSkipDirect(st, deps) ==
  {t \in Tasks : st[t] = "pending" /\ \E d \in deps[t] : st[d] = "failed"}

\* The pending tasks the fixpoint loop turns into skipped: the least closed set.
ToSkip(st, deps) ==
  {t \in Tasks :
     /\ st[t] = "pending"
     /\ \A S \in SUBSET Tasks : ClosedUnderSkipping(S, st, deps) => t \in S}

SkipDependentsOfFailed(st, deps) ==
  LET skipped == ToSkip(st, deps) IN
  [t \in Tasks |-> IF t \in skipped THEN "skipped" ELSE st[t]]

MarkDone(st, deps, t) ==
  SkipDependentsOfFailed([st EXCEPT ![t] = "done"], deps)

\* Mutant of MarkFailed: dependents are not skipped.
MarkFailedOnly(st, deps, t) == [st EXCEPT ![t] = "failed"]

\* Mutant of MarkFailed: the task is put back to be tried again.
MarkFailedRetry(st, deps, t) == [st EXCEPT ![t] = "pending"]

MarkFailed(st, deps, t) ==
  SkipDependentsOfFailed([st EXCEPT ![t] = "failed"], deps)

============================================================================
