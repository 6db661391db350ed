--------------------------- MODULE TaskGraphLoops ---------------------------
(***************************************************************************)
(* The two loops of src/orchestration/task-graph.ts, one iteration a step: *)
(* the depth-first search of validate() and the repeated pass of           *)
(* skipDependentsOfFailed().  Module TaskGraph gives their results in      *)
(* closed form; this module is where TLC compares the two.                 *)
(***************************************************************************)
EXTENDS TaskGraph, Sequences, SequencesExt

VARIABLES
  pc,        \* "search", "marked", "pass", "finished" or "thrown"
  depMap,      \* the dependency map
  path,      \* the call stack of dfs: a sequence of [task, left]
  visited,   \* the Set "visited"
  root,      \* validate()'s own loop: the next task to start a search at
  before,    \* statuses when skipDependentsOfFailed is entered
  now,       \* statuses as the loop rewrites them
  node,      \* the inner loop's position in insertion order
  changed    \* the loop flag

loopVars == <<pc, depMap, path, visited, root, before, now, node, changed>>
searchVars == <<path, visited, root>>
passVars == <<before, now, node, changed>>

OnStack == {f.task : f \in ToSet(path)}

LoopsInit ==
  /\ pc = "search"
  /\ depMap \in DependencyMaps
  /\ path = <<>>
  /\ visited = {}
  /\ root = 1
  /\ before = NewGraph({})
  /\ now = NewGraph({})
  /\ node = 1
  /\ changed = FALSE

----------------------------------------------------------------------------
(* validate() *)

\* Mutant of Enter: a task counts as visited from its entry, not its exit.
EnterMarkingEarly(id, stack) ==
  \/ /\ id \in visited
     /\ path' = stack
     /\ UNCHANGED <<pc, visited>>
  \/ /\ id \notin visited
     /\ path' = Append(stack, [task |-> id, left |-> depMap[id]])
     /\ visited' = visited \cup {id}
     /\ UNCHANGED pc

\* The head of dfs(id): a task on the stack is a cycle, a visited one is done.
Enter(id, stack) ==
  \/ /\ id \in OnStack
     /\ pc' = "thrown"
     /\ UNCHANGED <<path, visited>>
  \/ /\ id \notin OnStack
     /\ id \in visited
     /\ path' = stack
     /\ UNCHANGED <<pc, visited>>
  \/ /\ id \notin OnStack
     /\ id \notin visited
     /\ path' = Append(stack, [task |-> id, left |-> depMap[id]])
     /\ UNCHANGED <<pc, visited>>

\* for (const id of this.nodes.keys()) dfs(id)
SearchFrom ==
  /\ pc = "search" /\ path = <<>> /\ root <= NumTasks
  /\ root' = root + 1
  /\ Enter(root, path)
  /\ UNCHANGED <<depMap, passVars>>

\* The loop over one task's dependencies, in whatever order they are listed.
Descend ==
  /\ pc = "search" /\ path # <<>>
  /\ \E d \in Last(path).left :
       \/ /\ d \notin Tasks
          /\ pc' = "thrown"
          /\ UNCHANGED <<path, visited>>
       \/ /\ d \in Tasks
          /\ Enter(d, Append(Front(path), [Last(path) EXCEPT !.left = @ \ {d}]))
  /\ UNCHANGED <<depMap, root, passVars>>

\* The end of dfs(id).
Leave ==
  /\ pc = "search" /\ path # <<>> /\ Last(path).left = {}
  /\ visited' = visited \cup {Last(path).task}
  /\ path' = Front(path)
  /\ UNCHANGED <<pc, depMap, root, passVars>>

\* validate() returns; the graph is used, and some task is marked later on.
Accept ==
  /\ pc = "search" /\ path = <<>> /\ root > NumTasks
  /\ pc' = "marked"
  /\ \E st \in [Tasks -> TaskStatus] : before' = st /\ now' = st
  /\ UNCHANGED <<depMap, searchVars, node, changed>>

----------------------------------------------------------------------------
(* skipDependentsOfFailed() *)

\* while (changed): a new pass starts at the first node.
BeginPass ==
  /\ \/ pc = "marked"
     \/ pc = "pass" /\ node > NumTasks /\ changed
  /\ pc' = "pass"
  /\ changed' = FALSE
  /\ node' = 1
  /\ UNCHANGED <<depMap, searchVars, before, now>>

\* One node of a pass sees what the pass already skipped before it.
VisitNode ==
  /\ pc = "pass" /\ node <= NumTasks
  /\ node' = node + 1
  /\ \/ /\ now[node] = "pending" /\ HasBrokenDependency(node, now, depMap)
        /\ now' = [now EXCEPT ![node] = "skipped"]
        /\ changed' = TRUE
     \/ /\ ~ (now[node] = "pending" /\ HasBrokenDependency(node, now, depMap))
        /\ UNCHANGED <<now, changed>>
  /\ UNCHANGED <<pc, depMap, searchVars, before>>

Finish ==
  /\ pc = "pass" /\ node > NumTasks /\ ~ changed
  /\ pc' = "finished"
  /\ UNCHANGED <<depMap, searchVars, passVars>>

LoopsNext == SearchFrom \/ Descend \/ Leave \/ Accept \/ BeginPass \/ VisitNode \/ Finish

\* The loops are synchronous code: they run to their end.
LoopsSpec == LoopsInit /\ [][LoopsNext]_loopVars /\ WF_loopVars(LoopsNext)

----------------------------------------------------------------------------
(* Properties *)

\* validate() throws exactly for the graphs that are not valid: the search finds
\* every cycle and every unknown dependency, from any start and in any order.
ValidateAgrees ==
  /\ pc = "thrown" => ~ ValidGraph(depMap)
  /\ pc \in {"marked", "pass", "finished"} => ValidGraph(depMap)

\* The passes of skipDependentsOfFailed stop at the least set closed under
\* skipping, whatever the insertion order does to each pass.
SkipAgrees == pc = "finished" => now = SkipDependentsOfFailed(before, depMap)

\* Both closed forms of module TaskGraph are what the loops compute.
LoopsAgree == ValidateAgrees /\ SkipAgrees

\* Both loops end on every input ("while (changed)" cannot spin).
LoopsEnd == <>(pc \in {"finished", "thrown"})

============================================================================
