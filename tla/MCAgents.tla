------------------------------ MODULE MCAgents ------------------------------
(* Constants for TLC, and what an agent works with: its runs and sessions, its *)
(* budget, its skills.  A behaviour is one of the part chosen at the start.    *)
EXTENDS MCAgentRun, Budget, Skills

CONSTANTS ann, l1, l2, ownA, genA, genA2, genB, alpha, beta

\* Two loops of one agent.
Pair == (l1 :> ann) @@ (l2 :> ann)
AllActions == {"block", "pause", "warn"}

\* An installed skill alpha, a revision of it, and a generated file that has the
\* base name of the installed one.
FileNames == (ownA :> alpha) @@ (genA :> alpha) @@ (genA2 :> alpha) @@ (genB :> beta)
FileDirs ==
  (ownA :> "own") @@ (genA :> "generated") @@ (genA2 :> "generated") @@ (genB :> "generated")
FileBases == (ownA :> "a") @@ (genA :> "a") @@ (genA2 :> "a.v2") @@ (genB :> "b")

VARIABLE part
partVars == <<part, runVars, vars, skillVars>>

\* The parts that do not move start in one state.
MCInit ==
  /\ part \in {"runs", "budget", "skills"}
  /\ RunInit /\ Init /\ SkillsInit
  /\ part # "budget" => action = "warn"
  /\ part # "skills" => ~overlap

MCNext ==
  /\ \/ part = "runs" /\ RunNext
     \/ part = "budget" /\ Next
     \/ part = "skills" /\ SkillsNext
  /\ part # "runs" => UNCHANGED runVars
  /\ part # "budget" => UNCHANGED vars
  /\ part # "skills" => UNCHANGED skillVars
  /\ UNCHANGED part

MCSpec == MCInit /\ [][MCNext]_partVars

=============================================================================
