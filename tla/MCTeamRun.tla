----------------------------- MODULE MCTeamRun -----------------------------
(* Constants for TLC: two runs, of one team or of two. *)
EXTENDS TeamRun, TLC

CONSTANTS r1, r2, alpha, beta, g1, g2

TwoTeams == (r1 :> alpha) @@ (r2 :> beta)
OneTeam  == (r1 :> alpha) @@ (r2 :> alpha)

\* The gateway's slots are alike.
GatewaySymmetry == Permutations({g1, g2})

\* A chain, independent tasks, and a list that is no DAG.
SomeGraphs == { <<{}, {1}>>, <<{}, {}>>, <<{2}, {1}>> }
Chain == { <<{}, {1}>> }

============================================================================
