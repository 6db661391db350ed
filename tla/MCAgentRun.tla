----------------------------- MODULE MCAgentRun -----------------------------
(* Constants for TLC: three runs of one agent, in two conversations. *)
EXTENDS AgentRun, TLC

CONSTANTS main, web, chat, m1, m2, m3

TwoOnWeb == (m1 :> web) @@ (m2 :> web) @@ (m3 :> chat)
MainOnly == (web :> main) @@ (chat :> main)

\* The two messages on the web channel are alike.
WebSymmetry == Permutations({m1, m2})

============================================================================
