----------------------------- MODULE MCServices -----------------------------
(* Constants for TLC, and what the gateway does on its own time: scheduled     *)
(* jobs, MCP servers, the semaphore for sub-agents.  A behaviour is one of the *)
(* part chosen at the start; the others then never have anything to do.        *)
EXTENDS Cron, McpServers, SubagentGate, TLC

CONSTANTS srv, sa, sab, t1, t2, t3, t4, deep

\* The names that begin with "sa" are those of both skills' servers.
ServersByPrefix == (srv :> {srv}) @@ (sa :> {sa, sab}) @@ (sab :> {sab})

\* Five sub-agents, one of them too deep, for two slots.
OneTooDeep == [t \in Tasks |-> IF t = deep THEN 3 ELSE 1]

VARIABLE part
partVars == <<part, cronVars, mcpVars, vars>>

\* The parts that do not move start in one state.
MCInit ==
  /\ part \in {"cron", "mcp", "gate"}
  /\ CronInit /\ McpInit /\ Init
  /\ part # "mcp" => enabled = {}

MCNext ==
  /\ \/ part = "cron" /\ CronNext
     \/ part = "mcp" /\ McpNext
     \/ part = "gate" /\ Next
  /\ part # "cron" => UNCHANGED cronVars
  /\ part # "mcp" => UNCHANGED mcpVars
  /\ part # "gate" => UNCHANGED vars
  /\ UNCHANGED part

MCSpec ==
  /\ MCInit /\ [][MCNext]_partVars
  /\ CronFairness /\ McpFairness /\ GateFairness

=============================================================================
