----------------------------- MODULE McpServers -----------------------------
(***************************************************************************)
(* The MCP servers of the gateway: child processes that are started at     *)
(* boot and by skill toggles, the registry's maps of clients and tools,    *)
(* and what of it reaches the tool registry (src/mcp/mcp-registry.ts,      *)
(* mcp-client.ts, mcp-tool-adapter.ts, src/gateway/server.ts).             *)
(*                                                                         *)
(* A client is one child process.  Each server offers one tool.            *)
(***************************************************************************)
EXTENDS Integers, FiniteSets, Functions

CONSTANTS
  Configured,  \* servers of the configuration
  SkillServers,\* servers of skills, one per skill
  Clients,     \* bound: child processes started
  Calls,       \* bound: tool calls in flight
  ToolPrefix,  \* server -> servers whose tool names begin with its prefix
  MaxToggles,  \* bound: skill toggles
  NoClient

Servers == Configured \cup SkillServers

ASSUME McpAssumption ==
  /\ IsFiniteSet(Clients)
  /\ NoClient \notin Clients
  /\ Configured \cap SkillServers = {}
  /\ ToolPrefix \in [Servers -> SUBSET Servers]
  /\ \A n \in Servers : n \in ToolPrefix[n]
  /\ MaxToggles \in Nat

VARIABLES
  up,          \* the gateway process
  boot,        \* startAll(): "off", "starting" or "done"
  enabled,     \* the skills that are enabled
  toggle,      \* skill -> "idle", "starting" or "stopping": the per-skill lock
  clientOf,    \* clients: name -> client
  toolOf,      \* tools: name -> the client whose tool is listed
  name, child, phase, \* per client: its server, its process, its handshake
  adapter,     \* whether a live enable has made the cached adapter
  adapted,     \* the cached adapter's registeredNames
  registered,  \* the servers whose tools are in the tool registry
  calls,       \* tool call -> the client it waits for
  faulty,      \* history: servers that failed, outlived their stop, or were toggled
               \* during boot
  live,        \* history: skills enabled by a toggle
  toggles

maps == <<clientOf, toolOf>>
adapters == <<adapter, adapted, registered>>
mcpVars == <<up, boot, enabled, toggle, maps, name, child, phase, adapters, calls,
             faulty, live, toggles>>

ServerRuns == {"alive", "killed"}
Starting == {"init", "list"}
Fresh == {c \in Clients : phase[c] = "new"}
ListedIn(map) == {n \in Servers : map[n] # NoClient}

McpInit ==
  /\ up = TRUE /\ boot = "off"
  /\ enabled \in SUBSET SkillServers
  /\ toggle = [n \in SkillServers |-> "idle"]
  /\ clientOf = [n \in Servers |-> NoClient]
  /\ toolOf = [n \in Servers |-> NoClient]
  /\ name = [c \in Clients |-> NoClient]
  /\ child = [c \in Clients |-> "gone"]
  /\ phase = [c \in Clients |-> "new"]
  /\ adapter = FALSE /\ adapted = {} /\ registered = {}
  /\ calls = [k \in Calls |-> NoClient]
  /\ faulty = {} /\ live = {} /\ toggles = 0

----------------------------------------------------------------------------
(* Starting *)

\* start() of the clients of a function from servers.
SpawnServer(client) ==
  /\ name' = [c \in Clients |->
       IF c \in Range(client) THEN CHOOSE n \in DOMAIN client : client[n] = c ELSE name[c]]
  /\ child' = [c \in Clients |-> IF c \in Range(client) THEN "alive" ELSE child[c]]
  /\ phase' = [c \in Clients |-> IF c \in Range(client) THEN "init" ELSE phase[c]]

\* startAll(): the configured servers and those of the skills enabled by now.
BootStart ==
  /\ boot = "off"
  /\ boot' = "starting"
  /\ \E client \in Injection(Configured \cup enabled, Fresh) : SpawnServer(client)
  /\ UNCHANGED <<up, enabled, toggle, maps, adapters, calls, faulty, live, toggles>>

\* All have settled: an adapter of start()'s own registers what is listed.
BootEnds ==
  /\ boot = "starting"
  /\ \A c \in Clients : phase[c] \in Starting => name[c] \in DOMAIN toggle
                                               /\ toggle[name[c]] = "starting"
  /\ boot' = "done"
  /\ registered' = registered \cup ListedIn(toolOf)
  /\ UNCHANGED <<up, enabled, toggle, maps, name, child, phase, adapter, adapted, calls,
                 faulty, live, toggles>>

\* The command cannot be spawned: the client emits an 'error' event that nobody
\* listens to, and Node ends the process.
SpawnError(c) ==
  /\ up /\ phase[c] = "init" /\ child[c] = "alive"
  /\ up' = FALSE
  /\ UNCHANGED <<boot, enabled, toggle, maps, name, child, phase, adapters, calls,
                 faulty, live, toggles>>

\* The answer to initialize.
Initialized(c) ==
  /\ phase[c] = "init" /\ child[c] = "alive"
  /\ phase' = [phase EXCEPT ![c] = "list"]
  /\ UNCHANGED <<up, boot, enabled, toggle, maps, name, child, adapters, calls, faulty,
                 live, toggles>>

\* Whether it is a toggle that waits for a client: toggles are one at a time per
\* skill, and start the client last made for it.
ByToggle(c) == name[c] \in SkillServers /\ toggle[name[c]] = "starting"

\* registerAll() of the cached adapter, which forgets the names it had.
RegisterAll(map) ==
  /\ adapter' = TRUE
  /\ adapted' = ListedIn(map)
  /\ registered' = registered \cup ListedIn(map)

\* The answer to tools/list: client and tools are entered, whoever was there, and
\* whether or not the skill is still enabled.
Listed(c) ==
  LET n == name[c]
      tools == [toolOf EXCEPT ![n] = c]
  IN /\ phase[c] = "list" /\ child[c] = "alive"
     /\ phase' = [phase EXCEPT ![c] = "up"]
     /\ clientOf' = [clientOf EXCEPT ![n] = c]
     /\ toolOf' = tools
     /\ IF ByToggle(c)
          THEN toggle' = [toggle EXCEPT ![n] = "idle"] /\ RegisterAll(tools)
          ELSE UNCHANGED <<toggle, adapters>>
     /\ UNCHANGED <<up, boot, enabled, name, child, calls, faulty, live, toggles>>

\* Mutant of StartTimesOut: only the answer to initialize is timed.
StartTimesOutEarly(c) ==
  /\ phase[c] = "init"
  /\ phase' = [phase EXCEPT ![c] = "failed"]
  /\ toggle' = IF ByToggle(c) THEN [toggle EXCEPT ![name[c]] = "idle"] ELSE toggle
  /\ faulty' = faulty \cup {name[c]}
  /\ UNCHANGED <<up, boot, enabled, maps, name, child, adapters, calls, live, toggles>>

\* A request of the handshake times out: the start has failed, the child lives on.
StartTimesOut(c) ==
  /\ phase[c] \in Starting
  /\ phase' = [phase EXCEPT ![c] = "failed"]
  /\ toggle' = IF ByToggle(c) THEN [toggle EXCEPT ![name[c]] = "idle"] ELSE toggle
  /\ faulty' = faulty \cup {name[c]}
  /\ UNCHANGED <<up, boot, enabled, maps, name, child, adapters, calls, live, toggles>>

----------------------------------------------------------------------------
(* Stopping *)

\* unregisterAllForServer(), by prefix and by the adapter's own list; then the
\* toggle is over.
Stopped(n) ==
  /\ registered' = IF adapter THEN registered \ (adapted \cap ToolPrefix[n]) ELSE registered
  /\ adapted' = adapted \ ToolPrefix[n]
  /\ UNCHANGED adapter

\* Mutant of Exit: pending requests are left to their timers.
ExitSilently(c) ==
  LET n == name[c]
      stops == n \in SkillServers /\ toggle[n] = "stopping" /\ clientOf[n] = c
  IN /\ child[c] \in ServerRuns
     /\ child' = [child EXCEPT ![c] = "gone"]
     /\ phase' = [phase EXCEPT ![c] = IF @ \in Starting THEN "failed" ELSE @]
     /\ clientOf' = [clientOf EXCEPT ![n] = NoClient]
     /\ toolOf' = [toolOf EXCEPT ![n] = NoClient]
     /\ toggle' = IF stops \/ (phase[c] \in Starting /\ ByToggle(c))
                    THEN [toggle EXCEPT ![n] = "idle"] ELSE toggle
     /\ IF stops THEN Stopped(n) ELSE UNCHANGED adapters
     /\ faulty' = IF child[c] = "killed" THEN faulty ELSE faulty \cup {n}
     /\ UNCHANGED <<up, boot, enabled, name, calls, live, toggles>>

\* The child has ended, asked to or not: what waits for it fails, and the entries of
\* its name go, also when they belong to a newer client.
Exit(c) ==
  LET n == name[c]
      stops == n \in SkillServers /\ toggle[n] = "stopping" /\ clientOf[n] = c
  IN /\ child[c] \in ServerRuns
     /\ child' = [child EXCEPT ![c] = "gone"]
     /\ phase' = [phase EXCEPT ![c] = IF @ \in Starting THEN "failed" ELSE @]
     /\ calls' = [k \in Calls |-> IF calls[k] = c THEN NoClient ELSE calls[k]]
     /\ clientOf' = [clientOf EXCEPT ![n] = NoClient]
     /\ toolOf' = [toolOf EXCEPT ![n] = NoClient]
     /\ toggle' = IF stops \/ (phase[c] \in Starting /\ ByToggle(c))
                    THEN [toggle EXCEPT ![n] = "idle"] ELSE toggle
     /\ IF stops THEN Stopped(n) ELSE UNCHANGED adapters
     /\ faulty' = IF child[c] = "killed" THEN faulty ELSE faulty \cup {n}
     /\ UNCHANGED <<up, boot, enabled, name, live, toggles>>

\* Three seconds after SIGTERM stop() sends SIGKILL and does not wait for the exit.
StopTimesOut(n) ==
  /\ toggle[n] = "stopping"
  /\ toggle' = [toggle EXCEPT ![n] = "idle"]
  /\ clientOf' = [clientOf EXCEPT ![n] = NoClient]
  /\ toolOf' = [toolOf EXCEPT ![n] = NoClient]
  /\ Stopped(n)
  /\ faulty' = faulty \cup {n}
  /\ UNCHANGED <<up, boot, enabled, name, child, phase, calls, live, toggles>>

----------------------------------------------------------------------------
(* Toggles and calls *)

Toggles(n, on) ==
  /\ boot # "off"
  /\ toggles < MaxToggles
  /\ toggles' = toggles + 1
  /\ toggle[n] = "idle"
  /\ on <=> n \notin enabled
  /\ enabled' = IF on THEN enabled \cup {n} ELSE enabled \ {n}
  /\ faulty' = IF boot = "starting" THEN faulty \cup {n} ELSE faulty

\* A skill is enabled and its server starts, unless the name has a client already.
EnableSkill(n) ==
  /\ Toggles(n, TRUE)
  /\ live' = live \cup {n}
  /\ IF clientOf[n] # NoClient
       THEN RegisterAll(toolOf) /\ UNCHANGED <<toggle, name, child, phase>>
       ELSE /\ toggle' = [toggle EXCEPT ![n] = "starting"]
            /\ \E c \in Fresh : SpawnServer([m \in {n} |-> c])
            /\ UNCHANGED adapters
  /\ UNCHANGED <<up, boot, maps, calls>>

\* A skill is disabled and its client, if it is entered by now, told to end.
DisableSkill(n) ==
  /\ Toggles(n, FALSE)
  /\ IF clientOf[n] = NoClient
       THEN Stopped(n) /\ UNCHANGED <<toggle, child, phase>>
       ELSE /\ toggle' = [toggle EXCEPT ![n] = "stopping"]
            /\ child' = [child EXCEPT ![clientOf[n]] = "killed"]
            /\ phase' = [phase EXCEPT ![clientOf[n]] = "stopped"]
            /\ UNCHANGED adapters
  /\ UNCHANGED <<up, boot, maps, name, calls, live>>

\* An agent calls a registered tool whose client is there and ready.
Call(k, n) ==
  /\ n \in registered /\ calls[k] = NoClient
  /\ clientOf[n] # NoClient /\ phase[clientOf[n]] = "up"
  /\ calls' = [calls EXCEPT ![k] = clientOf[n]]
  /\ UNCHANGED <<up, boot, enabled, toggle, maps, name, child, phase, adapters, faulty,
                 live, toggles>>

\* It is answered, or its thirty seconds are over.
CallEnds(k) ==
  /\ calls[k] # NoClient
  /\ calls' = [calls EXCEPT ![k] = NoClient]
  /\ UNCHANGED <<up, boot, enabled, toggle, maps, name, child, phase, adapters, faulty,
                 live, toggles>>

McpNext ==
  /\ up
  /\ \/ BootStart \/ BootEnds
     \/ \E c \in Clients : \/ SpawnError(c) \/ Initialized(c) \/ Listed(c)
                           \/ StartTimesOut(c) \/ Exit(c)
     \/ \E n \in SkillServers : StopTimesOut(n) \/ EnableSkill(n) \/ DisableSkill(n)
     \/ \E k \in Calls, n \in Servers : Call(k, n)
     \/ \E k \in Calls : CallEnds(k)

McpSpec == McpInit /\ [][McpNext]_mcpVars

\* Timers fire; children promise nothing.
McpFairness ==
  /\ \A c \in Clients : WF_mcpVars(up /\ StartTimesOut(c))
  /\ \A n \in SkillServers : WF_mcpVars(up /\ StopTimesOut(n))
  /\ WF_mcpVars(up /\ BootEnds)

----------------------------------------------------------------------------
(* Properties *)

\* Every variable holds a value of its kind.
McpTypeOK ==
  /\ boot \in {"off", "starting", "done"}
  /\ enabled \subseteq SkillServers
  /\ toggle \in [SkillServers -> {"idle", "starting", "stopping"}]
  /\ clientOf \in [Servers -> Clients \cup {NoClient}]
  /\ toolOf \in [Servers -> Clients \cup {NoClient}]
  /\ child \in [Clients -> ServerRuns \cup {"gone"}]
  /\ phase \in [Clients -> Starting \cup {"new", "up", "failed", "stopped"}]
  /\ adapted \subseteq registered /\ registered \subseteq Servers

\* Nobody waits for a child that has ended, and no tool is listed whose client is
\* not the one that would be called.
NothingDangles ==
  /\ \A k \in Calls : calls[k] # NoClient => child[calls[k]] \in ServerRuns
  /\ \A n \in Servers : toolOf[n] # NoClient => toolOf[n] = clientOf[n]

\* A skill that is disabled has no child left that was not told to end, and, if it
\* was enabled live, no tool in the tool registry; unless its server had failed, had
\* outlived an earlier stop, or was toggled while the gateway was still starting its
\* servers.
DisabledIsOff ==
  \A n \in SkillServers \ (enabled \cup faulty) :
    /\ \A c \in Clients : name[c] = n => child[c] # "alive"
    /\ n \in live /\ toggle[n] = "idle" => n \notin registered

\* The parts together: nothing of a server outlives it, or the skill it belongs to.
McpExact == McpTypeOK /\ NothingDangles /\ DisabledIsOff

\* However a server that was spawned behaves, a toggle comes to its end and frees the
\* skill's lock.  One whose command cannot be spawned ends the gateway instead (~up, which
\* nothing else sets): the handler of mcp-client.ts:89-93 emits 'error' on the client, to
\* which nobody listens, before it rejects the promise that start() awaits.  The comments
\* beside it say otherwise: that callers "can catch them via try/catch" (:85), without
\* which it "crashes Node" (:86), and "preventing Node from throwing" (:98).
EveryToggleEnds ==
  \A n \in SkillServers : toggle[n] # "idle" ~> toggle[n] = "idle" \/ ~up

=============================================================================
