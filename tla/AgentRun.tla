------------------------------ MODULE AgentRun ------------------------------
(***************************************************************************)
(* AgentRuntime.run (src/agents/agent-runtime.ts) over the SessionStore    *)
(* (src/sessions/session-store.ts): runs of one gateway process that share *)
(* the session rows of their conversations.                                *)
(*                                                                         *)
(* A run is a chain of synchronous pieces between three kinds of await:    *)
(* the context (memories, compaction), the model's answer, and the tools   *)
(* it asked for, an approval included.  Each action below is one piece.    *)
(* A run works on its own copy of the transcript, read when it starts and  *)
(* written back whole when it ends.                                        *)
(*                                                                         *)
(* A transcript is the set of runs whose exchange it holds; what is said   *)
(* in an exchange, and how compaction shortens it, is left out.  Whether   *)
(* the budget lets a call through is module Budget's; here a loop head may *)
(* end the run, for that reason or for its deadline.                       *)
(***************************************************************************)
EXTENDS Integers, FiniteSets

CONSTANTS
  Runs,          \* calls of run(), each made once
  Conversations, \* (agent, channel, peer) triples
  AgentIds,      \* agent ids
  ConvOf,        \* the conversation each run is for
  AgentOfConv,   \* the agent of each conversation
  MaxSteps,      \* req.maxSteps
  MaxPurges,     \* bound on sessions deleted from the dashboard
  MaxReloads,    \* bound on configuration reloads
  MaxCrashes     \* bound on crashes of the gateway

ASSUME AgentRunAssumption ==
  /\ IsFiniteSet(Runs)
  /\ ConvOf \in [Runs -> Conversations]
  /\ AgentOfConv \in [Conversations -> AgentIds]
  /\ MaxSteps \in Nat \ {0}
  /\ MaxPurges \in Nat /\ MaxReloads \in Nat /\ MaxCrashes \in Nat

VARIABLES
  pc,         \* where a run is: see Awaits and Ended
  session,    \* the session a run holds: whose conversation, and which row
  working,    \* a run's copy of the transcript
  steps,      \* a run's step count
  active,     \* activeRuns: per agent, a count
  row,        \* per conversation: its session row's number, 0 when there is none
  lastRow,    \* per conversation: the number its last row was given
  stored,     \* per conversation: the transcript in its row
  agents,     \* the configured agents
  version,    \* how often the configuration was reloaded
  began,      \* per run: the version its call found
  timeout,    \* per run: the version its deadline was computed from, -1 before
  overlapped, \* runs that shared their session with another run in flight
  crashes

rowVars == <<row, lastRow, stored>>
config == <<agents, version>>
own == <<session, working, steps, began, timeout>>
runVars == <<pc, own, active, rowVars, config, overlapped, crashes>>

Awaits == {"context", "model", "tools"}
Ended == {"done", "empty", "failed", "turned_away", "rejected", "lost"}

Agent(r) == AgentOfConv[ConvOf[r]]
InFlight(r) == pc[r] \in Awaits
NoSession(r) == [conv |-> ConvOf[r], number |-> 0]

----------------------------------------------------------------------------
(* Sessions *)

\* Mutant of Found: the peer and the channel are not compared.
FoundByAgent(r) ==
  {c \in Conversations : row[c] # 0 /\ AgentOfConv[c] = Agent(r)}

\* findByPeer: the conversation whose active row create() returns, if any.
Found(r) == {c \in Conversations : row[c] # 0 /\ c = ConvOf[r]}

\* The run's row is still there for update() to find.
RowExists(r) == session[r].number # 0 /\ row[session[r].conv] = session[r].number

\* Mutant of Settle: a missing row is not an error.
SettleRegardless(r, how) ==
  /\ stored' = [stored EXCEPT ![session[r].conv] = IF RowExists(r) THEN working[r] ELSE @]
  /\ pc' = [pc EXCEPT ![r] = how]
  /\ active' = [active EXCEPT ![Agent(r)] = @ - 1]

\* The end of run(): the transcript is written back and the run is counted out.
\* Without its row update() throws, the catch block's update() throws as well, and
\* the call rejects.
Settle(r, how) ==
  /\ stored' = [stored EXCEPT ![session[r].conv] = IF RowExists(r) THEN working[r] ELSE @]
  /\ pc' = [pc EXCEPT ![r] = IF RowExists(r) THEN how ELSE "rejected"]
  /\ active' = [active EXCEPT ![Agent(r)] = @ - 1]

----------------------------------------------------------------------------
(* Actions *)

RunInit ==
  /\ pc = [r \in Runs |-> "new"]
  /\ session = [r \in Runs |-> NoSession(r)]
  /\ working = [r \in Runs |-> {}]
  /\ steps = [r \in Runs |-> 0]
  /\ active = [a \in AgentIds |-> 0]
  /\ row = [c \in Conversations |-> 0]
  /\ lastRow = [c \in Conversations |-> 0]
  /\ stored = [c \in Conversations |-> {}]
  /\ agents = AgentIds
  /\ version = 0
  /\ began = [r \in Runs |-> 0]
  /\ timeout = [r \in Runs |-> -1]
  /\ overlapped = {}
  /\ crashes = 0

\* An unknown agent, or a message the threat scan blocks: no session is touched.
TurnAway(r) ==
  /\ pc[r] = "new"
  /\ pc' = [pc EXCEPT ![r] = "turned_away"]
  /\ UNCHANGED <<own, active, rowVars, config, overlapped, crashes>>

\* Runs in flight on the session that r is given.
Sharing(r, s) == {q \in Runs : InFlight(q) /\ session[q] = s}

Overlaps(r, s) == IF Sharing(r, s) = {} THEN {} ELSE {r} \cup Sharing(r, s)

\* The run is counted in, gets its session (the active row of its conversation or
\* a new one), copies the transcript and appends the user's message to the copy.
Start(r) ==
  /\ pc[r] = "new" /\ Agent(r) \in agents
  /\ \E c \in IF Found(r) = {} THEN {ConvOf[r]} ELSE Found(r) :
       LET number == IF row[c] # 0 THEN row[c] ELSE lastRow[c] + 1
           s == [conv |-> c, number |-> number] IN
       /\ row' = [row EXCEPT ![c] = number]
       /\ lastRow' = [lastRow EXCEPT ![c] = number]
       /\ stored' = [stored EXCEPT ![c] = IF row[c] # 0 THEN @ ELSE {}]
       /\ session' = [session EXCEPT ![r] = s]
       /\ working' = [working EXCEPT ![r] = stored'[c] \cup {r}]
       /\ overlapped' = overlapped \cup Overlaps(r, s)
  /\ active' = [active EXCEPT ![Agent(r)] = @ + 1]
  /\ began' = [began EXCEPT ![r] = version]
  /\ pc' = [pc EXCEPT ![r] = "context"]
  /\ UNCHANGED <<steps, timeout, config, crashes>>

\* Compaction's own model call fails: outside the inner try, so run() rejects and
\* nothing is written back.
ContextFails(r) ==
  /\ pc[r] = "context"
  /\ pc' = [pc EXCEPT ![r] = "rejected"]
  /\ active' = [active EXCEPT ![Agent(r)] = @ - 1]
  /\ UNCHANGED <<own, rowVars, config, overlapped, crashes>>

\* An await is over and the loop head is reached.  On the first round the deadline
\* is computed, from the defaults of that moment.
AtLoopHead(r) ==
  /\ pc[r] \in {"context", "tools"}
  /\ steps[r] < MaxSteps
  /\ timeout' = [timeout EXCEPT ![r] = IF pc[r] = "context" THEN version ELSE @]

\* The answer is not cached: the model is called.
CallModel(r) ==
  /\ AtLoopHead(r)
  /\ pc' = [pc EXCEPT ![r] = "model"]
  /\ UNCHANGED <<session, working, steps, began, active, rowVars, config, overlapped, crashes>>

\* A cached answer asks for tools.
CachedTools(r) ==
  /\ AtLoopHead(r)
  /\ steps' = [steps EXCEPT ![r] = @ + 1]
  /\ pc' = [pc EXCEPT ![r] = "tools"]
  /\ UNCHANGED <<session, working, began, active, rowVars, config, overlapped, crashes>>

\* A cached answer is the last one.  An answer without text is no success.
CachedAnswer(r) ==
  /\ AtLoopHead(r)
  /\ steps' = [steps EXCEPT ![r] = @ + 1]
  /\ Settle(r, "done") \/ Settle(r, "empty")
  /\ UNCHANGED <<session, working, began, row, lastRow, config, overlapped, crashes>>

\* The deadline has passed, or the budget refuses the call.
Abort(r) ==
  /\ AtLoopHead(r)
  /\ Settle(r, "failed")
  /\ UNCHANGED <<session, working, steps, began, row, lastRow, config, overlapped, crashes>>

\* The model asks for tools.
ModelAsksForTools(r) ==
  /\ pc[r] = "model"
  /\ steps' = [steps EXCEPT ![r] = @ + 1]
  /\ pc' = [pc EXCEPT ![r] = "tools"]
  /\ UNCHANGED <<session, working, began, timeout, active, rowVars, config, overlapped, crashes>>

\* The model answers.
ModelAnswers(r) ==
  /\ pc[r] = "model"
  /\ steps' = [steps EXCEPT ![r] = @ + 1]
  /\ Settle(r, "done") \/ Settle(r, "empty")
  /\ UNCHANGED <<session, working, began, timeout, row, lastRow, config, overlapped, crashes>>

\* Every model of the failover chain has failed.
ModelFails(r) ==
  /\ pc[r] = "model"
  /\ Settle(r, "failed")
  /\ UNCHANGED <<own, row, lastRow, config, overlapped, crashes>>

\* The tools of the last step have run: the loop ends with the text so far.
OutOfSteps(r) ==
  /\ pc[r] = "tools" /\ steps[r] >= MaxSteps
  /\ Settle(r, "done") \/ Settle(r, "empty")
  /\ UNCHANGED <<own, row, lastRow, config, overlapped, crashes>>

\* purge(): the dashboard deletes a session, whoever is using it.
Purge(c) ==
  /\ row[c] # 0 /\ lastRow[c] <= MaxPurges
  /\ row' = [row EXCEPT ![c] = 0]
  /\ stored' = [stored EXCEPT ![c] = {}]
  /\ UNCHANGED <<pc, own, active, lastRow, config, overlapped, crashes>>

\* reloadAgents(): a new list of agents and new defaults.
Reload(list) ==
  /\ version < MaxReloads
  /\ agents' = list
  /\ version' = version + 1
  /\ UNCHANGED <<pc, own, active, rowVars, overlapped, crashes>>

\* The gateway dies; the rows stay, and later runs are started in a new process.
Crash ==
  /\ crashes < MaxCrashes
  /\ crashes' = crashes + 1
  /\ pc' = [r \in Runs |-> IF InFlight(r) THEN "lost" ELSE pc[r]]
  /\ active' = [a \in AgentIds |-> 0]
  /\ UNCHANGED <<own, rowVars, config, overlapped>>

Step(r) ==
  \/ ContextFails(r)
  \/ CallModel(r)
  \/ CachedTools(r)
  \/ CachedAnswer(r)
  \/ Abort(r)
  \/ ModelAsksForTools(r)
  \/ ModelAnswers(r)
  \/ ModelFails(r)
  \/ OutOfSteps(r)

RunNext ==
  \/ \E r \in Runs : TurnAway(r) \/ Start(r) \/ Step(r)
  \/ \E c \in Conversations : Purge(c)
  \/ \E list \in SUBSET AgentIds : Reload(list)
  \/ Crash

RunSpec == RunInit /\ [][RunNext]_runVars

----------------------------------------------------------------------------
(* Properties *)

\* Every variable holds a value of its kind.
RunTypeOK ==
  /\ pc \in [Runs -> {"new"} \cup Awaits \cup Ended]
  /\ session \in [Runs -> [conv : Conversations, number : Nat]]
  /\ working \in [Runs -> SUBSET Runs]
  /\ steps \in [Runs -> 0 .. MaxSteps]
  /\ active \in [AgentIds -> Nat]
  /\ row \in [Conversations -> Nat] /\ lastRow \in [Conversations -> Nat]
  /\ stored \in [Conversations -> SUBSET Runs]
  /\ agents \in SUBSET AgentIds /\ version \in Nat
  /\ began \in [Runs -> Nat] /\ timeout \in [Runs -> Int]
  /\ overlapped \in SUBSET Runs /\ crashes \in Nat

\* The dashboard's "running" and "idle" are true: an agent's count is the number of
\* its runs in flight, whichever way its other runs have ended.
ActiveRunsExact ==
  \A a \in AgentIds : active[a] = Cardinality({r \in Runs : InFlight(r) /\ Agent(r) = a})

\* "Per-channel-peer isolation": no conversation's row holds another's exchange.
SessionsIsolated ==
  \A c \in Conversations, r \in Runs : r \in stored[c] => ConvOf[r] = c

\* A conversation whose messages are taken one at a time forgets none of them: an
\* ended run that never shared its session is in the transcript while the row lives.
AloneIsKept ==
  \A r \in Runs :
    /\ pc[r] \in {"done", "empty", "failed"}
    /\ r \notin overlapped
    /\ RowExists(r)
    => r \in stored[session[r].conv]

\* The parts together: runs are counted, kept apart and remembered.
RunsExact == RunTypeOK /\ ActiveRunsExact /\ SessionsIsolated /\ AloneIsKept

\* No answer is given for an exchange that could not be stored.
SuccessIsStored ==
  [][\A r \in Runs : pc[r] # "done" /\ pc'[r] = "done" =>
       /\ row'[ConvOf[r]] = session[r].number
       /\ r \in stored'[ConvOf[r]]]_runVars

\* "in-flight runs continue using the config they started with"
InFlightKeepsConfig ==
  \A r \in Runs : InFlight(r) => timeout[r] \in {-1, began[r]}

============================================================================
