------------------------------- MODULE Budget -------------------------------
(***************************************************************************)
(* BudgetTracker (src/budget/budget-tracker.ts) under the loops that spend *)
(* tokens: AgentRuntime.run and SubagentSpawner.spawn (src/agents/).       *)
(*                                                                         *)
(* A loop checks the budget with an estimate of its input, awaits the      *)
(* model, records what the call really used, and comes round again.  The   *)
(* check and the record are each synchronous; between them the other loops *)
(* of the gateway check and record too.  A sub-agent is one more loop that *)
(* checks and records in its parent's name.                                *)
(*                                                                         *)
(* Usage rows live in SQLite and outlive the process; the set of paused    *)
(* agents lives in the gateway's memory.  Rows leave the sliding windows   *)
(* of one day and thirty days as time passes.  Amounts are tokens: cost is *)
(* recorded as well, and nothing compares it with a limit.                 *)
(***************************************************************************)
EXTENDS Integers, FiniteSets

CONSTANTS
  Agents,         \* agent ids
  Loops,          \* loops that may run at once in the gateway
  AgentOf,        \* the agent each loop spends for
  PolicyActions,  \* the policy's action: a subset of {"block", "pause", "warn"}
  DailyLimit,     \* policy.daily.tokens, 0 for none
  MonthlyLimit,   \* policy.monthly.tokens, 0 for none
  PerRunCap,      \* policy.perRun.maxTokens
  MaxEstimate,    \* the largest estimate of an input
  MaxUse,         \* the most one call can use
  MaxCalls,       \* a run's maxSteps
  MaxUsage,       \* bound on the recorded usage that is explored
  MaxRestarts     \* bound on restarts of the gateway

ASSUME BudgetAssumption ==
  /\ IsFiniteSet(Loops)
  /\ AgentOf \in [Loops -> Agents]
  /\ PolicyActions \subseteq {"block", "pause", "warn"}
  /\ DailyLimit \in Nat /\ MonthlyLimit \in Nat
  /\ PerRunCap \in Nat /\ MaxEstimate \in Nat /\ MaxUse \in Nat
  /\ MaxCalls \in Nat /\ MaxUsage \in Nat /\ MaxRestarts \in Nat

VARIABLES
  action,    \* policy.action
  day,       \* per agent: tokens recorded in the last day
  month,     \* per agent: tokens recorded in the last thirty days
  paused,    \* pausedAgents of the gateway's tracker
  freed,     \* agents for which "budget resume" was run since they were paused
  at,        \* per loop: "idle", "between" (two calls of a run) or "calling"
  calls,     \* per loop: model calls its run has made
  outcome,   \* per loop: how its last run ended
  restarts

usage == <<day, month>>
loops == <<at, calls, outcome>>
vars == <<action, usage, paused, freed, loops, restarts>>

----------------------------------------------------------------------------
(* check() *)

Over(used, estimate, limit) == limit > 0 /\ used + estimate > limit

\* The projected usage is over the monthly or the daily limit.
Overrun(a, estimate) ==
  \/ Over(month[a], estimate, MonthlyLimit)
  \/ Over(day[a], estimate, DailyLimit)

\* check().allowed: not paused, within the per-run cap, and either within both
\* limits or under a policy that only warns.
Allowed(a, estimate) ==
  /\ a \notin paused
  /\ estimate <= PerRunCap
  /\ Overrun(a, estimate) => action = "warn"

\* handleOverrun() pauses the agent.
Pauses(a, estimate) ==
  /\ a \notin paused
  /\ estimate <= PerRunCap
  /\ Overrun(a, estimate)
  /\ action = "pause"

\* The set of paused agents once check() has returned.
PausedAfter(a, estimate) ==
  IF Pauses(a, estimate) THEN paused \cup {a} ELSE paused

----------------------------------------------------------------------------
(* Actions *)

Init ==
  /\ action \in PolicyActions
  /\ day = [a \in Agents |-> 0]
  /\ month = [a \in Agents |-> 0]
  /\ paused = {}
  /\ freed = {}
  /\ at = [l \in Loops |-> "idle"]
  /\ calls = [l \in Loops |-> 0]
  /\ outcome = [l \in Loops |-> "none"]
  /\ restarts = 0

\* A run enters its loop; what precedes it may await (memories, compaction).
Begin(l) ==
  /\ at[l] = "idle"
  /\ at' = [at EXCEPT ![l] = "between"]
  /\ calls' = [calls EXCEPT ![l] = 0]
  /\ outcome' = [outcome EXCEPT ![l] = "none"]
  /\ UNCHANGED <<action, usage, paused, freed, restarts>>

\* The loop head: the check passes and the model is called.
Call(l, estimate) ==
  /\ at[l] = "between" /\ calls[l] < MaxCalls
  /\ Allowed(AgentOf[l], estimate)
  /\ at' = [at EXCEPT ![l] = "calling"]
  /\ UNCHANGED <<action, usage, paused, freed, calls, outcome, restarts>>

\* The loop head: the check fails, which ends the run.
Refuse(l, estimate) ==
  /\ at[l] = "between" /\ calls[l] < MaxCalls
  /\ ~ Allowed(AgentOf[l], estimate)
  /\ paused' = PausedAfter(AgentOf[l], estimate)
  /\ freed' = IF Pauses(AgentOf[l], estimate) THEN freed \ {AgentOf[l]} ELSE freed
  /\ at' = [at EXCEPT ![l] = "idle"]
  /\ outcome' = [outcome EXCEPT ![l] = IF estimate > PerRunCap THEN "capped" ELSE "refused"]
  /\ UNCHANGED <<action, usage, calls, restarts>>

\* The loop head: the answer is cached.  The budget was checked all the same,
\* and nothing is recorded.
CacheHit(l, estimate) ==
  /\ at[l] = "between" /\ calls[l] < MaxCalls
  /\ Allowed(AgentOf[l], estimate)
  /\ calls' = [calls EXCEPT ![l] = @ + 1]
  /\ UNCHANGED <<action, usage, paused, freed, at, outcome, restarts>>

\* Mutant of Record: the call is recorded by the loop and by the router.
RecordTwice(l, use) ==
  /\ at[l] = "calling" /\ month[AgentOf[l]] + 2 * use <= MaxUsage
  /\ day' = [day EXCEPT ![AgentOf[l]] = @ + 2 * use]
  /\ month' = [month EXCEPT ![AgentOf[l]] = @ + 2 * use]
  /\ at' = [at EXCEPT ![l] = "between"]
  /\ calls' = [calls EXCEPT ![l] = @ + 1]
  /\ UNCHANGED <<action, paused, freed, outcome, restarts>>

\* The model answers: record().
Record(l, use) ==
  /\ at[l] = "calling" /\ month[AgentOf[l]] + use <= MaxUsage
  /\ day' = [day EXCEPT ![AgentOf[l]] = @ + use]
  /\ month' = [month EXCEPT ![AgentOf[l]] = @ + use]
  /\ at' = [at EXCEPT ![l] = "between"]
  /\ calls' = [calls EXCEPT ![l] = @ + 1]
  /\ UNCHANGED <<action, paused, freed, outcome, restarts>>

\* The run is over: a final text, maxSteps, its deadline, or a call that failed.
End(l) ==
  /\ at[l] \in {"between", "calling"}
  /\ at' = [at EXCEPT ![l] = "idle"]
  /\ outcome' = [outcome EXCEPT ![l] = "ended"]
  /\ UNCHANGED <<action, usage, paused, freed, calls, restarts>>

\* Time passes: the oldest of an agent's rows leave its daily window.
DayPasses(a, left) ==
  /\ left < day[a]
  /\ day' = [day EXCEPT ![a] = left]
  /\ UNCHANGED <<action, month, paused, freed, loops, restarts>>

\* Time passes: rows that left the daily window long ago leave the monthly one.
MonthPasses(a, left) ==
  /\ day[a] <= left /\ left < month[a]
  /\ month' = [month EXCEPT ![a] = left]
  /\ UNCHANGED <<action, day, paused, freed, loops, restarts>>

\* "budget resume" on the command line: a process of its own, whose tracker has
\* a set of paused agents of its own, and an empty one.
CliResume(a) ==
  /\ a \in paused
  /\ freed' = freed \cup {a}
  /\ UNCHANGED <<action, usage, paused, loops, restarts>>

\* The gateway goes down with its runs; the rows stay.
Restart ==
  /\ restarts < MaxRestarts
  /\ restarts' = restarts + 1
  /\ paused' = {}
  /\ freed' = {}
  /\ at' = [l \in Loops |-> "idle"]
  /\ calls' = [l \in Loops |-> 0]
  /\ outcome' = [l \in Loops |-> "none"]
  /\ UNCHANGED <<action, usage>>

Next ==
  \/ \E l \in Loops : Begin(l) \/ End(l)
  \/ \E l \in Loops, e \in 0 .. MaxEstimate : Call(l, e) \/ Refuse(l, e) \/ CacheHit(l, e)
  \/ \E l \in Loops, u \in 1 .. MaxUse : Record(l, u)
  \/ \E a \in Agents, left \in 0 .. MaxUsage : DayPasses(a, left) \/ MonthPasses(a, left)
  \/ \E a \in Agents : CliResume(a)
  \/ Restart

Spec == Init /\ [][Next]_vars

----------------------------------------------------------------------------
(* Properties *)

\* Every variable holds a value of its kind.
TypeOK ==
  /\ action \in PolicyActions
  /\ day \in [Agents -> Nat] /\ month \in [Agents -> Nat]
  /\ paused \in SUBSET Agents /\ freed \in SUBSET Agents
  /\ at \in [Loops -> {"idle", "between", "calling"}]
  /\ calls \in [Loops -> Nat]
  /\ outcome \in [Loops -> {"none", "ended", "refused", "capped"}]
  /\ restarts \in Nat

Calling(a) == {l \in Loops : at[l] = "calling" /\ AgentOf[l] = a}

\* How far "hard stop" is from hard: loops that passed the check together may
\* push the usage over a limit, but never by more than a call of each loop, on
\* whatever schedule.
OvershootBounded ==
  \A a \in Agents : action # "warn" =>
    /\ MonthlyLimit > 0 => month[a] <= MonthlyLimit + Cardinality(Loops) * MaxUse
    /\ DailyLimit > 0 => day[a] <= DailyLimit + Cardinality(Loops) * MaxUse

\* ... and by no more than the calls still awaited leave room for: what is in
\* flight is part of the bound.
InFlightAccounted ==
  \A a \in Agents : action # "warn" =>
    /\ MonthlyLimit > 0 =>
         month[a] + Cardinality(Calling(a)) * MaxUse
           <= MonthlyLimit + Cardinality(Loops) * MaxUse
    /\ DailyLimit > 0 =>
         day[a] + Cardinality(Calling(a)) * MaxUse
           <= DailyLimit + Cardinality(Loops) * MaxUse

\* "'warn': events emitted, no enforcement": nothing but the per-run cap stops a
\* run, and no agent is ever paused.
WarnOnlyWarns ==
  action = "warn" => paused = {} /\ \A l \in Loops : outcome[l] # "refused"

\* The parts together: what the policy's action promises of the limits holds.
BudgetHolds == TypeOK /\ OvershootBounded /\ InFlightAccounted /\ WarnOnlyWarns

\* "ai-desk budget resume <agentId>  # resume a paused agent": an agent that was
\* resumed is not paused.
ResumeResumes == freed \cap paused = {}

============================================================================
