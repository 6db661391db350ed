---------------------------- MODULE SubagentGate ----------------------------
(***************************************************************************)
(* SubagentSpawner.spawn behind its counting semaphore                     *)
(* (src/agents/subagent-spawner.ts): sub-agents beyond maxConcurrent wait  *)
(* in a FIFO of callbacks, and a sub-agent that ends hands its slot to the *)
(* first of them before anything else can run.                             *)
(*                                                                         *)
(* A round of the loop (compaction, the model's call, its tools) is one    *)
(* action: what happens between its awaits touches the budget, which is    *)
(* module Budget's, and never the gate.                                    *)
(***************************************************************************)
EXTENDS Integers, FiniteSets, Sequences, Functions

CONSTANTS
  Tasks,         \* calls of spawn(), each made once
  DepthOf,       \* task.parentDepth + 1
  MaxConcurrent, \* defaults.maxConcurrent
  MaxDepth,      \* defaults.maxDepth
  MaxSteps       \* task.maxSteps

ASSUME GateAssumption ==
  /\ IsFiniteSet(Tasks)
  /\ DepthOf \in [Tasks -> Nat]
  /\ MaxConcurrent \in Nat \ {0}
  /\ MaxDepth \in Nat \ {0}
  /\ MaxSteps \in Nat

VARIABLES
  pc,      \* where a task is
  steps,   \* a task's rounds
  active,  \* the semaphore's count
  waiters  \* the FIFO of tasks whose acquire() is pending

vars == <<pc, steps, active, waiters>>

Ended == {"refused", "success", "failed", "rejected"}

----------------------------------------------------------------------------
(* The gate *)

\* acquire(): take a slot, or wait behind those who came first.
Acquire(t) ==
  IF active < MaxConcurrent
    THEN /\ active' = active + 1
         /\ pc' = [pc EXCEPT ![t] = "running"]
         /\ UNCHANGED waiters
    ELSE /\ waiters' = Append(waiters, t)
         /\ pc' = [pc EXCEPT ![t] = "waiting"]
         /\ UNCHANGED active

\* Mutant of Release: the first waiter's callback does not count it.
ReleaseUncounted(t, how) ==
  IF waiters = <<>>
    THEN /\ pc' = [pc EXCEPT ![t] = how]
         /\ active' = active - 1
         /\ UNCHANGED waiters
    ELSE /\ pc' = [pc EXCEPT ![t] = how, ![Head(waiters)] = "running"]
         /\ waiters' = Tail(waiters)
         /\ active' = active - 1

\* Mutant of Release: the waiter is told later, and tests the count again.
ReleaseThenWake(t, how) ==
  /\ pc' = [pc EXCEPT ![t] = how]
  /\ active' = active - 1
  /\ UNCHANGED waiters

\* release(): the slot is given back and, in the same synchronous piece, taken by
\* the first waiter.
Release(t, how) ==
  IF waiters = <<>>
    THEN /\ pc' = [pc EXCEPT ![t] = how]
         /\ active' = active - 1
         /\ UNCHANGED waiters
    ELSE /\ pc' = [pc EXCEPT ![t] = how, ![Head(waiters)] = "running"]
         /\ waiters' = Tail(waiters)
         /\ UNCHANGED active

----------------------------------------------------------------------------
(* Actions *)

Init ==
  /\ pc = [t \in Tasks |-> "new"]
  /\ steps = [t \in Tasks |-> 0]
  /\ active = 0
  /\ waiters = <<>>

\* spawn() at a depth beyond the cap: refused before the gate.
Refuse(t) ==
  /\ pc[t] = "new" /\ DepthOf[t] > MaxDepth
  /\ pc' = [pc EXCEPT ![t] = "refused"]
  /\ UNCHANGED <<steps, active, waiters>>

\* spawn() within the cap.
Spawn(t) ==
  /\ pc[t] = "new" /\ DepthOf[t] <= MaxDepth
  /\ Acquire(t)
  /\ UNCHANGED steps

\* A round whose answer asks for tools, which then run.
Round(t) ==
  /\ pc[t] = "running" /\ steps[t] < MaxSteps
  /\ steps' = [steps EXCEPT ![t] = @ + 1]
  /\ UNCHANGED <<pc, active, waiters>>

\* A round whose answer is the last.
Answer(t) ==
  /\ pc[t] = "running" /\ steps[t] < MaxSteps
  /\ steps' = [steps EXCEPT ![t] = @ + 1]
  /\ Release(t, "success")

\* The deadline has passed, the budget refuses, or the rounds are used up.
Fail(t) ==
  /\ pc[t] = "running"
  /\ Release(t, "failed")
  /\ UNCHANGED steps

\* The compactor or the router throws: spawn() rejects.
Throw(t) ==
  /\ pc[t] = "running" /\ steps[t] < MaxSteps
  /\ Release(t, "rejected")
  /\ UNCHANGED steps

Work(t) == Round(t) \/ Answer(t) \/ Fail(t) \/ Throw(t)

Next == \E t \in Tasks : Refuse(t) \/ Spawn(t) \/ Work(t)

Spec == Init /\ [][Next]_vars

\* Models and tools answer in the end; nothing else is scheduled.
GateFairness == \A t \in Tasks : WF_vars(Work(t))

FairSpec == Spec /\ GateFairness

----------------------------------------------------------------------------
(* Properties *)

\* Every variable holds a value of its kind.
TypeOK ==
  /\ pc \in [Tasks -> {"new", "waiting", "running"} \cup Ended]
  /\ steps \in [Tasks -> 0 .. MaxSteps]
  /\ active \in 0 .. MaxConcurrent
  /\ waiters \in Seq(Tasks)

Running == {t \in Tasks : pc[t] = "running"}
Waiting == {t \in Tasks : pc[t] = "waiting"}

\* The semaphore's count is the number of sub-agents at work, however others ended.
CountExact == active = Cardinality(Running)

\* A sub-agent waits only while every slot is taken, and is in the FIFO once.
WaitsOnlyWhenFull ==
  /\ waiters # <<>> => active = MaxConcurrent
  /\ Range(waiters) = Waiting
  /\ IsInjective(waiters)

\* The parts together: the semaphore is exact about who works and who waits.
GateExact == TypeOK /\ CountExact /\ WaitsOnlyWhenFull

\* No barging: a sub-agent that has just been asked for never starts while
\* another waits, not even in the instant a slot is handed over.
NoBarging ==
  [][\A t \in Tasks : pc[t] = "new" /\ pc'[t] = "running" => Waiting = {}]_vars

\* Every waiting sub-agent starts, and every one at work ends.
EveryTaskServed ==
  \A t \in Tasks : pc[t] \in {"waiting", "running"} ~> pc[t] \in Ended

\* The two together: every sub-agent is served, and none before one that waits.
ServedInOrder == NoBarging /\ EveryTaskServed

============================================================================
