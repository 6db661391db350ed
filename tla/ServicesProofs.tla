--------------------------- MODULE ServicesProofs ---------------------------
(***************************************************************************)
(* What the gateway does on its own time. That the semaphore for sub-      *)
(* agents is exact, that a job has one execution, and that servers, tools  *)
(* and toggles agree, for any sub-agents, jobs, servers and clients.       *)
(***************************************************************************)
EXTENDS MCServices, FiniteSetTheorems, SequenceTheorems, TLAPS

----------------------------------------------------------------------------
(***************************************************************************)
(* The semaphore. GateExact is inductive as it stands: a slot is handed    *)
(* over only by a sub-agent that holds one, and the FIFO holds exactly     *)
(* those who wait, so that its head is somebody without a slot.            *)
(***************************************************************************)

(* Appending a newcomer to the FIFO adds it, once. *)
LEMMA Enqueued ==
  ASSUME NEW S, NEW s \in Seq(S), NEW t \in S, IsInjective(s), t \notin Range(s)
  PROVE  /\ Append(s, t) \in Seq(S) /\ Append(s, t) # <<>>
         /\ Range(Append(s, t)) = Range(s) \cup {t}
         /\ IsInjective(Append(s, t))
<1> DEFINE r == Append(s, t)
<1>1. /\ r \in Seq(S) /\ Len(r) = Len(s) + 1 /\ Len(s) \in Nat
      /\ DOMAIN r = 1 .. Len(s) + 1 /\ DOMAIN s = 1 .. Len(s)
      /\ \A i \in 1 .. Len(s) : r[i] = s[i]
      /\ r[Len(s) + 1] = t
  BY AppendProperties, LenProperties
<1>2. Range(r) = Range(s) \cup {t}
  BY <1>1 DEF Range
<1>3. IsInjective(r)
  BY <1>1 DEF IsInjective, Range
<1>4. r # <<>>
  BY <1>1, EmptySeq
<1> QED
  BY <1>1, <1>2, <1>3, <1>4

(* Taking the head from the FIFO takes out that one, and no other. *)
LEMMA Dequeued ==
  ASSUME NEW S, NEW s \in Seq(S), s # <<>>, IsInjective(s)
  PROVE  /\ Tail(s) \in Seq(S)
         /\ Head(s) \in Range(s)
         /\ Range(Tail(s)) = Range(s) \ {Head(s)}
         /\ IsInjective(Tail(s))
<1> DEFINE r == Tail(s)
<1>1. /\ r \in Seq(S) /\ Len(r) = Len(s) - 1 /\ Len(s) \in Nat \ {0}
      /\ DOMAIN r = 1 .. Len(s) - 1 /\ DOMAIN s = 1 .. Len(s)
      /\ \A i \in 1 .. Len(s) - 1 : r[i] = s[i + 1]
      /\ Head(s) = s[1]
  BY HeadTailProperties, LenProperties, EmptySeq
<1>2. Head(s) \in Range(s)
  BY <1>1 DEF Range
<1>3. Range(r) \subseteq Range(s) \ {Head(s)}
  BY <1>1 DEF Range, IsInjective
<1>4. Range(s) \ {Head(s)} \subseteq Range(r)
  <2>1. SUFFICES ASSUME NEW x \in Range(s), x # Head(s)
                 PROVE  x \in Range(r)
    OBVIOUS
  <2>2. PICK i \in 1 .. Len(s) : s[i] = x
    BY <1>1, <2>1 DEF Range
  <2>3. i - 1 \in 1 .. Len(s) - 1 /\ (i - 1) + 1 = i
    BY <1>1, <2>1, <2>2
  <2>4. i - 1 \in DOMAIN r /\ r[i - 1] = x
    BY <1>1, <2>2, <2>3
  <2> QED
    BY <2>4 DEF Range
<1>5. IsInjective(r)
  BY <1>1 DEF IsInjective
<1> QED
  BY <1>1, <1>2, <1>3, <1>4, <1>5

(* Those at work are finitely many. *)
LEMMA RunningFinite ==
  ASSUME TypeOK
  PROVE  IsFiniteSet(Running) /\ Cardinality(Running) \in Nat
BY GateAssumption, FS_Subset, FS_CardinalityType DEF Running

(* A sub-agent that takes a free slot, or waits for one. *)
LEMMA AcquireStep ==
  ASSUME GateExact, NEW t \in Tasks, pc[t] = "new", Acquire(t), UNCHANGED steps
  PROVE  GateExact'
<1> USE DEF GateExact
<1>1. MaxConcurrent \in Nat \ {0} /\ IsFiniteSet(Running) /\ Cardinality(Running) \in Nat
  BY RunningFinite, GateAssumption
<1>2. CASE active < MaxConcurrent
  <2>1. /\ active' = active + 1 /\ waiters' = waiters
        /\ pc' = [pc EXCEPT ![t] = "running"]
    BY <1>2 DEF Acquire
  <2>2. Running' = Running \cup {t} /\ t \notin Running /\ Waiting' = Waiting
    BY <2>1 DEF Running, Waiting, TypeOK
  <2>3. CountExact'
    BY <1>1, <2>1, <2>2, FS_AddElement DEF CountExact
  <2>4. TypeOK'
    BY <1>1, <1>2, <2>1 DEF TypeOK
  <2>5. WaitsOnlyWhenFull'
    BY <1>1, <1>2, <2>1, <2>2 DEF WaitsOnlyWhenFull
  <2> QED
    BY <2>3, <2>4, <2>5
<1>3. CASE ~ (active < MaxConcurrent)
  <2>1. /\ active' = active /\ waiters' = Append(waiters, t)
        /\ pc' = [pc EXCEPT ![t] = "waiting"]
    BY <1>3 DEF Acquire
  <2>2. active = MaxConcurrent
    BY <1>1, <1>3 DEF TypeOK
  <2>3. Running' = Running /\ Waiting' = Waiting \cup {t} /\ t \notin Range(waiters)
    BY <2>1 DEF Running, Waiting, TypeOK, WaitsOnlyWhenFull
  <2>4. /\ waiters' \in Seq(Tasks) /\ Range(waiters') = Range(waiters) \cup {t}
        /\ IsInjective(waiters')
    BY <2>1, <2>3, Enqueued DEF TypeOK, WaitsOnlyWhenFull
  <2>5. TypeOK'
    BY <2>1, <2>4 DEF TypeOK
  <2>6. CountExact' /\ WaitsOnlyWhenFull'
    BY <2>1, <2>2, <2>3, <2>4 DEF CountExact, WaitsOnlyWhenFull
  <2> QED
    BY <2>5, <2>6
<1> QED
  BY <1>2, <1>3

(* A sub-agent that ends: its slot goes to the first who waits, or is free. *)
LEMMA ReleaseStep ==
  ASSUME GateExact, NEW t \in Tasks, NEW how \in Ended, pc[t] = "running",
         Release(t, how), steps' \in [Tasks -> 0 .. MaxSteps]
  PROVE  GateExact'
<1> USE DEF GateExact
<1>1. MaxConcurrent \in Nat \ {0} /\ IsFiniteSet(Running) /\ Cardinality(Running) \in Nat
  BY RunningFinite, GateAssumption
<1>2. t \in Running /\ IsFiniteSet(Running \ {t}) /\ Cardinality(Running \ {t}) = active - 1
  BY <1>1, FS_RemoveElement DEF Running, CountExact
<1>3. CASE waiters = <<>>
  <2>1. /\ active' = active - 1 /\ waiters' = waiters
        /\ pc' = [pc EXCEPT ![t] = how]
    BY <1>3 DEF Release
  <2>2. Running' = Running \ {t} /\ Waiting' = Waiting
    BY <2>1 DEF Running, Waiting, TypeOK, Ended
  <2>3. active \in 1 .. MaxConcurrent
    BY <1>1, <1>2, FS_CardinalityType DEF TypeOK
  <2>4. TypeOK'
    BY <1>1, <2>1, <2>3 DEF TypeOK
  <2>5. CountExact' /\ WaitsOnlyWhenFull'
    BY <1>2, <1>3, <2>1, <2>2 DEF CountExact, WaitsOnlyWhenFull
  <2> QED
    BY <2>4, <2>5
<1>4. CASE waiters # <<>>
  <2> DEFINE w == Head(waiters)
  <2>1. /\ active' = active /\ waiters' = Tail(waiters)
        /\ pc' = [pc EXCEPT ![t] = how, ![w] = "running"]
    BY <1>4 DEF Release
  <2>2. /\ Tail(waiters) \in Seq(Tasks) /\ w \in Range(waiters)
        /\ Range(Tail(waiters)) = Range(waiters) \ {w} /\ IsInjective(Tail(waiters))
    BY <1>4, Dequeued DEF TypeOK, WaitsOnlyWhenFull
  <2>3. w \in Tasks /\ pc[w] = "waiting" /\ w # t
    BY <2>2 DEF WaitsOnlyWhenFull, Waiting
  <2>4. /\ Running' = (Running \ {t}) \cup {w} /\ w \notin Running \ {t}
        /\ Waiting' = Waiting \ {w}
    BY <2>1, <2>3 DEF Running, Waiting, TypeOK, Ended
  <2>5. Cardinality(Running') = active
    <3>1. Cardinality((Running \ {t}) \cup {w}) = Cardinality(Running \ {t}) + 1
      BY <1>2, <2>4, FS_AddElement
    <3>2. active \in Nat
      BY <1>1 DEF TypeOK
    <3> QED
      BY <1>2, <2>4, <3>1, <3>2
  <2>6. TypeOK'
    BY <2>1, <2>2, <2>3 DEF TypeOK
  <2>7. CountExact' /\ WaitsOnlyWhenFull'
    BY <1>4, <2>1, <2>2, <2>4, <2>5 DEF CountExact, WaitsOnlyWhenFull
  <2> QED
    BY <2>6, <2>7
<1> QED
  BY <1>3, <1>4

(* Each action keeps the gate exact. *)
LEMMA GateStep ==
  ASSUME GateExact, [Next]_vars
  PROVE  GateExact'
<1>1. CASE UNCHANGED vars
  BY <1>1 DEF GateExact, TypeOK, CountExact, WaitsOnlyWhenFull, Running, Waiting, vars
<1>2. ASSUME NEW t \in Tasks, Refuse(t)
      PROVE  GateExact'
  <2>1. /\ pc[t] = "new" /\ pc' = [pc EXCEPT ![t] = "refused"]
        /\ UNCHANGED <<steps, active, waiters>>
    BY <1>2 DEF Refuse
  <2>2. Running' = Running /\ Waiting' = Waiting /\ TypeOK'
    BY <2>1 DEF GateExact, TypeOK, Running, Waiting, Ended
  <2> QED
    BY <2>1, <2>2 DEF GateExact, CountExact, WaitsOnlyWhenFull
<1>3. ASSUME NEW t \in Tasks, Spawn(t)
      PROVE  GateExact'
  BY <1>3, AcquireStep DEF Spawn
<1>4. ASSUME NEW t \in Tasks, Round(t)
      PROVE  GateExact'
  <2>1. UNCHANGED <<pc, active, waiters>> /\ steps' \in [Tasks -> 0 .. MaxSteps]
    BY <1>4, GateAssumption DEF Round, GateExact, TypeOK
  <2> QED
    BY <2>1 DEF GateExact, TypeOK, CountExact, WaitsOnlyWhenFull, Running, Waiting
<1>5. ASSUME NEW t \in Tasks, Answer(t)
      PROVE  GateExact'
  <2>1. steps' \in [Tasks -> 0 .. MaxSteps]
    BY <1>5, GateAssumption DEF Answer, GateExact, TypeOK
  <2>2. pc[t] = "running" /\ Release(t, "success") /\ "success" \in Ended
    BY <1>5 DEF Answer, Ended
  <2> QED
    BY <2>1, <2>2, ReleaseStep
<1>6. ASSUME NEW t \in Tasks, Fail(t) \/ Throw(t)
      PROVE  GateExact'
  <2>1. steps' \in [Tasks -> 0 .. MaxSteps] /\ pc[t] = "running"
    BY <1>6 DEF Fail, Throw, GateExact, TypeOK
  <2>2. Release(t, "failed") \/ Release(t, "rejected")
    BY <1>6 DEF Fail, Throw
  <2>3. "failed" \in Ended /\ "rejected" \in Ended
    BY DEF Ended
  <2> QED
    BY <2>1, <2>2, <2>3, ReleaseStep
<1> QED
  BY <1>1, <1>2, <1>3, <1>4, <1>5, <1>6 DEF Next, Work

\* The invariant holds before the first sub-agent.
LEMMA GateInit == Init => GateExact
<1>1. SUFFICES ASSUME Init PROVE GateExact
  OBVIOUS
<1>2. Running = {} /\ Waiting = {} /\ Range(waiters) = {} /\ IsInjective(waiters)
  BY <1>1 DEF Init, Running, Waiting, Range, IsInjective
<1>3. TypeOK
  BY <1>1, GateAssumption, EmptySeq DEF Init, TypeOK
<1>4. CountExact /\ WaitsOnlyWhenFull
  BY <1>1, <1>2, FS_EmptySet DEF Init, CountExact, WaitsOnlyWhenFull
<1> QED
  BY <1>3, <1>4 DEF GateExact

(* The semaphore counts those at work, and sub-agents wait, in a FIFO that holds  *)
(* each once, only while every slot is taken (SubagentSpawner.acquire, release).  *)
THEOREM GateIsExact == Spec => []GateExact
<1>1. Init => GateExact
  BY GateInit
<1>2. GateExact /\ [Next]_vars => GateExact'
  BY GateStep
<1> QED
  BY <1>1, <1>2, PTL DEF Spec

(* No more sub-agents work at once than maxConcurrent. *)
THEOREM SlotsAreKept == Spec => [](Cardinality(Running) <= MaxConcurrent)
<1>1. GateExact => Cardinality(Running) <= MaxConcurrent
  BY GateAssumption DEF GateExact, TypeOK, CountExact
<1> QED
  BY <1>1, GateIsExact, PTL

(* A sub-agent that has just been asked for starts only when nobody waits: release() *)
(* hands the slot over before anything else can ask for it.                          *)
THEOREM NobodyBarges == Spec => NoBarging
<1>1. ASSUME GateExact, [Next]_vars, NEW t \in Tasks, pc[t] = "new", pc'[t] = "running"
      PROVE  Waiting = {}
  <2>1. PICK s \in Tasks : Refuse(s) \/ Spawn(s) \/ Work(s)
    BY <1>1 DEF Next, vars
  <2>2. CASE Spawn(s) /\ active < MaxConcurrent
    <3>1. waiters = <<>>
      BY <1>1, <2>2, GateAssumption DEF GateExact, TypeOK, WaitsOnlyWhenFull
    <3>2. Range(waiters) = {}
      BY <3>1 DEF Range
    <3> QED
      BY <1>1, <3>2 DEF GateExact, WaitsOnlyWhenFull
  <2>3. CASE Refuse(s) \/ (Spawn(s) /\ ~ (active < MaxConcurrent)) \/ Round(s)
    BY <1>1, <2>3 DEF Refuse, Spawn, Acquire, Round, GateExact, TypeOK
  <2>4. CASE Answer(s) \/ Fail(s) \/ Throw(s)
    <3>1. PICK how \in Ended : Release(s, how) /\ pc[s] = "running"
      BY <2>4 DEF Answer, Fail, Throw, Ended
    <3>2. CASE waiters = <<>>
      BY <1>1, <3>1, <3>2 DEF Release, GateExact, TypeOK, Ended
    <3>3. CASE waiters # <<>>
      <4>1. Head(waiters) \in Waiting
        BY <1>1, <3>3, Dequeued DEF GateExact, TypeOK, WaitsOnlyWhenFull
      <4>2. pc[Head(waiters)] # "new" /\ Head(waiters) \in Tasks
        BY <4>1 DEF Waiting
      <4>3. pc'[t] = IF t = Head(waiters) THEN "running" ELSE IF t = s THEN how ELSE pc[t]
        BY <1>1, <3>1, <3>3, <4>2 DEF Release, GateExact, TypeOK
      <4> QED
        BY <1>1, <3>1, <4>2, <4>3 DEF Ended
    <3> QED
      BY <3>2, <3>3
  <2> QED
    BY <2>1, <2>2, <2>3, <2>4 DEF Work
<1>2. GateExact /\ [Next]_vars =>
        [\A t \in Tasks : pc[t] = "new" /\ pc'[t] = "running" => Waiting = {}]_vars
  BY <1>1
<1> QED
  BY <1>2, GateIsExact, PTL DEF Spec, NoBarging

----------------------------------------------------------------------------
(***************************************************************************)
(* Scheduled jobs. An execution writes back the schedule it began with, so *)
(* the invariant adds that this is still the row's unless the job was      *)
(* edited meanwhile, and that an id is not used again.                     *)
(***************************************************************************)

Executions == [job : Jobs, schedule : Schedules]
Dates == [of : Schedules, due : BOOLEAN]
JobRows == [schedule : Schedules, enabled : BOOLEAN, next : {Never} \cup Dates]

\* Two executions of a job that nobody ran by hand are one, and the job is marked
\* exactly while it is executed.
OneExecution ==
  /\ \A e, f \in Execs :
       execs[e] # Idle /\ execs[f] # Idle /\ execs[e].job = execs[f].job /\ execs[e].job \notin manual
         => e = f
  /\ \A j \in Jobs \ manual : j \in marks <=> \E e \in Execs : execs[e] # Idle /\ execs[e].job = j

\* What NextFollowsSchedule adds to itself: an execution ends with the schedule it began
\* with, and that is still the row's unless the job was edited; an id is not used again,
\* so the row it finds is the one it began with.
ExecutionsAreCurrent ==
  /\ \A j \in Jobs : Exists(j) => j \in created
  /\ \A e \in Execs : execs[e] # Idle =>
       /\ execs[e].job \in created
       /\ Exists(execs[e].job) /\ execs[e].job \notin edited
            => execs[e].schedule = rows[execs[e].job].schedule

CronInv == CronTypeOK /\ OneExecution /\ ExecutionsAreCurrent /\ NextFollowsSchedule

\* None of the three nulls is what it stands in for.
LEMMA NullsDiffer == NoJob \notin JobRows /\ Never \notin Dates /\ Idle \notin Executions
  BY CronAssumption DEF JobRows, Dates, Executions

\* A date that is computed is one of its schedule; there may be none for a sparse schedule
\* alone.
LEMMA DatesAreDates ==
  ASSUME NEW s \in Schedules
  PROVE  /\ DateOf(s) \in Dates /\ DateOf(s).of = s
         /\ \A next \in DatesOf(s) :
              /\ next \in {Never} \cup Dates
              /\ IF next = Never THEN s \in Sparse ELSE next.of = s
<1>1. DateOf(s) \in Dates /\ DateOf(s).of = s
  BY DEF DateOf, Dates
<1>2. DateOf(s) # Never
  BY <1>1, NullsDiffer
<1> QED
  BY <1>1, <1>2 DEF DatesOf

\* Rescheduling changes the date of a row alone.
LEMMA RescheduledIsRow ==
  ASSUME NEW row \in JobRows, NEW next \in NextOf(row)
  PROVE  /\ [row EXCEPT !.next = next] \in JobRows
         /\ [row EXCEPT !.next = next].schedule = row.schedule
         /\ [row EXCEPT !.next = next].enabled = row.enabled
         /\ [row EXCEPT !.next = next].next = next
         /\ row.enabled => IF next = Never THEN row.schedule \in Sparse
                                          ELSE next.of = row.schedule
<1>1. row.schedule \in Schedules
  BY DEF JobRows
<1>2. next \in {Never} \cup Dates
      /\ (row.enabled => IF next = Never THEN row.schedule \in Sparse
                                         ELSE next.of = row.schedule)
  BY <1>1, DatesAreDates DEF NextOf
<1> QED
  BY <1>2 DEF JobRows

\* The invariant holds before the first tick.
LEMMA CronInitOK == CronInit => CronInv
  BY DEF CronInit, CronInv, CronTypeOK, OneExecution, ExecutionsAreCurrent, NextFollowsSchedule,
     Exists

\* A step that gives executions to free places, of jobs that exist.
LEMMA ExecuteOK ==
  ASSUME CronInv, NEW S \in SUBSET Jobs, NEW slot \in Injection(S, Free), Execute(slot),
         \A j \in S : Exists(j),
         UNCHANGED <<rows, edited, created>>, manual \subseteq manual',
         \A j \in S : j \notin manual' => j \notin marks
  PROVE  CronInv'
<1> USE DEF CronInv
<1>1. slot \in [S -> Free] /\ \A i, j \in S : slot[i] = slot[j] => i = j
  BY DEF Injection, IsInjective
<1>2. DOMAIN slot = S /\ \A e : e \in Range(slot) <=> \E j \in S : slot[j] = e
  BY <1>1 DEF Range
<1>3. \A j \in S : slot[j] \in Execs /\ execs[slot[j]] = Idle /\ rows[j].schedule \in Schedules
  BY <1>1 DEF Free, CronTypeOK, Exists
<1>4. \A j \in S : execs'[slot[j]] = [job |-> j, schedule |-> rows[j].schedule]
  <2> SUFFICES ASSUME NEW j \in S PROVE execs'[slot[j]] = [job |-> j, schedule |-> rows[j].schedule]
    OBVIOUS
  <2>1. (CHOOSE k \in DOMAIN slot : slot[k] = slot[j]) = j
    BY <1>1, <1>2
  <2>2. slot[j] \in Execs /\ slot[j] \in Range(slot)
    BY <1>2, <1>3
  <2> QED
    BY <2>1, <2>2 DEF Execute
<1>5. \A e \in Execs : (\A j \in S : slot[j] # e) => execs'[e] = execs[e]
  BY <1>2 DEF Execute
<1>6. \A j \in S : execs'[slot[j]] \in Executions /\ execs'[slot[j]] # Idle
                   /\ execs'[slot[j]].job = j /\ execs'[slot[j]].schedule = rows[j].schedule
  <2> SUFFICES ASSUME NEW j \in S
               PROVE  execs'[slot[j]] \in Executions /\ execs'[slot[j]] # Idle
                      /\ execs'[slot[j]].job = j /\ execs'[slot[j]].schedule = rows[j].schedule
    OBVIOUS
  <2>1. [job |-> j, schedule |-> rows[j].schedule] \in Executions
    BY <1>3 DEF Executions
  <2>2. execs'[slot[j]] \in Executions
    BY <1>4, <2>1
  <2>3. execs'[slot[j]] # Idle
    BY <2>2, NullsDiffer
  <2>4. execs'[slot[j]] = [job |-> j, schedule |-> rows[j].schedule]
    BY <1>4
  <2>5. execs'[slot[j]].job = j /\ execs'[slot[j]].schedule = rows[j].schedule
    BY <2>4
  <2> QED
    BY <2>2, <2>3, <2>5
<1>7. CronTypeOK'
  <2>1. execs' \in [Execs -> {Idle} \cup Executions]
    <3>1. execs' = [e \in Execs |-> execs'[e]]
      BY DEF Execute
    <3>2. \A e \in Execs : execs'[e] \in {Idle} \cup Executions
      BY <1>5, <1>6 DEF CronTypeOK, Executions
    <3> QED
      BY <3>1, <3>2
  <2>2. marks' \subseteq Jobs
    BY <1>2 DEF Execute, CronTypeOK
  <2> QED
    BY <2>1, <2>2 DEF CronTypeOK, Executions
<1>8. \A j \in S : j \notin manual' => \A e \in Execs : execs[e] # Idle => execs[e].job # j
  BY DEF OneExecution
<1>9. ASSUME NEW e \in Execs, NEW f \in Execs, execs'[e] # Idle, execs'[f] # Idle,
             execs'[e].job = execs'[f].job, execs'[e].job \notin manual'
      PROVE  e = f
  <2>1. CASE (\E j \in S : slot[j] = e) /\ (\E j \in S : slot[j] = f)
    BY <1>6, <1>9, <2>1
  <2>2. CASE (\A j \in S : slot[j] # e) /\ (\A j \in S : slot[j] # f)
    BY <1>5, <1>9, <2>2 DEF OneExecution
  <2>3. CASE (\E j \in S : slot[j] = e) /\ (\A j \in S : slot[j] # f)
    BY <1>5, <1>6, <1>8, <1>9, <2>3
  <2>4. CASE (\A j \in S : slot[j] # e) /\ (\E j \in S : slot[j] = f)
    BY <1>5, <1>6, <1>8, <1>9, <2>4
  <2> QED
    BY <2>1, <2>2, <2>3, <2>4
<1>10. ASSUME NEW j \in Jobs \ manual'
       PROVE  j \in marks' <=> \E e \in Execs : execs'[e] # Idle /\ execs'[e].job = j
  <2>1. j \in marks' <=> j \in marks \/ j \in S
    BY <1>2 DEF Execute
  <2>2. ASSUME j \in S PROVE \E e \in Execs : execs'[e] # Idle /\ execs'[e].job = j
    BY <1>3, <1>6, <2>2
  <2>3. ASSUME j \in marks PROVE \E e \in Execs : execs'[e] # Idle /\ execs'[e].job = j
    <3>1. PICK e \in Execs : execs[e] # Idle /\ execs[e].job = j
      BY <2>3 DEF OneExecution
    <3>2. execs'[e] = execs[e]
      BY <1>3, <1>5, <3>1
    <3> QED
      BY <3>1, <3>2
  <2>4. ASSUME NEW e \in Execs, execs'[e] # Idle, execs'[e].job = j PROVE j \in marks \/ j \in S
    <3>1. CASE \E k \in S : slot[k] = e
      BY <1>6, <2>4, <3>1
    <3>2. CASE \A k \in S : slot[k] # e
      BY <1>5, <2>4, <3>2 DEF OneExecution
    <3> QED
      BY <3>1, <3>2
  <2> QED
    BY <2>1, <2>2, <2>3, <2>4
<1>11. OneExecution'
  BY <1>9, <1>10 DEF OneExecution
<1>12. \A j \in Jobs : Exists(j)' <=> Exists(j)
  BY DEF Exists
<1>13. ExecutionsAreCurrent'
  <2>1. ASSUME NEW e \in Execs, execs'[e] # Idle
        PROVE  /\ execs'[e].job \in created
               /\ Exists(execs'[e].job) /\ execs'[e].job \notin edited
                    => execs'[e].schedule = rows[execs'[e].job].schedule
    <3>1. CASE \E j \in S : slot[j] = e
      BY <1>6, <3>1 DEF ExecutionsAreCurrent
    <3>2. CASE \A j \in S : slot[j] # e
      BY <1>5, <2>1, <3>2 DEF ExecutionsAreCurrent
    <3> QED
      BY <3>1, <3>2
  <2> QED
    BY <1>12, <2>1 DEF ExecutionsAreCurrent, Exists
<1>14. NextFollowsSchedule'
  BY <1>12 DEF NextFollowsSchedule
<1> QED
  BY <1>7, <1>11, <1>13, <1>14

\* Every step keeps it: ticks, runs by hand, edits, ends and restarts.
LEMMA CronStepOK == CronInv /\ [CronNext]_cronVars => CronInv'
<1> SUFFICES ASSUME CronInv, [CronNext]_cronVars PROVE CronInv'
  OBVIOUS
<1> USE DEF CronInv
<1>1. CASE Tick
  <2> DEFINE due == {j \in Jobs : IsDue(j) /\ j \notin marks}
  <2>1. PICK slot \in Injection(due, Free) : Execute(slot)
    BY <1>1 DEF Tick
  <2>2. UNCHANGED <<rows, manual, edited, created>>
    BY <1>1 DEF Tick
  <2>3. \A j \in due : Exists(j) /\ j \notin marks
    BY DEF IsDue
  <2> HIDE DEF due
  <2>4. due \in SUBSET Jobs
    BY DEF due
  <2> QED
    BY <2>1, <2>2, <2>3, <2>4, ExecuteOK
<1>2. ASSUME NEW j \in Jobs, RunNow(j) PROVE CronInv'
  <2>1. PICK e \in Free : Execute([k \in {j} |-> e])
    BY <1>2 DEF RunNow
  <2>2. [k \in {j} |-> e] \in Injection({j}, Free)
    BY <2>1 DEF Injection, IsInjective
  <2>3. /\ UNCHANGED <<rows, edited, created>> /\ manual \subseteq manual'
        /\ Exists(j) /\ j \in manual'
    BY <1>2 DEF RunNow
  <2> QED
    BY <2>1, <2>2, <2>3, ExecuteOK
<1>3. ASSUME NEW j \in Jobs, NEW schedule \in Schedules, Create(j, schedule) PROVE CronInv'
  <2> DEFINE new == [schedule |-> schedule, enabled |-> TRUE, next |-> DateOf(schedule)]
  <2>3. rows' = [rows EXCEPT ![j] = new]
    BY <1>3 DEF Create
  <2>4. new \in JobRows /\ new.schedule = schedule /\ new.next = DateOf(schedule)
    BY DatesAreDates DEF JobRows
  <2>5. DateOf(schedule) # Never /\ DateOf(schedule).of = schedule
    BY DatesAreDates, NullsDiffer
  <2> HIDE DEF new
  <2>6. CronTypeOK'
    BY <1>3, <2>3, <2>4 DEF Create, CronTypeOK, JobRows, Dates
  <2>7. \A e \in Execs : execs[e] # Idle => execs[e].job # j
    BY <1>3 DEF Create, ExecutionsAreCurrent
  <2>8. OneExecution'
    BY <1>3 DEF Create, OneExecution
  <2>9. ExecutionsAreCurrent'
    BY <1>3, <2>3, <2>7 DEF Create, ExecutionsAreCurrent, Exists, CronTypeOK
  <2>10. NextFollowsSchedule'
    BY <1>3, <2>3, <2>4, <2>5 DEF Create, NextFollowsSchedule, Exists, CronTypeOK
  <2> QED
    BY <2>6, <2>8, <2>9, <2>10
<1>4. ASSUME NEW j \in Jobs, NEW schedule \in Schedules, NEW on \in BOOLEAN,
             Update(j, schedule, on)
      PROVE  CronInv'
  <2> DEFINE row == [rows[j] EXCEPT !.schedule = schedule, !.enabled = on]
  <2>1. row \in JobRows /\ row.schedule = schedule /\ row.enabled = on
    BY <1>4 DEF Update, Exists, CronTypeOK, JobRows, Dates
  <2> HIDE DEF row
  <2>2. PICK next \in NextOf(row) : rows' = [rows EXCEPT ![j] = [row EXCEPT !.next = next]]
    BY <1>4 DEF Update, Rescheduled, row
  <2> DEFINE new == [row EXCEPT !.next = next]
  <2>3. rows' = [rows EXCEPT ![j] = new]
    BY <2>2
  <2>4. /\ new \in JobRows /\ new.schedule = schedule /\ new.enabled = on
        /\ on => IF new.next = Never THEN schedule \in Sparse ELSE new.next.of = schedule
    BY <2>1, RescheduledIsRow
  <2> HIDE DEF new
  <2>6. CronTypeOK'
    BY <1>4, <2>3, <2>4 DEF Update, CronTypeOK, JobRows, Dates
  <2>7. OneExecution'
    BY <1>4 DEF Update, OneExecution
  <2>8. j \in edited' \/ \A e \in Execs : execs[e] # Idle => execs[e].job # j
    BY <1>4 DEF Update, InFlight
  <2>9. \A k \in Jobs : k # j => (k \in edited' <=> k \in edited) /\ rows'[k] = rows[k]
    BY <1>4, <2>3 DEF Update, CronTypeOK
  <2>10. ExecutionsAreCurrent'
    BY <1>4, <2>3, <2>8, <2>9 DEF Update, ExecutionsAreCurrent, Exists, CronTypeOK
  <2>11. NextFollowsSchedule'
    BY <1>4, <2>3, <2>4, <2>9 DEF Update, NextFollowsSchedule, Exists, CronTypeOK
  <2> QED
    BY <2>6, <2>7, <2>10, <2>11
<1>5. ASSUME NEW j \in Jobs, Delete(j) PROVE CronInv'
  BY <1>5 DEF Delete, CronTypeOK, OneExecution, ExecutionsAreCurrent, NextFollowsSchedule, Exists
<1>6. ASSUME NEW j \in Jobs, BecomesDue(j) PROVE CronInv'
  <2> DEFINE new == [rows[j] EXCEPT !.next.due = TRUE]
  <2>1. rows[j] \in JobRows /\ rows[j].next \in Dates
    BY <1>6 DEF BecomesDue, Exists, CronTypeOK, JobRows, Dates
  <2>2. /\ new \in JobRows /\ new.schedule = rows[j].schedule /\ new.enabled = rows[j].enabled
        /\ new.next \in Dates /\ new.next.of = rows[j].next.of
    BY <2>1 DEF JobRows, Dates
  <2>3. rows' = [rows EXCEPT ![j] = new]
    BY <1>6 DEF BecomesDue
  <2> HIDE DEF new
  <2>4. new.next # Never
    BY <2>2, NullsDiffer
  <2>5. CronTypeOK'
    <3>1. rows \in [Jobs -> {NoJob} \cup JobRows]
      BY DEF CronTypeOK, JobRows, Dates
    <3>2. rows' \in [Jobs -> {NoJob} \cup JobRows]
      BY <2>2, <2>3, <3>1
    <3> QED
      BY <1>6, <3>2 DEF BecomesDue, CronTypeOK, JobRows, Dates
  <2>6. OneExecution'
    BY <1>6 DEF BecomesDue, OneExecution
  <2>7. ExecutionsAreCurrent'
    BY <1>6, <2>2, <2>3 DEF BecomesDue, ExecutionsAreCurrent, Exists, CronTypeOK
  <2>8. NextFollowsSchedule'
    <3>1. rows'[j] = new /\ Exists(j) /\ rows[j].next # Never
          /\ \A k \in Jobs : k # j => rows'[k] = rows[k]
      BY <1>6, <2>3 DEF BecomesDue, CronTypeOK
    <3>2. ASSUME NEW k \in Jobs \ edited, Exists(k)', rows'[k].enabled
          PROVE  IF rows'[k].next = Never THEN rows'[k].schedule \in Sparse
                                          ELSE rows'[k].next.of = rows'[k].schedule
      <4>1. CASE k = j
        BY <2>2, <2>4, <3>1, <3>2, <4>1 DEF NextFollowsSchedule
      <4>2. CASE k # j
        BY <3>1, <3>2, <4>2 DEF NextFollowsSchedule, Exists
      <4> QED
        BY <4>1, <4>2
    <3> QED
      BY <1>6, <3>2 DEF BecomesDue, NextFollowsSchedule
  <2> QED
    BY <2>5, <2>6, <2>7, <2>8
<1>7. ASSUME NEW e \in Execs, End(e) PROVE CronInv'
  <2>1. execs[e].job \in Jobs /\ execs[e].schedule \in Schedules /\ execs[e] # Idle
    BY <1>7 DEF End, CronTypeOK
  <2> DEFINE j == execs[e].job
  <2>0. PICK next \in DatesOf(execs[e].schedule) :
          rows' = IF Exists(j) THEN [rows EXCEPT ![j].next = next] ELSE rows
    BY <1>7 DEF End
  <2> DEFINE new == [rows[j] EXCEPT !.next = next]
  <2>2. next \in {Never} \cup Dates
        /\ IF next = Never THEN execs[e].schedule \in Sparse ELSE next.of = execs[e].schedule
    BY <2>0, <2>1, DatesAreDates
  <2>3. Exists(j) => /\ new \in JobRows /\ new.schedule = rows[j].schedule
                     /\ new.enabled = rows[j].enabled /\ new.next = next
    BY <2>1, <2>2 DEF Exists, CronTypeOK, JobRows, Dates
  <2>4. rows' = IF Exists(j) THEN [rows EXCEPT ![j] = new] ELSE rows
    BY <2>0
  <2>5. /\ marks' = marks \ {j} /\ execs' = [execs EXCEPT ![e] = Idle]
        /\ UNCHANGED <<manual, edited, created>>
    BY <1>7 DEF End
  <2>6. j \notin edited /\ Exists(j) => execs[e].schedule = rows[j].schedule
    BY <2>1 DEF ExecutionsAreCurrent
  <2> HIDE DEF j, new
  <2>7. CronTypeOK'
    BY <2>1, <2>3, <2>4, <2>5 DEF CronTypeOK, JobRows, Dates
  <2>8. \A f \in Execs : execs'[f] = IF f = e THEN Idle ELSE execs[f]
    BY <2>5 DEF CronTypeOK
  <2>9. OneExecution'
    <3>1. ASSUME NEW k \in Jobs \ manual'
          PROVE  k \in marks' <=> \E f \in Execs : execs'[f] # Idle /\ execs'[f].job = k
      <4>1. CASE k = j
        <5>1. \A f \in Execs : execs[f] # Idle /\ execs[f].job = k => f = e
          BY <2>1, <2>5, <3>1, <4>1 DEF OneExecution, j
        <5> QED
          BY <2>5, <2>8, <4>1, <5>1
      <4>2. CASE k # j
        BY <2>1, <2>5, <2>8, <3>1, <4>2 DEF OneExecution, j
      <4> QED
        BY <4>1, <4>2
    <3>2. \A f, g \in Execs :
            execs'[f] # Idle /\ execs'[g] # Idle /\ execs'[f].job = execs'[g].job
              /\ execs'[f].job \notin manual' => f = g
      BY <2>5, <2>8 DEF OneExecution
    <3> QED
      BY <3>1, <3>2 DEF OneExecution
  <2>10. \A k \in Jobs : (Exists(k)' <=> Exists(k))
                         /\ (Exists(k) => rows'[k].schedule = rows[k].schedule
                                          /\ rows'[k].enabled = rows[k].enabled)
                         /\ (k # j => rows'[k] = rows[k])
    <3>1. CASE ~Exists(j)
      BY <2>4, <3>1 DEF Exists
    <3>2. CASE Exists(j)
      <4>1. rows' = [rows EXCEPT ![j] = new]
        BY <2>4, <3>2
      <4>2. new # NoJob
        BY <2>3, <3>2, NullsDiffer
      <4> QED
        BY <2>1, <2>3, <3>2, <4>1, <4>2 DEF Exists, CronTypeOK
    <3> QED
      BY <3>1, <3>2
  <2>11. ExecutionsAreCurrent'
    BY <2>5, <2>8, <2>10 DEF ExecutionsAreCurrent, CronTypeOK
  <2>12. NextFollowsSchedule'
    <3>1. Exists(j) => rows'[j] = new
      BY <2>1, <2>4 DEF CronTypeOK, j
    <3>2. ASSUME NEW k \in Jobs \ edited, Exists(k)', rows'[k].enabled
          PROVE  IF rows'[k].next = Never THEN rows'[k].schedule \in Sparse
                                          ELSE rows'[k].next.of = rows'[k].schedule
      <4>1. CASE k = j
        BY <2>1, <2>2, <2>3, <2>6, <2>10, <3>1, <3>2, <4>1
      <4>2. CASE k # j
        BY <2>10, <3>2, <4>2 DEF NextFollowsSchedule
      <4> QED
        BY <4>1, <4>2
    <3> QED
      BY <2>5, <3>2 DEF NextFollowsSchedule
  <2> QED
    BY <2>7, <2>9, <2>11, <2>12
<1>8. CASE Reboot
  <2>1. \A j \in Jobs : Exists(j) => rows[j] \in JobRows
    BY DEF Exists, CronTypeOK, JobRows, Dates
  <2>0. PICK next \in [Jobs -> {Never} \cup UNION {DatesOf(schedule) : schedule \in Schedules}] :
          /\ \A j \in Jobs : IF Exists(j) THEN next[j] \in NextOf(rows[j]) ELSE next[j] = Never
          /\ rows' = [j \in Jobs |-> IF Exists(j) THEN [rows[j] EXCEPT !.next = next[j]] ELSE NoJob]
    BY <1>8 DEF Reboot
  <2>2. \A j \in Jobs : rows'[j] = IF Exists(j) THEN [rows[j] EXCEPT !.next = next[j]] ELSE NoJob
    BY <2>0
  <2>3. ASSUME NEW j \in Jobs, Exists(j)
        PROVE  /\ rows'[j] \in JobRows /\ rows'[j].schedule = rows[j].schedule
               /\ rows'[j].enabled = rows[j].enabled
               /\ rows[j].enabled => IF rows'[j].next = Never THEN rows[j].schedule \in Sparse
                                     ELSE rows'[j].next.of = rows[j].schedule
    <3>1. rows[j] \in JobRows /\ next[j] \in NextOf(rows[j])
      BY <2>0, <2>1, <2>3
    <3>2. rows'[j] = [rows[j] EXCEPT !.next = next[j]]
      BY <2>2, <2>3
    <3> QED
      BY <3>1, <3>2, RescheduledIsRow
  <2>4. rows' \in [Jobs -> {NoJob} \cup JobRows]
    <3>1. rows' = [j \in Jobs |-> rows'[j]]
      BY <2>0
    <3> QED
      BY <2>2, <2>3, <3>1
  <2>5. \A e \in Execs : execs'[e] = Idle
    BY <1>8 DEF Reboot
  <2>6. CronTypeOK'
    BY <1>8, <2>4 DEF Reboot, CronTypeOK, JobRows, Dates
  <2>7. OneExecution'
    BY <1>8, <2>5 DEF Reboot, OneExecution
  <2>8. ExecutionsAreCurrent'
    <3>1. \A j \in Jobs : Exists(j)' => Exists(j)
      BY <2>2 DEF Exists
    <3> QED
      BY <1>8, <2>5, <3>1 DEF Reboot, ExecutionsAreCurrent
  <2>9. NextFollowsSchedule'
    <3>1. \A j \in Jobs : Exists(j)' => Exists(j)
      BY <2>2 DEF Exists
    <3> QED
      BY <2>3, <3>1 DEF NextFollowsSchedule
  <2> QED
    BY <2>6, <2>7, <2>8, <2>9
<1>9. CASE UNCHANGED cronVars
  BY <1>9 DEF cronVars, CronTypeOK, OneExecution, ExecutionsAreCurrent, NextFollowsSchedule,
     Exists
<1> QED
  BY <1>1, <1>2, <1>3, <1>4, <1>5, <1>6, <1>7, <1>8, <1>9 DEF CronNext

\* A set two of whose members are always one has at most one.
LEMMA AtMostOne ==
  ASSUME NEW S, \A x, y \in S : x = y
  PROVE  Cardinality(S) <= 1
<1>1. CASE S = {}
  BY <1>1, FS_EmptySet
<1>2. CASE S # {}
  <2>1. PICK x \in S : S = {x}
    BY <1>2
  <2> QED
    BY <2>1, FS_Singleton
<1> QED
  BY <1>1, <1>2

\* A job nobody touched runs once at a time, on its schedule.
THEOREM CronIsExact == CronSpec => []CronExact
<1>1. CronInv => CronExact
  <2> SUFFICES ASSUME CronInv PROVE CronExact
    OBVIOUS
  <2>1. ASSUME NEW j \in Jobs \ manual
        PROVE  Cardinality(InFlight(j)) <= 1 /\ (j \in marks <=> InFlight(j) # {})
    <3>1. \A e, f \in InFlight(j) : e = f
      BY <2>1 DEF CronInv, OneExecution, InFlight
    <3>2. j \in marks <=> InFlight(j) # {}
      BY <2>1 DEF CronInv, OneExecution, InFlight
    <3> QED
      BY <3>1, <3>2, AtMostOne
  <2> QED
    BY <2>1 DEF CronInv, CronExact, OneAtATime
<1> QED
  BY <1>1, CronInitOK, CronStepOK, PTL DEF CronSpec

----------------------------------------------------------------------------
(***************************************************************************)
(* MCP servers. An exit clears the entries of its server's name, whoever   *)
(* has them, so what is listed depends on which children are left: the     *)
(* invariant says that a skill whose server kept to the protocol has at    *)
(* most one child that was not told to end, and which it is.               *)
(***************************************************************************)

\* Clients: one that was not started has no child, one that was has its server, one that
\* was told to end is not waited for by a handshake.
ClientsSound ==
  /\ name \in [Clients -> Servers \cup {NoClient}]
  /\ \A c \in Clients :
       /\ phase[c] = "new" => child[c] = "gone"
       /\ phase[c] # "new" => name[c] \in Servers
       /\ child[c] = "killed" => phase[c] = "stopped"
       /\ child[c] = "alive" => phase[c] # "stopped"

\* Both maps have the same clients, whose child runs; calls wait for one that runs.
EntriesSound ==
  /\ toolOf = clientOf
  /\ \A n \in Servers : clientOf[n] # NoClient =>
       /\ name[clientOf[n]] = n /\ child[clientOf[n]] \in ServerRuns
       /\ phase[clientOf[n]] \in {"up", "stopped"}
  /\ calls \in [Calls -> Clients \cup {NoClient}]
  /\ \A k \in Calls : calls[k] # NoClient => child[calls[k]] \in ServerRuns

\* Nothing is toggled before the servers start, nor, without being noted, while they do.
BootSound ==
  /\ boot = "off" => /\ \A c \in Clients : phase[c] = "new"
                     /\ \A n \in SkillServers : toggle[n] = "idle"
  /\ boot # "done" => live \subseteq faulty
  /\ boot = "starting" => \A n \in SkillServers \ faulty : toggle[n] = "idle"
  /\ adapted # {} => adapter

\* The children of a skill whose server has kept to the protocol: at most one that was not
\* told to end, of an enabled skill, which is entered or still starts; one that was told is
\* the one that is entered, and the toggle waits for it.
ChildrenFollow(n) ==
  /\ \A c, d \in Clients :
       name[c] = n /\ name[d] = n /\ child[c] = "alive" /\ child[d] = "alive" => c = d
  /\ \A c \in Clients : name[c] = n /\ child[c] = "alive" =>
       /\ n \in enabled
       /\ \/ phase[c] \in Starting /\ (boot = "starting" \/ toggle[n] = "starting")
          \/ phase[c] = "up" /\ clientOf[n] = c
  /\ \A c \in Clients : name[c] = n /\ child[c] = "killed" => toggle[n] = "stopping" /\ clientOf[n] = c
  /\ toggle[n] = "starting" => n \in enabled
  /\ toggle[n] = "stopping" =>
       n \notin enabled /\ clientOf[n] # NoClient /\ child[clientOf[n]] = "killed"

\* And its tools, once it was enabled live: registered by the cached adapter, which
\* knows them, and gone when it is disabled.
ToolsFollow(n) ==
  n \in live =>
    /\ toggle[n] = "idle" /\ n \in enabled => clientOf[n] # NoClient
    /\ n \in registered /\ toggle[n] # "starting" => n \in adapted
    /\ toggle[n] = "idle" /\ n \notin enabled => n \notin registered

SkillsFollow == \A n \in SkillServers \ faulty : ChildrenFollow(n) /\ ToolsFollow(n)

McpInv == McpTypeOK /\ ClientsSound /\ EntriesSound /\ BootSound /\ SkillsFollow

\* The invariant holds before the servers are started.
LEMMA McpInitOK == McpInit => McpInv
  BY McpAssumption DEF McpInit, McpInv, McpTypeOK, ClientsSound, EntriesSound, BootSound,
     SkillsFollow,
     ChildrenFollow, ToolsFollow, Servers, ServerRuns, Starting

\* Every server of the function gets a client that was not started, and no other client
\* is touched.
LEMMA SpawnFacts ==
  ASSUME McpInv, NEW S \in SUBSET Servers, NEW client \in Injection(S, Fresh), SpawnServer(client)
  PROVE  /\ \A n \in S : /\ client[n] \in Clients /\ phase[client[n]] = "new"
                         /\ name'[client[n]] = n /\ child'[client[n]] = "alive"
                         /\ phase'[client[n]] = "init"
         /\ \A c \in Clients : (\A n \in S : client[n] # c) =>
              name'[c] = name[c] /\ child'[c] = child[c] /\ phase'[c] = phase[c]
         /\ name' \in [Clients -> Servers \cup {NoClient}]
         /\ child' \in [Clients -> ServerRuns \cup {"gone"}]
         /\ phase' \in [Clients -> Starting \cup {"new", "up", "failed", "stopped"}]
<1>1. client \in [S -> Fresh] /\ \A i, j \in S : client[i] = client[j] => i = j
  BY DEF Injection, IsInjective
<1>2. DOMAIN client = S /\ \A c : c \in Range(client) <=> \E n \in S : client[n] = c
  BY <1>1 DEF Range
<1>3. \A n \in S : client[n] \in Clients /\ phase[client[n]] = "new"
  BY <1>1 DEF Fresh
<1>4. ASSUME NEW n \in S
      PROVE  /\ name'[client[n]] = n /\ child'[client[n]] = "alive" /\ phase'[client[n]] = "init"
  <2>1. (CHOOSE m \in DOMAIN client : client[m] = client[n]) = n
    BY <1>1, <1>2
  <2>2. client[n] \in Clients /\ client[n] \in Range(client)
    BY <1>2, <1>3
  <2> QED
    BY <2>1, <2>2 DEF SpawnServer
<1>5. \A c \in Clients : (\A n \in S : client[n] # c) =>
        name'[c] = name[c] /\ child'[c] = child[c] /\ phase'[c] = phase[c]
  BY <1>2 DEF SpawnServer
<1>6. /\ name' \in [Clients -> Servers \cup {NoClient}]
      /\ child' \in [Clients -> ServerRuns \cup {"gone"}]
      /\ phase' \in [Clients -> Starting \cup {"new", "up", "failed", "stopped"}]
  <2>1. /\ name' = [c \in Clients |-> name'[c]] /\ child' = [c \in Clients |-> child'[c]]
        /\ phase' = [c \in Clients |-> phase'[c]]
    BY DEF SpawnServer
  <2>2. \A c \in Clients : /\ name'[c] \in Servers \cup {NoClient}
                           /\ child'[c] \in ServerRuns \cup {"gone"}
                           /\ phase'[c] \in Starting \cup {"new", "up", "failed", "stopped"}
    BY <1>4, <1>5 DEF McpInv, McpTypeOK, ClientsSound, ServerRuns, Starting
  <2> QED
    BY <2>1, <2>2
<1> QED
  BY <1>3, <1>4, <1>5, <1>6

\* unregisterAllForServer() takes the tools of its server, if the cached adapter knows
\* them, and of no server but those the prefix names.
LEMMA StoppedFacts ==
  ASSUME McpInv, NEW n \in Servers, Stopped(n)
  PROVE  /\ registered' \subseteq registered /\ adapted' \subseteq registered'
         /\ adapted' \subseteq adapted /\ adapter' = adapter
         /\ n \in adapted => n \notin registered'
         /\ \A m \in Servers : m \in adapted /\ m \in registered' => m \in adapted'
<1>1. n \in ToolPrefix[n]
  BY McpAssumption
<1>2. CASE adapter
  BY <1>1, <1>2 DEF Stopped, McpInv, McpTypeOK, BootSound
<1>3. CASE ~adapter
  BY <1>1, <1>3 DEF Stopped, McpInv, McpTypeOK, BootSound
<1> QED
  BY <1>2, <1>3

\* registerAll() of a table in which every skill that owes its tools is listed.
LEMMA RegisterFacts ==
  ASSUME McpInv, NEW map \in [Servers -> Clients \cup {NoClient}], RegisterAll(map)
  PROVE  /\ adapted' \subseteq registered' /\ registered' \subseteq Servers /\ adapter'
         /\ \A n \in Servers : n \in adapted' <=> map[n] # NoClient
         /\ \A n \in Servers : n \in registered' <=> n \in registered \/ map[n] # NoClient
  BY DEF RegisterAll, ListedIn, McpInv, McpTypeOK

\* Starting all servers at boot keeps the invariant.
LEMMA BootStartOK == ASSUME McpInv, BootStart PROVE McpInv'
<1> USE DEF McpInv
<1>1. PICK client \in Injection(Configured \cup enabled, Fresh) : SpawnServer(client)
  BY DEF BootStart
<1> DEFINE S == Configured \cup enabled
<1>2. S \in SUBSET Servers
  BY DEF McpTypeOK, Servers
<1>3. client \in Injection(S, Fresh)
  BY <1>1
<1> HIDE DEF S
<1>4. /\ \A n \in S : /\ client[n] \in Clients /\ phase[client[n]] = "new"
                      /\ name'[client[n]] = n /\ child'[client[n]] = "alive"
                      /\ phase'[client[n]] = "init"
      /\ \A c \in Clients : (\A n \in S : client[n] # c) =>
           name'[c] = name[c] /\ child'[c] = child[c] /\ phase'[c] = phase[c]
      /\ name' \in [Clients -> Servers \cup {NoClient}]
      /\ child' \in [Clients -> ServerRuns \cup {"gone"}]
      /\ phase' \in [Clients -> Starting \cup {"new", "up", "failed", "stopped"}]
  BY <1>1, <1>2, <1>3, SpawnFacts
<1>5. /\ boot = "off" /\ boot' = "starting"
      /\ UNCHANGED <<enabled, toggle, clientOf, toolOf, adapter, adapted, registered, calls, faulty, live>>
  BY DEF BootStart, maps, adapters
<1>6. \A c \in Clients : phase[c] = "new" /\ child[c] = "gone"
  BY <1>5 DEF BootSound, ClientsSound
<1>7. \A c \in Clients :
        /\ child'[c] # "killed"
        /\ child'[c] = "alive" =>
             phase'[c] = "init" /\ c = client[name'[c]] /\ name'[c] \in S
  <2> SUFFICES ASSUME NEW c \in Clients
               PROVE  /\ child'[c] # "killed"
                      /\ child'[c] = "alive" =>
                           phase'[c] = "init" /\ c = client[name'[c]] /\ name'[c] \in S
    OBVIOUS
  <2>1. CASE \A n \in S : client[n] # c
    BY <1>4, <1>6, <2>1
  <2>2. CASE \E n \in S : client[n] = c
    BY <1>4, <2>2
  <2> QED
    BY <2>1, <2>2
<1>8. \A n \in Servers : clientOf[n] = NoClient
  BY <1>6 DEF EntriesSound, McpTypeOK, ServerRuns
<1>9. \A n \in SkillServers : n \in S => n \in enabled
  BY McpAssumption DEF S
<1>10. McpTypeOK'
  BY <1>4, <1>5 DEF McpTypeOK
<1>11. ClientsSound'
  <2>1. ASSUME NEW c \in Clients, phase'[c] # "new" PROVE name'[c] \in Servers
    <3>1. PICK n \in S : client[n] = c
      BY <1>4, <1>6, <2>1
    <3> QED
      BY <1>2, <1>4, <3>1
  <2>2. ASSUME NEW c \in Clients, phase'[c] = "new" PROVE child'[c] = "gone"
    <3>1. \A n \in S : client[n] # c
      BY <1>4, <2>2
    <3> QED
      BY <1>4, <1>6, <3>1
  <2> QED
    BY <1>4, <1>7, <2>1, <2>2 DEF ClientsSound
<1>12. EntriesSound'
  BY <1>5, <1>6, <1>8 DEF EntriesSound, ServerRuns
<1>13. BootSound'
  BY <1>5 DEF BootSound
<1>14. \A n \in SkillServers \ faulty : n \notin live /\ toggle[n] = "idle"
  BY <1>5 DEF BootSound
<1>15. SkillsFollow'
  <2> SUFFICES ASSUME NEW n \in SkillServers \ faulty PROVE (ChildrenFollow(n) /\ ToolsFollow(n))'
    BY <1>5 DEF SkillsFollow
  <2>1. ToolsFollow(n)'
    BY <1>5, <1>14 DEF ToolsFollow
  <2>2. ChildrenFollow(n)'
    BY <1>5, <1>7, <1>9, <1>14 DEF ChildrenFollow, Starting
  <2> QED
    BY <2>1, <2>2
<1> QED
  BY <1>10, <1>11, <1>12, <1>13, <1>15

\* So does the end of that start, which enters the clients that are up.
LEMMA BootEndsOK == ASSUME McpInv, BootEnds PROVE McpInv'
<1> USE DEF McpInv
<1>1. /\ boot = "starting" /\ boot' = "done" /\ registered' = registered \cup ListedIn(toolOf)
      /\ \A c \in Clients : phase[c] \in Starting => name[c] \in SkillServers /\ toggle[name[c]] = "starting"
      /\ UNCHANGED <<enabled, toggle, clientOf, toolOf, name, child, phase, adapter, adapted,
                     calls, faulty, live>>
  BY DEF BootEnds, maps, McpTypeOK
<1>2. McpTypeOK'
  BY <1>1 DEF McpTypeOK, ListedIn
<1>3. ClientsSound' /\ EntriesSound' /\ BootSound'
  BY <1>1 DEF ClientsSound, EntriesSound, BootSound
<1>4. \A n \in SkillServers \ faulty : ChildrenFollow(n)'
  BY <1>1 DEF SkillsFollow, ChildrenFollow
<1>5. \A n \in SkillServers \ faulty : ToolsFollow(n)'
  BY <1>1 DEF BootSound, ToolsFollow
<1> QED
  BY <1>1, <1>2, <1>3, <1>4, <1>5 DEF SkillsFollow

\* A child that could not be started is none.
LEMMA SpawnErrorOK == ASSUME McpInv, NEW c \in Clients, SpawnError(c) PROVE McpInv'
  BY DEF SpawnError, maps, adapters, McpInv, McpTypeOK, ClientsSound, EntriesSound, BootSound,
     SkillsFollow, ChildrenFollow, ToolsFollow

\* The first answer of a server lets its client go on.
LEMMA InitializedOK == ASSUME McpInv, NEW c \in Clients, Initialized(c) PROVE McpInv'
<1> USE DEF McpInv
<1>1. /\ phase[c] = "init" /\ child[c] = "alive" /\ phase' = [phase EXCEPT ![c] = "list"]
      /\ UNCHANGED <<boot, enabled, toggle, clientOf, toolOf, name, child, adapter, adapted, registered,
                     calls, faulty, live>>
  BY DEF Initialized, maps, adapters
<1>2. McpTypeOK'
  BY <1>1 DEF McpTypeOK, Starting
<1>3. ClientsSound' /\ EntriesSound' /\ BootSound'
  BY <1>1 DEF ClientsSound, EntriesSound, BootSound, McpTypeOK
<1>4. \A n \in SkillServers \ faulty : ChildrenFollow(n)'
  BY <1>1 DEF SkillsFollow, ChildrenFollow, Starting, McpTypeOK
<1>5. \A n \in SkillServers \ faulty : ToolsFollow(n)'
  BY <1>1 DEF SkillsFollow, ToolsFollow
<1> QED
  BY <1>1, <1>2, <1>3, <1>4, <1>5 DEF SkillsFollow

\* A start that takes too long kills its child and enters nothing.
LEMMA StartTimesOutOK == ASSUME McpInv, NEW c \in Clients, StartTimesOut(c) PROVE McpInv'
<1> USE DEF McpInv
<1>1. /\ phase[c] \in Starting /\ phase' = [phase EXCEPT ![c] = "failed"]
      /\ toggle' = IF ByToggle(c) THEN [toggle EXCEPT ![name[c]] = "idle"] ELSE toggle
      /\ faulty' = faulty \cup {name[c]}
      /\ UNCHANGED <<boot, enabled, clientOf, toolOf, name, child, adapter, adapted, registered, calls, live>>
  BY DEF StartTimesOut, maps, adapters
<1>2. name[c] \in Servers
  BY <1>1 DEF ClientsSound, Starting
<1>3. McpTypeOK'
  BY <1>1 DEF McpTypeOK, ByToggle
<1>4. \A n \in SkillServers : n # name[c] => toggle'[n] = toggle[n]
  BY <1>1 DEF McpTypeOK
<1>5. ClientsSound'
  BY <1>1 DEF ClientsSound, McpTypeOK, Starting
<1>6. EntriesSound'
  BY <1>1 DEF EntriesSound, McpTypeOK, Starting
<1>7. BootSound'
  BY <1>1, <1>4 DEF BootSound, McpTypeOK, Starting
<1>8. ASSUME NEW n \in SkillServers \ faulty'
      PROVE  (ChildrenFollow(n) /\ ToolsFollow(n))'
  <2>1. n # name[c] /\ n \in SkillServers \ faulty
    BY <1>1, <1>8
  <2>2. ChildrenFollow(n)'
    BY <1>1, <1>4, <2>1 DEF SkillsFollow, ChildrenFollow, McpTypeOK
  <2> QED
    BY <1>1, <1>4, <2>1, <2>2 DEF SkillsFollow, ToolsFollow
<1> QED
  BY <1>3, <1>5, <1>6, <1>7, <1>8 DEF SkillsFollow

\* The list of tools ends the start of a server that was enabled live.
LEMMA ListedOK == ASSUME McpInv, NEW c \in Clients, Listed(c) PROVE McpInv'
<1> USE DEF McpInv
<1> DEFINE n == name[c]
<1>1. /\ phase[c] = "list" /\ child[c] = "alive" /\ phase' = [phase EXCEPT ![c] = "up"]
      /\ clientOf' = [clientOf EXCEPT ![n] = c] /\ toolOf' = [toolOf EXCEPT ![n] = c]
      /\ IF ByToggle(c) THEN toggle' = [toggle EXCEPT ![n] = "idle"] /\ RegisterAll(toolOf')
                        ELSE UNCHANGED <<toggle, adapter, adapted, registered>>
      /\ UNCHANGED <<boot, enabled, name, child, calls, faulty, live>>
  BY DEF Listed, adapters
<1>2. n \in Servers /\ c # NoClient
  BY <1>1, McpAssumption DEF ClientsSound
<1> HIDE DEF n
<1>3. clientOf' = toolOf' /\ clientOf' \in [Servers -> Clients \cup {NoClient}]
  BY <1>1, <1>2 DEF EntriesSound, McpTypeOK
<1>4. \A m \in Servers : clientOf'[m] = IF m = n THEN c ELSE clientOf[m]
  BY <1>1, <1>2 DEF McpTypeOK
<1>5. /\ ByToggle(c) =>
           /\ adapted' \subseteq registered' /\ registered' \subseteq Servers /\ adapter'
           /\ \A m \in Servers : m \in adapted' <=> clientOf'[m] # NoClient
           /\ \A m \in Servers : m \in registered' <=> m \in registered \/ clientOf'[m] # NoClient
  BY <1>1, <1>3, RegisterFacts
<1>6. \A m \in SkillServers : toggle'[m] = IF m = n /\ ByToggle(c) THEN "idle" ELSE toggle[m]
  BY <1>1 DEF McpTypeOK
<1>7. toggle' \in [SkillServers -> {"idle", "starting", "stopping"}]
  BY <1>1 DEF McpTypeOK
<1>8. ByToggle(c) <=> n \in SkillServers /\ toggle[n] = "starting"
  BY DEF ByToggle, n
<1>9. McpTypeOK'
  BY <1>1, <1>3, <1>5, <1>7 DEF McpTypeOK, Starting
<1>10. ClientsSound'
  BY <1>1 DEF ClientsSound, McpTypeOK
<1>11. EntriesSound'
  BY <1>1, <1>3, <1>4 DEF EntriesSound, McpTypeOK, ServerRuns, n
<1>12. BootSound'
  BY <1>1, <1>5, <1>6, <1>10 DEF BootSound, McpTypeOK
<1>13. ASSUME NEW m \in SkillServers \ faulty PROVE ChildrenFollow(m)'
  <2>1. ChildrenFollow(m)
    BY DEF SkillsFollow
  <2>2. CASE m # n
    BY <1>1, <1>4, <1>6, <2>1, <2>2 DEF ChildrenFollow, McpTypeOK, Servers, n
  <2>3. CASE m = n
    <3>1. m \in enabled /\ (boot = "starting" \/ toggle[m] = "starting") /\ toggle[m] # "stopping"
      BY <1>1, <2>1, <2>3 DEF ChildrenFollow, BootSound, n
    <3>2. \A d \in Clients : name[d] = m => child[d] # "killed" /\ (child[d] = "alive" => d = c)
      BY <1>1, <2>1, <2>3, <3>1 DEF ChildrenFollow, n
    <3> QED
      BY <1>1, <1>2, <1>4, <1>6, <2>3, <3>1, <3>2 DEF ChildrenFollow, McpTypeOK
  <2> QED
    BY <2>2, <2>3
<1>14. \A m \in SkillServers \ faulty : clientOf[m] # NoClient => m \in enabled \/ toggle[m] = "stopping"
  BY DEF SkillsFollow, ChildrenFollow, EntriesSound, McpTypeOK, ServerRuns, Servers
<1>15. ASSUME NEW m \in SkillServers \ faulty PROVE ToolsFollow(m)'
  <2>1. ToolsFollow(m) /\ ChildrenFollow(m) /\ m \in Servers
    BY DEF SkillsFollow, Servers
  <2>2. CASE m = n
    <3>1. m \in enabled
      BY <1>1, <2>1, <2>2 DEF ChildrenFollow, n, Starting
    <3> QED
      BY <1>1, <1>2, <1>4, <1>5, <1>6, <1>8, <2>1, <2>2, <3>1 DEF ToolsFollow, BootSound,
         ChildrenFollow, n
  <2>3. CASE m # n /\ ~ByToggle(c)
    BY <1>1, <1>4, <1>6, <2>1, <2>3 DEF ToolsFollow
  <2>4. CASE m # n /\ ByToggle(c)
    <3>1. toggle[m] = "stopping" => clientOf[m] # NoClient
      BY <2>1 DEF ChildrenFollow
    <3> QED
      BY <1>1, <1>4, <1>5, <1>6, <1>14, <2>1, <2>4, <3>1 DEF ToolsFollow, McpTypeOK
  <2> QED
    BY <2>2, <2>3, <2>4
<1> QED
  BY <1>1, <1>9, <1>10, <1>11, <1>12, <1>13, <1>15 DEF SkillsFollow

\* An exit takes the entries of its own server and ends the calls that wait for it.
LEMMA ExitOK == ASSUME McpInv, NEW c \in Clients, Exit(c) PROVE McpInv'
<1> USE DEF McpInv
<1> DEFINE n == name[c]
           stops == n \in SkillServers /\ toggle[n] = "stopping" /\ clientOf[n] = c
<1>1. /\ child[c] \in ServerRuns /\ child' = [child EXCEPT ![c] = "gone"]
      /\ phase' = [phase EXCEPT ![c] = IF @ \in Starting THEN "failed" ELSE @]
      /\ calls' = [k \in Calls |-> IF calls[k] = c THEN NoClient ELSE calls[k]]
      /\ clientOf' = [clientOf EXCEPT ![n] = NoClient]
      /\ toolOf' = [toolOf EXCEPT ![n] = NoClient]
      /\ toggle' = IF stops \/ (phase[c] \in Starting /\ ByToggle(c))
                     THEN [toggle EXCEPT ![n] = "idle"] ELSE toggle
      /\ IF stops THEN Stopped(n) ELSE UNCHANGED <<adapter, adapted, registered>>
      /\ faulty' = IF child[c] = "killed" THEN faulty ELSE faulty \cup {n}
      /\ UNCHANGED <<boot, enabled, name, live>>
  BY DEF Exit, adapters
<1>2. n \in Servers
  BY <1>1 DEF ClientsSound, ServerRuns
<1>3. stops => n \in SkillServers /\ toggle[n] = "stopping" /\ clientOf[n] = c
  OBVIOUS
<1>4. ByToggle(c) => n \in SkillServers
  BY DEF ByToggle
<1> HIDE DEF stops, n
<1>5. \A m \in SkillServers : m # n => toggle'[m] = toggle[m]
  BY <1>1 DEF McpTypeOK
<1>6. toggle' \in [SkillServers -> {"idle", "starting", "stopping"}]
  BY <1>1 DEF McpTypeOK
<1>7. \A m \in Servers : clientOf'[m] = IF m = n THEN NoClient ELSE clientOf[m]
  BY <1>1, <1>2 DEF McpTypeOK
<1>8. \A d \in Clients : /\ child'[d] = IF d = c THEN "gone" ELSE child[d]
                         /\ d # c => phase'[d] = phase[d]
                         /\ phase[d] = "new" <=> phase'[d] = "new"
  BY <1>1 DEF McpTypeOK, Starting
<1>9. /\ registered' \subseteq registered /\ adapted' \subseteq registered'
      /\ adapted' \subseteq adapted /\ adapter' = adapter
      /\ stops /\ n \in adapted => n \notin registered'
      /\ \A m \in Servers : m \in adapted /\ m \in registered' => m \in adapted'
  BY <1>1, <1>2, StoppedFacts DEF McpTypeOK
<1>10. McpTypeOK'
  BY <1>1, <1>6, <1>9 DEF McpTypeOK, Starting
<1>11. ClientsSound'
  BY <1>1, <1>8 DEF ClientsSound
<1>12. EntriesSound'
  <2>1. toolOf' = clientOf'
    BY <1>1 DEF EntriesSound
  <2>2. ASSUME NEW m \in Servers, clientOf'[m] # NoClient
        PROVE  /\ name'[clientOf'[m]] = m /\ child'[clientOf'[m]] \in ServerRuns
               /\ phase'[clientOf'[m]] \in {"up", "stopped"}
    <3>1. m # n /\ clientOf'[m] = clientOf[m] /\ clientOf[m] \in Clients /\ name[clientOf[m]] = m
      BY <1>7, <2>2 DEF EntriesSound, McpTypeOK
    <3>2. clientOf[m] # c
      BY <3>1 DEF n
    <3> QED
      BY <1>1, <1>8, <2>2, <3>1, <3>2 DEF EntriesSound
  <2>3. \A k \in Calls : calls'[k] = IF calls[k] = c THEN NoClient ELSE calls[k]
    BY <1>1
  <2>4. \A k \in Calls : calls'[k] # NoClient => child'[calls'[k]] \in ServerRuns
    BY <1>8, <2>3 DEF EntriesSound
  <2>5. calls' \in [Calls -> Clients \cup {NoClient}]
    BY <1>1 DEF EntriesSound
  <2> QED
    BY <2>1, <2>2, <2>4, <2>5 DEF EntriesSound
<1>13. BootSound'
  <2>1. boot = "off" => \A m \in SkillServers : toggle'[m] = "idle"
    BY <1>1 DEF BootSound, McpTypeOK
  <2>2. boot = "starting" => \A m \in SkillServers \ faulty : toggle'[m] = "idle"
    BY <1>1 DEF BootSound, McpTypeOK
  <2>3. faulty \subseteq faulty'
    BY <1>1
  <2>4. adapted' # {} => adapter'
    BY <1>9 DEF BootSound
  <2> QED
    BY <1>1, <1>8, <2>1, <2>2, <2>3, <2>4 DEF BootSound
<1>14. ASSUME NEW m \in SkillServers \ faulty' PROVE (ChildrenFollow(m) /\ ToolsFollow(m))'
  <2>1. m \in SkillServers \ faulty /\ m \in Servers
    BY <1>1, <1>14 DEF Servers
  <2>2. ChildrenFollow(m) /\ ToolsFollow(m)
    BY <2>1 DEF SkillsFollow
  <2>3. CASE m # n
    <3>1. \A d \in Clients : name[d] = m => d # c
      BY <2>3 DEF n
    <3>2. clientOf[m] # NoClient => clientOf[m] \in Clients /\ clientOf[m] # c
      BY <2>1, <3>1 DEF EntriesSound, McpTypeOK
    <3>3. ChildrenFollow(m)'
      BY <1>1, <1>5, <1>7, <1>8, <2>1, <2>2, <2>3, <3>1, <3>2 DEF ChildrenFollow
    <3>4. ToolsFollow(m)'
      BY <1>1, <1>5, <1>7, <1>9, <2>1, <2>2, <2>3 DEF ToolsFollow
    <3> QED
      BY <3>3, <3>4
  <2>4. CASE m = n
    <3>1. child[c] = "killed"
      BY <1>1, <1>14, <2>4
    <3>2. toggle[m] = "stopping" /\ clientOf[m] = c /\ m \notin enabled
      BY <2>2, <2>4, <3>1 DEF ChildrenFollow, n
    <3>3. stops
      BY <2>1, <2>4, <3>2 DEF stops
    <3>4. toggle'[m] = "idle"
      BY <1>1, <2>1, <2>4, <3>3 DEF McpTypeOK
    <3>5. \A d \in Clients : name[d] = m => child'[d] = "gone"
      BY <1>8, <2>2, <3>2 DEF ChildrenFollow, McpTypeOK, ServerRuns
    <3>6. ChildrenFollow(m)'
      BY <1>1, <3>4, <3>5 DEF ChildrenFollow
    <3>7. ToolsFollow(m)'
      BY <1>1, <1>9, <2>1, <2>2, <2>4, <3>2, <3>3, <3>4 DEF ToolsFollow
    <3> QED
      BY <3>6, <3>7
  <2> QED
    BY <2>3, <2>4
<1> QED
  BY <1>10, <1>11, <1>12, <1>13, <1>14 DEF SkillsFollow

\* A stop that takes too long enters nothing, and the child may outlive it.
LEMMA StopTimesOutOK == ASSUME McpInv, NEW n \in SkillServers, StopTimesOut(n) PROVE McpInv'
<1> USE DEF McpInv
<1>1. /\ toggle[n] = "stopping" /\ toggle' = [toggle EXCEPT ![n] = "idle"]
      /\ clientOf' = [clientOf EXCEPT ![n] = NoClient]
      /\ toolOf' = [toolOf EXCEPT ![n] = NoClient]
      /\ Stopped(n) /\ faulty' = faulty \cup {n}
      /\ UNCHANGED <<boot, enabled, name, child, phase, calls, live>>
  BY DEF StopTimesOut
<1>2. n \in Servers
  BY DEF Servers
<1>3. /\ registered' \subseteq registered /\ adapted' \subseteq registered'
      /\ adapted' \subseteq adapted /\ adapter' = adapter
      /\ \A m \in Servers : m \in adapted /\ m \in registered' => m \in adapted'
  BY <1>1, <1>2, StoppedFacts
<1>4. McpTypeOK'
  BY <1>1, <1>3 DEF McpTypeOK
<1>5. ClientsSound' /\ EntriesSound'
  BY <1>1, <1>2 DEF ClientsSound, EntriesSound, McpTypeOK
<1>6. BootSound'
  BY <1>1, <1>3 DEF BootSound, McpTypeOK
<1>7. ASSUME NEW m \in SkillServers \ faulty' PROVE (ChildrenFollow(m) /\ ToolsFollow(m))'
  <2>1. m \in SkillServers \ faulty /\ m # n /\ m \in Servers
    BY <1>1, <1>7 DEF Servers
  <2>2. toggle'[m] = toggle[m] /\ clientOf'[m] = clientOf[m]
    BY <1>1, <2>1 DEF McpTypeOK
  <2>3. ChildrenFollow(m)'
    BY <1>1, <2>1, <2>2 DEF SkillsFollow, ChildrenFollow
  <2> QED
    BY <1>1, <1>3, <2>1, <2>2, <2>3 DEF SkillsFollow, ToolsFollow
<1> QED
  BY <1>4, <1>5, <1>6, <1>7 DEF SkillsFollow

\* A skill that is off, and whose server kept to the protocol, has no child and no entry.
LEMMA OffIsEmpty ==
  ASSUME McpInv, NEW n \in SkillServers \ faulty, n \notin enabled, toggle[n] = "idle"
  PROVE  clientOf[n] = NoClient /\ \A c \in Clients : name[c] = n => child[c] = "gone"
  BY DEF McpInv, SkillsFollow, ChildrenFollow, EntriesSound, McpTypeOK, ServerRuns, Servers

\* Enabling a skill starts a client that was never used.
LEMMA EnableSkillOK == ASSUME McpInv, NEW n \in SkillServers, EnableSkill(n) PROVE McpInv'
<1> USE DEF McpInv
<1>1. /\ boot # "off" /\ toggle[n] = "idle" /\ n \notin enabled /\ enabled' = enabled \cup {n}
      /\ faulty' = IF boot = "starting" THEN faulty \cup {n} ELSE faulty
      /\ live' = live \cup {n}
      /\ UNCHANGED <<boot, clientOf, toolOf, calls>>
  BY DEF EnableSkill, Toggles, maps
<1>2. n \in Servers /\ clientOf = toolOf /\ clientOf \in [Servers -> Clients \cup {NoClient}]
  BY DEF Servers, EntriesSound, McpTypeOK
<1>3. CASE clientOf[n] # NoClient
  <2>1. RegisterAll(toolOf) /\ UNCHANGED <<toggle, name, child, phase>>
    BY <1>3 DEF EnableSkill
  <2>2. /\ adapted' \subseteq registered' /\ registered' \subseteq Servers /\ adapter'
        /\ \A m \in Servers : m \in adapted' <=> clientOf[m] # NoClient
        /\ \A m \in Servers : m \in registered' <=> m \in registered \/ clientOf[m] # NoClient
    BY <1>2, <2>1, RegisterFacts
  <2>3. n \in faulty
    BY <1>1, <1>3, OffIsEmpty
  <2>4. McpTypeOK'
    BY <1>1, <2>1, <2>2 DEF McpTypeOK
  <2>5. ClientsSound' /\ EntriesSound'
    BY <1>1, <2>1 DEF ClientsSound, EntriesSound
  <2>6. BootSound'
    BY <1>1, <2>1, <2>2, <2>3 DEF BootSound
  <2>7. ASSUME NEW m \in SkillServers \ faulty' PROVE (ChildrenFollow(m) /\ ToolsFollow(m))'
    <3>1. m \in SkillServers \ faulty /\ m # n /\ m \in Servers
      BY <1>1, <2>3, <2>7 DEF Servers
    <3>2. ChildrenFollow(m) /\ ToolsFollow(m)
      BY <3>1 DEF SkillsFollow
    <3>3. ChildrenFollow(m)'
      BY <1>1, <2>1, <3>1, <3>2 DEF ChildrenFollow
    <3>4. ToolsFollow(m)'
      <4>1. toggle[m] = "stopping" => clientOf[m] # NoClient
        BY <3>2 DEF ChildrenFollow
      <4>2. m \notin enabled /\ toggle[m] = "idle" => clientOf[m] = NoClient
        BY <3>1, OffIsEmpty
      <4> QED
        BY <1>1, <2>1, <2>2, <3>1, <3>2, <4>1, <4>2 DEF ToolsFollow, McpTypeOK
    <3> QED
      BY <3>3, <3>4
  <2> QED
    BY <2>4, <2>5, <2>6, <2>7 DEF SkillsFollow
<1>4. CASE clientOf[n] = NoClient
  <2>1. PICK c \in Fresh : SpawnServer([m \in {n} |-> c])
    BY <1>4 DEF EnableSkill
  <2>2. toggle' = [toggle EXCEPT ![n] = "starting"] /\ UNCHANGED <<adapter, adapted, registered>>
    BY <1>4 DEF EnableSkill, adapters
  <2>3. [m \in {n} |-> c] \in Injection({n}, Fresh)
    BY <2>1 DEF Injection, IsInjective
  <2>4. /\ c \in Clients /\ phase[c] = "new" /\ name'[c] = n /\ child'[c] = "alive" /\ phase'[c] = "init"
        /\ \A d \in Clients : d # c => name'[d] = name[d] /\ child'[d] = child[d] /\ phase'[d] = phase[d]
        /\ name' \in [Clients -> Servers \cup {NoClient}]
        /\ child' \in [Clients -> ServerRuns \cup {"gone"}]
        /\ phase' \in [Clients -> Starting \cup {"new", "up", "failed", "stopped"}]
    <3> DEFINE f == [m \in {n} |-> c]
    <3>1. f \in Injection({n}, Fresh) /\ SpawnServer(f) /\ f[n] = c /\ {n} \in SUBSET Servers
      BY <1>2, <2>1, <2>3
    <3> HIDE DEF f
    <3>2. /\ \A m \in {n} : /\ f[m] \in Clients /\ phase[f[m]] = "new"
                            /\ name'[f[m]] = m /\ child'[f[m]] = "alive"
                            /\ phase'[f[m]] = "init"
          /\ \A d \in Clients : (\A m \in {n} : f[m] # d) =>
               name'[d] = name[d] /\ child'[d] = child[d] /\ phase'[d] = phase[d]
          /\ name' \in [Clients -> Servers \cup {NoClient}]
          /\ child' \in [Clients -> ServerRuns \cup {"gone"}]
          /\ phase' \in [Clients -> Starting \cup {"new", "up", "failed", "stopped"}]
      BY <3>1, SpawnFacts
    <3> QED
      BY <3>1, <3>2
  <2>5. \A m \in SkillServers : toggle'[m] = IF m = n THEN "starting" ELSE toggle[m]
    BY <2>2 DEF McpTypeOK
  <2>6. \A m \in Servers : clientOf[m] # NoClient => clientOf[m] \in Clients /\ clientOf[m] # c
    BY <2>4 DEF EntriesSound, McpTypeOK
  <2>7. \A k \in Calls : calls[k] # NoClient => calls[k] \in Clients /\ calls[k] # c
    BY <2>4 DEF EntriesSound, ClientsSound, ServerRuns
  <2>8. McpTypeOK'
    BY <1>1, <2>2, <2>4 DEF McpTypeOK
  <2>9. ClientsSound'
    BY <1>2, <2>4 DEF ClientsSound
  <2>10. EntriesSound'
    BY <1>1, <2>4, <2>6, <2>7 DEF EntriesSound
  <2>11. BootSound'
    <3>1. boot # "off" /\ (boot = "starting" => n \in faulty') /\ faulty \subseteq faulty'
      BY <1>1
    <3>2. boot # "done" => live' \subseteq faulty'
      BY <1>1, <3>1 DEF BootSound, McpTypeOK
    <3>3. boot = "starting" => \A m \in SkillServers \ faulty' : toggle'[m] = "idle"
      BY <2>5, <3>1 DEF BootSound
    <3> QED
      BY <1>1, <2>2, <3>1, <3>2, <3>3 DEF BootSound
  <2>12. ASSUME NEW m \in SkillServers \ faulty' PROVE (ChildrenFollow(m) /\ ToolsFollow(m))'
    <3>1. m \in SkillServers \ faulty /\ m \in Servers
      BY <1>1, <2>12 DEF Servers
    <3>2. ChildrenFollow(m) /\ ToolsFollow(m)
      BY <3>1 DEF SkillsFollow
    <3>3. CASE m # n
      <4>1. ChildrenFollow(m)'
        BY <1>1, <2>4, <2>5, <2>6, <3>1, <3>2, <3>3 DEF ChildrenFollow
      <4> QED
        BY <1>1, <2>2, <2>5, <3>1, <3>2, <3>3, <4>1 DEF ToolsFollow
    <3>4. CASE m = n
      <4>1. \A d \in Clients : name[d] = n => child[d] = "gone"
        BY <1>1, <3>1, <3>4, OffIsEmpty
      <4>2. \A d \in Clients : d # c /\ name'[d] = n => child'[d] = "gone"
        BY <2>4, <4>1
      <4>3. ChildrenFollow(m)'
        BY <1>1, <2>4, <2>5, <3>4, <4>2 DEF ChildrenFollow, Starting
      <4> QED
        BY <2>5, <3>4, <4>3 DEF ToolsFollow
    <3> QED
      BY <3>3, <3>4
  <2> QED
    BY <2>8, <2>9, <2>10, <2>11, <2>12 DEF SkillsFollow
<1> QED
  BY <1>3, <1>4

\* Disabling one tells its child to end and takes its tools off the list.
LEMMA DisableSkillOK == ASSUME McpInv, NEW n \in SkillServers, DisableSkill(n) PROVE McpInv'
<1> USE DEF McpInv
<1>1. /\ boot # "off" /\ toggle[n] = "idle" /\ n \in enabled /\ enabled' = enabled \ {n}
      /\ faulty' = IF boot = "starting" THEN faulty \cup {n} ELSE faulty
      /\ UNCHANGED <<boot, clientOf, toolOf, name, calls, live>>
  <2>1. Toggles(n, FALSE) /\ UNCHANGED <<boot, maps, name, calls, live>>
    BY DEF DisableSkill
  <2>2. n \in enabled
    BY <2>1 DEF Toggles
  <2> QED
    BY <2>1, <2>2 DEF Toggles, maps
<1>2. n \in Servers
  BY DEF Servers
<1>3. \A m \in SkillServers \ faulty' : m \in SkillServers \ faulty /\ m \in Servers
  BY <1>1 DEF Servers
<1>4. boot = "starting" => n \in faulty'
  BY <1>1
<1>5. CASE clientOf[n] = NoClient
  <2>1. Stopped(n) /\ UNCHANGED <<toggle, child, phase>>
    BY <1>5 DEF DisableSkill
  <2>2. /\ registered' \subseteq registered /\ adapted' \subseteq registered'
        /\ adapted' \subseteq adapted /\ adapter' = adapter
        /\ n \in adapted => n \notin registered'
        /\ \A m \in Servers : m \in adapted /\ m \in registered' => m \in adapted'
    BY <1>2, <2>1, StoppedFacts
  <2>3. McpTypeOK'
    BY <1>1, <2>1, <2>2 DEF McpTypeOK
  <2>4. ClientsSound' /\ EntriesSound'
    BY <1>1, <2>1 DEF ClientsSound, EntriesSound
  <2>5. BootSound'
    BY <1>1, <2>1, <2>2 DEF BootSound
  <2>6. ASSUME NEW m \in SkillServers \ faulty' PROVE (ChildrenFollow(m) /\ ToolsFollow(m))'
    <3>1. ChildrenFollow(m) /\ ToolsFollow(m) /\ m \in Servers
      BY <1>3, <2>6 DEF SkillsFollow
    <3>2. m = n => boot = "done"
      BY <1>1, <1>4, <2>6 DEF McpTypeOK
    <3>3. ChildrenFollow(m)'
      <4>1. m = n => \A c \in Clients : name[c] = n => child[c] = "gone"
        BY <1>1, <1>5, <3>1, <3>2, McpAssumption DEF ChildrenFollow, McpTypeOK, ServerRuns
      <4> QED
        BY <1>1, <2>1, <3>1, <4>1 DEF ChildrenFollow
    <3>4. ToolsFollow(m)'
      BY <1>1, <2>1, <2>2, <3>1 DEF ToolsFollow
    <3> QED
      BY <3>3, <3>4
  <2> QED
    BY <2>3, <2>4, <2>5, <2>6 DEF SkillsFollow
<1>6. CASE clientOf[n] # NoClient
  <2> DEFINE c == clientOf[n]
  <2>1. c \in Clients /\ name[c] = n /\ child[c] \in ServerRuns /\ phase[c] \in {"up", "stopped"}
    BY <1>2, <1>6 DEF EntriesSound, McpTypeOK
  <2>2. /\ toggle' = [toggle EXCEPT ![n] = "stopping"]
        /\ child' = [child EXCEPT ![c] = "killed"]
        /\ phase' = [phase EXCEPT ![c] = "stopped"]
        /\ UNCHANGED <<adapter, adapted, registered>>
    BY <1>6 DEF DisableSkill, adapters
  <2> HIDE DEF c
  <2>3. \A m \in SkillServers : toggle'[m] = IF m = n THEN "stopping" ELSE toggle[m]
    BY <2>2 DEF McpTypeOK
  <2>4. \A d \in Clients : /\ child'[d] = IF d = c THEN "killed" ELSE child[d]
                           /\ phase'[d] = IF d = c THEN "stopped" ELSE phase[d]
    BY <2>2 DEF McpTypeOK
  <2>5. McpTypeOK'
    BY <1>1, <2>2 DEF McpTypeOK, ServerRuns
  <2>6. ClientsSound'
    BY <1>1, <2>1, <2>4 DEF ClientsSound, ServerRuns
  <2>7. EntriesSound'
    BY <1>1, <2>1, <2>4 DEF EntriesSound, McpTypeOK, ServerRuns
  <2>8. BootSound'
    BY <1>1, <1>4, <2>1, <2>2, <2>3, <2>4 DEF BootSound
  <2>9. ASSUME NEW m \in SkillServers \ faulty' PROVE (ChildrenFollow(m) /\ ToolsFollow(m))'
    <3>1. ChildrenFollow(m) /\ ToolsFollow(m) /\ m \in Servers
      BY <1>3, <2>9 DEF SkillsFollow
    <3>2. CASE m # n
      <4>1. \A d \in Clients : name[d] = m => d # c
        BY <2>1, <3>2
      <4>2. clientOf[m] # NoClient => clientOf[m] \in Clients /\ clientOf[m] # c
        BY <3>1, <4>1 DEF EntriesSound, McpTypeOK
      <4>3. ChildrenFollow(m)'
        BY <1>1, <2>3, <2>4, <3>1, <3>2, <4>1, <4>2 DEF ChildrenFollow
      <4> QED
        BY <1>1, <2>2, <2>3, <3>1, <3>2, <4>3 DEF ToolsFollow
    <3>3. CASE m = n
      <4>1. boot = "done" /\ toggle[n] = "idle"
        BY <1>1, <1>4, <2>9, <3>3 DEF McpTypeOK
      <4>2. \A d \in Clients : name[d] = n => child[d] # "killed" /\ (child[d] = "alive" => d = c)
        BY <3>1, <3>3, <4>1 DEF ChildrenFollow, c
      <4>3. ChildrenFollow(m)'
        BY <1>1, <1>6, <2>1, <2>3, <2>4, <3>3, <4>2 DEF ChildrenFollow, c
      <4>4. ToolsFollow(m)'
        BY <1>1, <2>2, <2>3, <3>1, <3>3, <4>1 DEF ToolsFollow
      <4> QED
        BY <4>3, <4>4
    <3> QED
      BY <3>2, <3>3
  <2> QED
    BY <2>5, <2>6, <2>7, <2>8, <2>9 DEF SkillsFollow
<1> QED
  BY <1>5, <1>6

\* A call is sent to a client that runs.
LEMMA CallsOK ==
  ASSUME McpInv, NEW k \in Calls,
         CallEnds(k) \/ \E n \in Servers : Call(k, n)
  PROVE  McpInv'
<1> USE DEF McpInv
<1>1. /\ UNCHANGED <<boot, enabled, toggle, clientOf, toolOf, name, child, phase, adapter, adapted,
                     registered,
                     faulty, live>>
      /\ \E c \in Clients \cup {NoClient} :
           calls' = [calls EXCEPT ![k] = c] /\ (c # NoClient => child[c] \in ServerRuns)
  BY DEF Call, CallEnds, maps, adapters, EntriesSound, McpTypeOK
<1>2. EntriesSound'
  BY <1>1 DEF EntriesSound
<1>3. McpTypeOK' /\ ClientsSound' /\ BootSound'
  BY <1>1 DEF McpTypeOK, ClientsSound, BootSound
<1>4. \A n \in SkillServers \ faulty : (ChildrenFollow(n) /\ ToolsFollow(n))'
  BY <1>1 DEF SkillsFollow, ChildrenFollow, ToolsFollow
<1> QED
  BY <1>1, <1>2, <1>3, <1>4 DEF SkillsFollow

\* Every step keeps the invariant.
LEMMA McpStepOK == McpInv /\ [McpNext]_mcpVars => McpInv'
<1> SUFFICES ASSUME McpInv, [McpNext]_mcpVars PROVE McpInv'
  OBVIOUS
<1>1. CASE UNCHANGED mcpVars
  BY <1>1 DEF mcpVars, maps, adapters, McpInv, McpTypeOK, ClientsSound, EntriesSound, BootSound,
     SkillsFollow, ChildrenFollow, ToolsFollow
<1> QED
  BY <1>1, BootStartOK, BootEndsOK, SpawnErrorOK, InitializedOK, StartTimesOutOK, ListedOK,
     ExitOK,
     StopTimesOutOK, EnableSkillOK, DisableSkillOK, CallsOK
  DEF McpNext

\* Nothing of an MCP server outlives it, or the skill it belongs to.
THEOREM McpIsExact == McpSpec => []McpExact
<1>1. McpInv => McpExact
  <2> SUFFICES ASSUME McpInv PROVE McpExact
    OBVIOUS
  <2>1. NothingDangles
    BY DEF McpInv, EntriesSound, NothingDangles
  <2>2. ASSUME NEW n \in SkillServers \ (enabled \cup faulty)
        PROVE  /\ \A c \in Clients : name[c] = n => child[c] # "alive"
               /\ n \in live /\ toggle[n] = "idle" => n \notin registered
    BY <2>2 DEF McpInv, SkillsFollow, ChildrenFollow, ToolsFollow
  <2> QED
    BY <2>1, <2>2 DEF McpInv, McpExact, DisabledIsOff
<1> QED
  BY <1>1, McpInitOK, McpStepOK, PTL DEF McpSpec

=============================================================================
