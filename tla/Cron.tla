-------------------------------- MODULE Cron --------------------------------
(***************************************************************************)
(* Scheduled jobs: the rows, the scheduler's tick over them, and the       *)
(* executions in flight (src/dashboard/cron-scheduler.ts, cron-store.ts,   *)
(* cron-routes.ts).                                                        *)
(*                                                                         *)
(* A date is the schedule it was computed from and whether it has come.    *)
(* An execution carries the row as it was when the execution began.        *)
(***************************************************************************)
EXTENDS Integers, FiniteSets, Functions

CONSTANTS
  Jobs,       \* job ids, each created at most once
  Schedules,  \* cron expressions that validateCron accepts at some time
  Sparse,     \* those with gaps longer than the two years nextCronDate looks ahead
  Execs,      \* bound: executions in flight at once
  MaxEdits,   \* bound: updates made on the dashboard
  MaxManual,  \* bound: runs by hand
  MaxBoots,   \* bound: restarts of the gateway
  NoJob,      \* no such row
  Never,      \* next_run_at IS NULL
  Idle        \* no execution

ASSUME CronAssumption ==
  /\ IsFiniteSet(Jobs) /\ IsFiniteSet(Execs)
  /\ Sparse \subseteq Schedules
  /\ Cardinality(Execs) >= Cardinality(Jobs) + MaxManual
  /\ MaxEdits \in Nat /\ MaxManual \in Nat /\ MaxBoots \in Nat
  /\ NoJob \notin
       [schedule : Schedules, enabled : BOOLEAN, next : {Never} \cup [of : Schedules, due : BOOLEAN]]
  /\ Never \notin [of : Schedules, due : BOOLEAN]
  /\ Idle \notin [job : Jobs, schedule : Schedules]

VARIABLES
  rows,     \* cron_jobs: schedule, enabled and next run
  marks,    \* the scheduler's running set
  execs,    \* executeJob() calls that await their agent
  manual,   \* history: jobs run by hand since the gateway started
  edited,   \* history: jobs edited during an execution, until edited alone
  created,  \* ids that have been used
  edits, manuals, boots

counters == <<edits, manuals, boots>>
cronVars == <<rows, marks, execs, manual, edited, created, counters>>

\* nextCronDate(): what it may return, null when it finds nothing within two years
\* ("0 0 29 2 *", run on a 29 February).
DateOf(schedule) == [of |-> schedule, due |-> FALSE]
DatesOf(schedule) == {DateOf(schedule)} \cup (IF schedule \in Sparse THEN {Never} ELSE {})

Exists(j) == rows[j] # NoJob
InFlight(j) == {e \in Execs : execs[e] # Idle /\ execs[e].job = j}
IsDue(j) == Exists(j) /\ rows[j].enabled /\ rows[j].next # Never /\ rows[j].next.due

CronInit ==
  /\ rows = [j \in Jobs |-> NoJob]
  /\ marks = {}
  /\ execs = [e \in Execs |-> Idle]
  /\ manual = {} /\ edited = {} /\ created = {}
  /\ edits = 0 /\ manuals = 0 /\ boots = 0

----------------------------------------------------------------------------
(* The rows *)

\* reschedule(): the next run of a row that has just been written.
NextOf(row) == IF row.enabled THEN DatesOf(row.schedule) ELSE {Never}

Rescheduled(j, row) ==
  \E next \in NextOf(row) : rows' = [rows EXCEPT ![j] = [row EXCEPT !.next = next]]

\* POST: a job starts enabled; validateCron has just found its first date.
Create(j, schedule) ==
  /\ j \notin created
  /\ created' = created \cup {j}
  /\ rows' = [rows EXCEPT ![j] = [schedule |-> schedule, enabled |-> TRUE, next |-> DateOf(schedule)]]
  /\ UNCHANGED <<marks, execs, manual, edited, counters>>

\* PUT: the row is written and its next run computed anew.  Only a schedule that is
\* given is validated, the one that is kept may have no date.
Update(j, schedule, enabled) ==
  /\ Exists(j) /\ edits < MaxEdits
  /\ edits' = edits + 1
  /\ Rescheduled(j, [rows[j] EXCEPT !.schedule = schedule, !.enabled = enabled])
  /\ enabled /\ schedule # rows[j].schedule => rows'[j].next # Never
  /\ edited' = IF InFlight(j) = {} THEN edited \ {j} ELSE edited \cup {j}
  /\ UNCHANGED <<marks, execs, manual, created, manuals, boots>>

\* DELETE, whether or not the job is being executed.
Delete(j) ==
  /\ Exists(j)
  /\ rows' = [rows EXCEPT ![j] = NoJob]
  /\ UNCHANGED <<marks, execs, manual, edited, created, counters>>

\* The date of the next run comes.
BecomesDue(j) ==
  /\ Exists(j) /\ rows[j].next # Never /\ ~rows[j].next.due
  /\ rows' = [rows EXCEPT ![j].next.due = TRUE]
  /\ UNCHANGED <<marks, execs, manual, edited, created, counters>>

----------------------------------------------------------------------------
(* The scheduler *)

\* executeJob() up to its await, for every job of a function to free slots.
Execute(slot) ==
  /\ execs' = [e \in Execs |->
       IF e \in Range(slot)
         THEN LET j == CHOOSE j \in DOMAIN slot : slot[j] = e
              IN [job |-> j, schedule |-> rows[j].schedule]
         ELSE execs[e]]
  /\ marks' = marks \cup DOMAIN slot

Free == {e \in Execs : execs[e] = Idle}

\* Mutant of Tick: the running set is not looked at.
TickUnmarked ==
  LET due == {j \in Jobs : IsDue(j)}
  IN /\ due # {}
     /\ \E slot \in Injection(due, Free) : Execute(slot)
     /\ UNCHANGED <<rows, manual, edited, created, counters>>

\* tick(): every enabled job that is due and not marked.
Tick ==
  LET due == {j \in Jobs : IsDue(j) /\ j \notin marks}
  IN /\ due # {}
     /\ \E slot \in Injection(due, Free) : Execute(slot)
     /\ UNCHANGED <<rows, manual, edited, created, counters>>

\* runNow(): whatever the schedule, the mark and the enabled flag say.
RunNow(j) ==
  /\ Exists(j) /\ manuals < MaxManual
  /\ manuals' = manuals + 1
  /\ manual' = manual \cup {j}
  /\ \E e \in Free : Execute([k \in {j} |-> e])
  /\ UNCHANGED <<rows, edited, created, edits, boots>>

\* Mutant of End: a failure leaves the mark.
EndMarked(e) ==
  /\ execs[e] # Idle
  /\ LET j == execs[e].job
     IN /\ \E next \in DatesOf(execs[e].schedule) :
             rows' = IF Exists(j) THEN [rows EXCEPT ![j].next = next] ELSE rows
        /\ marks' \in {marks, marks \ {j}}
  /\ execs' = [execs EXCEPT ![e] = Idle]
  /\ UNCHANGED <<manual, edited, created, counters>>

\* The agent answered or failed: the run is recorded with the next date of the
\* schedule it began under, if there is one, and the mark goes, whoever set it.
End(e) ==
  /\ execs[e] # Idle
  /\ LET j == execs[e].job
     IN /\ \E next \in DatesOf(execs[e].schedule) :
             rows' = IF Exists(j) THEN [rows EXCEPT ![j].next = next] ELSE rows
        /\ marks' = marks \ {j}
  /\ execs' = [execs EXCEPT ![e] = Idle]
  /\ UNCHANGED <<manual, edited, created, counters>>

\* The gateway ends with what it executes, and start() skips the runs it missed.
Reboot ==
  /\ boots < MaxBoots
  /\ boots' = boots + 1
  /\ \E next \in [Jobs -> {Never} \cup UNION {DatesOf(schedule) : schedule \in Schedules}] :
       /\ \A j \in Jobs : IF Exists(j) THEN next[j] \in NextOf(rows[j]) ELSE next[j] = Never
       /\ rows' = [j \in Jobs |-> IF Exists(j) THEN [rows[j] EXCEPT !.next = next[j]] ELSE NoJob]
  /\ execs' = [e \in Execs |-> Idle]
  /\ marks' = {} /\ manual' = {} /\ edited' = {}
  /\ UNCHANGED <<created, edits, manuals>>

CronNext ==
  \/ Tick \/ Reboot
  \/ \E j \in Jobs :
       \/ Delete(j) \/ BecomesDue(j) \/ RunNow(j)
       \/ \E schedule \in Schedules :
            \/ Create(j, schedule)
            \/ \E enabled \in BOOLEAN : Update(j, schedule, enabled)
  \/ \E e \in Execs : End(e)

CronSpec == CronInit /\ [][CronNext]_cronVars

\* The interval timer fires, and every run of an agent settles.
CronFairness == WF_cronVars(Tick) /\ \A e \in Execs : WF_cronVars(End(e))

----------------------------------------------------------------------------
(* Properties *)

\* Every variable holds a value of its kind.
CronTypeOK ==
  /\ rows \in [Jobs -> {NoJob} \cup
       [schedule : Schedules, enabled : BOOLEAN,
        next : {Never} \cup [of : Schedules, due : BOOLEAN]]]
  /\ marks \subseteq Jobs
  /\ execs \in [Execs -> {Idle} \cup [job : Jobs, schedule : Schedules]]

\* A job that nobody has run by hand since the start has at most one execution in
\* flight, and is marked exactly while it has one.
OneAtATime ==
  \A j \in Jobs \ manual :
    /\ Cardinality(InFlight(j)) <= 1
    /\ j \in marks <=> InFlight(j) # {}

\* The next run of an enabled job is one of the schedule the row has now, unless the
\* row was edited during an execution: the execution's end writes the date of the
\* schedule that was replaced.  (A disabled job may have one, left by a run by hand;
\* tick() asks for both.)  It has one unless its dates may be more than two years
\* apart: such a job, once without a date, is not run again until it is written, run by
\* hand or the gateway restarted in the two years before the next date, although it is
\* shown as enabled.
NextFollowsSchedule ==
  \A j \in Jobs \ edited : Exists(j) /\ rows[j].enabled =>
    IF rows[j].next = Never THEN rows[j].schedule \in Sparse
                            ELSE rows[j].next.of = rows[j].schedule

\* The parts together: a job nobody touched runs once at a time, on its schedule.
CronExact == CronTypeOK /\ OneAtATime /\ NextFollowsSchedule

\* A job that is due is run, or somebody reschedules, disables or deletes it.
DueIsServed == \A j \in Jobs : IsDue(j) ~> ~IsDue(j) \/ InFlight(j) # {}

=============================================================================
