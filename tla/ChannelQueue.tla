---------------------------- MODULE ChannelQueue ----------------------------
(***************************************************************************)
(* The routing of incoming chat messages (MessagingManager.route,          *)
(* runWithLock and dispatch, src/messaging/messaging-manager.ts): one lock *)
(* and one waiting message per channel id, whatever bots bring messages to *)
(* that channel.                                                           *)
(*                                                                         *)
(* The lock is a key of channelLocks, the waiting message a value of       *)
(* channelQueue.  A message that was waiting when its predecessor ended is *)
(* handed to setImmediate; other callbacks may run before it does.  The    *)
(* work on a message (an agent's run, a team's run or a project command)   *)
(* is what lies between Begin and Finish.                                  *)
(***************************************************************************)
EXTENDS Integers, FiniteSets, Sequences

CONSTANTS
  Messages,  \* incoming messages
  Channels,  \* channel ids
  Bots,      \* adapters
  None,      \* no message, no bot
  ChannelOf, \* msg.channelId
  BotOf      \* the adapter that received the message

ASSUME ChannelQueueAssumption ==
  /\ IsFiniteSet(Messages)
  /\ ChannelOf \in [Messages -> Channels]
  /\ BotOf \in [Messages -> Bots]
  /\ None \notin Messages \cup Bots

VARIABLES
  status,     \* what has become of a message
  via,        \* the adapter a message is dispatched with
  locks,      \* channelLocks
  queue,      \* channelQueue
  immediates  \* messages handed to setImmediate, in order

vars == <<status, via, locks, queue, immediates>>

Settled == {"refused", "overwritten", "answered", "failed"}

----------------------------------------------------------------------------
(* Actions *)

Init ==
  /\ status = [m \in Messages |-> "new"]
  /\ via = [m \in Messages |-> None]
  /\ locks = {}
  /\ queue = [c \in Channels |-> None]
  /\ immediates = <<>>

\* route(): the threat scan refuses the message.
Refuse(m) ==
  /\ status[m] = "new"
  /\ status' = [status EXCEPT ![m] = "refused"]
  /\ UNCHANGED <<via, locks, queue, immediates>>

\* Mutant of Wait: a message waits behind whatever channel is locked.
WaitBehindAnyChannel(m) ==
  \E c \in locks :
    /\ status[m] = "new"
    /\ queue' = [queue EXCEPT ![c] = m]
    /\ status' = [w \in Messages |->
                    IF w = m THEN "queued" ELSE IF w = queue[c] THEN "overwritten" ELSE status[w]]
    /\ UNCHANGED <<via, locks, immediates>>

\* route(): the channel is locked, so the message waits, in the place of the one
\* that was waiting.
Wait(m) ==
  LET c == ChannelOf[m]
      older == queue[c] IN
  /\ status[m] = "new" /\ c \in locks
  /\ queue' = [queue EXCEPT ![c] = m]
  /\ status' = [w \in Messages |->
                  IF w = m THEN "queued" ELSE IF w = older THEN "overwritten" ELSE status[w]]
  /\ UNCHANGED <<via, locks, immediates>>

\* runWithLock() begins.
Begin(m, bot) ==
  /\ locks' = locks \cup {ChannelOf[m]}
  /\ status' = [status EXCEPT ![m] = "working"]
  /\ via' = [via EXCEPT ![m] = bot]

\* route(): the channel is free.
Run(m) ==
  /\ status[m] = "new" /\ ChannelOf[m] \notin locks
  /\ Begin(m, BotOf[m])
  /\ UNCHANGED <<queue, immediates>>

\* Mutant of RunNext: the callback is skipped when the channel is locked again.
RunNextIfFree ==
  /\ immediates # <<>>
  /\ LET m == Head(immediates) IN
       IF ChannelOf[m] \in locks THEN UNCHANGED <<status, via, locks>> ELSE Begin(m, via[m])
  /\ immediates' = Tail(immediates)
  /\ UNCHANGED queue

\* The setImmediate callback: runWithLock(), whether or not the channel is free.
RunNext ==
  /\ immediates # <<>>
  /\ LET m == Head(immediates) IN Begin(m, via[m])
  /\ immediates' = Tail(immediates)
  /\ UNCHANGED queue

\* dispatch() is over, with a reply or without, and runWithLock()'s finally block
\* frees the channel and schedules the message that waits: with this run's adapter.
Finish(m, how) ==
  LET c == ChannelOf[m]
      next == queue[c] IN
  /\ status[m] = "working"
  /\ locks' = locks \ {c}
  /\ queue' = [queue EXCEPT ![c] = None]
  /\ status' = [w \in Messages |->
                  IF w = m THEN how ELSE IF w = next THEN "scheduled" ELSE status[w]]
  /\ IF next = None
       THEN UNCHANGED <<via, immediates>>
       ELSE /\ via' = [via EXCEPT ![next] = via[m]]
            /\ immediates' = Append(immediates, next)

Work(m) == Finish(m, "answered") \/ Finish(m, "failed")

Next ==
  \/ \E m \in Messages : Refuse(m) \/ Wait(m) \/ Run(m) \/ Work(m)
  \/ RunNext

Spec == Init /\ [][Next]_vars

\* Agents answer in the end, and Node runs its callbacks.
QueueFairness == WF_vars(RunNext) /\ \A m \in Messages : WF_vars(Work(m))

FairSpec == Spec /\ QueueFairness

----------------------------------------------------------------------------
(* Properties *)

\* Every variable holds a value of its kind.
TypeOK ==
  /\ status \in [Messages -> {"new", "queued", "scheduled", "working"} \cup Settled]
  /\ via \in [Messages -> Bots \cup {None}]
  /\ locks \in SUBSET Channels
  /\ queue \in [Channels -> Messages \cup {None}]
  /\ immediates \in Seq(Messages)

WorkingOn(c) == {m \in Messages : status[m] = "working" /\ ChannelOf[m] = c}

\* A channel never goes silent: while it is locked, or a message waits for it, some
\* message of that channel is being worked on, whose end will free it.
LockHasOwner ==
  \A c \in Channels : c \in locks \/ queue[c] # None => WorkingOn(c) # {}

\* A reply stays in the channel: a message is handled through an adapter that has
\* brought a message of the same channel (not always the adapter it came by, for a
\* waiting message is run with the adapter of the one before it).
AnsweredInChannel ==
  \A m \in Messages : via[m] # None =>
    \E n \in Messages : status[n] # "new" /\ ChannelOf[n] = ChannelOf[m] /\ BotOf[n] = via[m]

\* The parts together: no channel goes silent, and replies stay in theirs.
ChannelsExact == TypeOK /\ LockHasOwner /\ AnsweredInChannel

\* Every message comes to an end.
EverySettles ==
  \A m \in Messages : status[m] # "new" ~> status[m] \in Settled

\* "queued (not dropped, not run in parallel)", second half.
NotInParallel == \A c \in Channels : Cardinality(WorkingOn(c)) <= 1

============================================================================
