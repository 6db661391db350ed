--------------------------- MODULE MessagingProofs --------------------------
(***************************************************************************)
(* The ways a message comes from a messenger. That no channel goes silent  *)
(* and replies stay in theirs, that adapters are known while they run and  *)
(* handle nothing twice, and that a stopped link is silent, for any        *)
(* messages, channels, connections, adapters and updates.                  *)
(***************************************************************************)
EXTENDS MCMessaging, FiniteSetTheorems, SequenceTheorems, TLAPS

----------------------------------------------------------------------------
(***************************************************************************)
(* The queue of a chat. The end of a message's work hands the lock and the *)
(* adapter to whatever waits in its channel's place, so a message must     *)
(* wait in the place of its own channel; and the callback begins whatever  *)
(* was scheduled, so that must not be waiting somewhere as well.           *)
(***************************************************************************)

\* A message that waits in the place of a channel is of that channel, and waits.
WaitsInItsPlace ==
  \A c \in Channels : queue[c] # None =>
    status[queue[c]] = "queued" /\ ChannelOf[queue[c]] = c

\* What was handed to setImmediate waits for no lock any more.
ScheduledIsTaken ==
  \A i \in 1 .. Len(immediates) : status[immediates[i]] \notin {"new", "queued"}

QueueInv == ChannelsExact /\ WaitsInItsPlace /\ ScheduledIsTaken

\* The invariant holds before the first message.
LEMMA QueueInit == Init => QueueInv
<1>1. SUFFICES ASSUME Init PROVE QueueInv
  OBVIOUS
<1>2. TypeOK /\ Len(immediates) = 0
  BY <1>1, ChannelQueueAssumption, EmptySeq DEF Init, TypeOK
<1>3. LockHasOwner /\ WaitsInItsPlace /\ AnsweredInChannel
  BY <1>1 DEF Init, LockHasOwner, WaitsInItsPlace, AnsweredInChannel
<1>4. ScheduledIsTaken
  BY <1>2 DEF ScheduledIsTaken
<1> QED
  BY <1>2, <1>3, <1>4 DEF QueueInv, ChannelsExact

(* A message refused by the scan. *)
LEMMA RefuseStep ==
  ASSUME QueueInv, NEW m \in Messages, Refuse(m)
  PROVE  QueueInv'
<1> USE DEF QueueInv, ChannelsExact
<1>1. /\ status[m] = "new" /\ status' = [status EXCEPT ![m] = "refused"]
      /\ UNCHANGED <<via, locks, queue, immediates>>
  BY DEF Refuse
<1>2. TypeOK' /\ \A n \in Messages : status'[n] = IF n = m THEN "refused" ELSE status[n]
  BY <1>1 DEF TypeOK, Settled
<1>3. LockHasOwner'
  BY <1>1, <1>2 DEF LockHasOwner, WorkingOn
<1>4. AnsweredInChannel' /\ WaitsInItsPlace'
  BY <1>1, <1>2 DEF AnsweredInChannel, WaitsInItsPlace, TypeOK
<1>5. ScheduledIsTaken'
  BY <1>1, <1>2, ElementOfSeq DEF ScheduledIsTaken, TypeOK
<1> QED
  BY <1>2, <1>3, <1>4, <1>5

(* A message that waits, in the place of the one that waited before it. *)
LEMMA WaitStep ==
  ASSUME QueueInv, NEW m \in Messages, Wait(m)
  PROVE  QueueInv'
<1> USE DEF QueueInv, ChannelsExact
<1> DEFINE c == ChannelOf[m]
           older == queue[c]
<1>1. /\ status[m] = "new" /\ c \in locks /\ c \in Channels
      /\ queue' = [queue EXCEPT ![c] = m]
      /\ UNCHANGED <<via, locks, immediates>>
      /\ status' = [w \in Messages |->
           IF w = m THEN "queued" ELSE IF w = older THEN "overwritten" ELSE status[w]]
  BY ChannelQueueAssumption DEF Wait
<1>2. older # None => status[older] = "queued" /\ ChannelOf[older] = c
  BY <1>1 DEF WaitsInItsPlace
<1>3. TypeOK'
  BY <1>1 DEF TypeOK, Settled
<1>4. LockHasOwner'
  <2>1. SUFFICES ASSUME NEW d \in Channels, d \in locks' \/ queue'[d] # None
                 PROVE  (WorkingOn(d) # {})'
    BY DEF LockHasOwner
  <2>2. WorkingOn(d) # {}
    BY <1>1, <2>1 DEF LockHasOwner, TypeOK
  <2> QED
    BY <1>1, <1>2, <2>2, ChannelQueueAssumption DEF WorkingOn
<1>5. AnsweredInChannel'
  BY <1>1, <1>2 DEF AnsweredInChannel
<1>6. WaitsInItsPlace'
  <2>1. SUFFICES ASSUME NEW d \in Channels, queue'[d] # None
                 PROVE  status'[queue'[d]] = "queued" /\ ChannelOf[queue'[d]] = d
    BY DEF WaitsInItsPlace
  <2>2. CASE d = c
    BY <1>1, <2>2 DEF TypeOK
  <2>3. CASE d # c
    <3>1. /\ queue'[d] = queue[d] /\ queue[d] \in Messages
          /\ status[queue[d]] = "queued" /\ ChannelOf[queue[d]] = d
      BY <1>1, <2>1, <2>3 DEF TypeOK, WaitsInItsPlace
    <3>2. queue[d] # m /\ queue[d] # older
      BY <1>1, <1>2, <2>3, <3>1, ChannelQueueAssumption
    <3> QED
      BY <1>1, <3>1, <3>2
  <2> QED
    BY <2>2, <2>3
<1>7. ScheduledIsTaken'
  BY <1>1, ElementOfSeq DEF ScheduledIsTaken, TypeOK
<1> QED
  BY <1>3, <1>4, <1>5, <1>6, <1>7

(* What the beginning of a message's work does to what is not about immediates. *)
LEMMA BeginStep ==
  ASSUME QueueInv, NEW m \in Messages, NEW adapter \in Bots \cup {None}, Begin(m, adapter),
         status[m] # "queued",
         adapter # None => adapter = BotOf[m] \/ adapter = via[m],
         UNCHANGED queue, immediates' \in Seq(Messages)
  PROVE  TypeOK' /\ LockHasOwner' /\ AnsweredInChannel' /\ WaitsInItsPlace'
<1> USE DEF QueueInv, ChannelsExact
<1>1. /\ locks' = locks \cup {ChannelOf[m]} /\ ChannelOf[m] \in Channels
      /\ status' = [status EXCEPT ![m] = "working"]
      /\ via' = [via EXCEPT ![m] = adapter]
  BY ChannelQueueAssumption DEF Begin
<1>2. /\ TypeOK'
      /\ \A n \in Messages : /\ status'[n] = IF n = m THEN "working" ELSE status[n]
                             /\ via'[n] = IF n = m THEN adapter ELSE via[n]
  BY <1>1 DEF TypeOK
<1>3. \A d \in Channels : WorkingOn(d) \subseteq WorkingOn(d)' /\ m \in WorkingOn(ChannelOf[m])'
  BY <1>2 DEF WorkingOn
<1>4. LockHasOwner'
  BY <1>1, <1>3 DEF LockHasOwner
<1>5. AnsweredInChannel'
  BY <1>2 DEF AnsweredInChannel
<1>6. WaitsInItsPlace'
  BY <1>2 DEF WaitsInItsPlace, TypeOK
<1> QED
  BY <1>2, <1>4, <1>5, <1>6

(* A message of a free channel. *)
LEMMA RunStep ==
  ASSUME QueueInv, NEW m \in Messages, Run(m)
  PROVE  QueueInv'
<1>1. /\ status[m] = "new" /\ Begin(m, BotOf[m]) /\ UNCHANGED <<queue, immediates>>
      /\ BotOf[m] \in Bots /\ immediates' \in Seq(Messages)
  BY ChannelQueueAssumption DEF Run, QueueInv, ChannelsExact, TypeOK
<1>2. ScheduledIsTaken'
  BY <1>1, ElementOfSeq DEF Begin, QueueInv, ChannelsExact, ScheduledIsTaken, TypeOK
<1> QED
  BY <1>1, <1>2, BeginStep DEF QueueInv, ChannelsExact

(* The message the callback begins. *)
LEMMA RunNextStep ==
  ASSUME QueueInv, RunNext
  PROVE  QueueInv'
<1> USE DEF QueueInv, ChannelsExact
<1> DEFINE m == Head(immediates)
<1>1. /\ immediates \in Seq(Messages) /\ immediates # <<>>
      /\ Begin(m, via[m]) /\ immediates' = Tail(immediates) /\ UNCHANGED queue
  BY DEF RunNext, TypeOK
<1>2. /\ m \in Messages /\ Tail(immediates) \in Seq(Messages) /\ m = immediates[1]
      /\ Len(immediates) \in Nat \ {0} /\ Len(Tail(immediates)) = Len(immediates) - 1
      /\ \A i \in 1 .. Len(Tail(immediates)) : Tail(immediates)[i] = immediates[i + 1]
  BY <1>1, HeadTailProperties, EmptySeq
<1>3. status[m] \notin {"new", "queued"} /\ via[m] \in Bots \cup {None}
  BY <1>2 DEF ScheduledIsTaken, TypeOK
<1>4. TypeOK' /\ LockHasOwner' /\ AnsweredInChannel' /\ WaitsInItsPlace'
  BY <1>1, <1>2, <1>3, BeginStep
<1>5. ScheduledIsTaken'
  <2>1. SUFFICES ASSUME NEW i \in 1 .. Len(Tail(immediates))
                 PROVE  status'[Tail(immediates)[i]] \notin {"new", "queued"}
    BY <1>1 DEF ScheduledIsTaken
  <2>2. i + 1 \in 1 .. Len(immediates) /\ Tail(immediates)[i] = immediates[i + 1]
    BY <1>2
  <2>3. immediates[i + 1] \in Messages /\ status[immediates[i + 1]] \notin {"new", "queued"}
    BY <1>1, <2>2, ElementOfSeq DEF ScheduledIsTaken
  <2> QED
    BY <1>1, <2>2, <2>3 DEF Begin, TypeOK
<1> QED
  BY <1>4, <1>5

(* The end of a message's work: the lock goes, and what waited is scheduled. *)
LEMMA FinishStep ==
  ASSUME QueueInv, NEW m \in Messages, NEW how \in Settled, Finish(m, how)
  PROVE  QueueInv'
<1> USE DEF QueueInv, ChannelsExact
<1> DEFINE c == ChannelOf[m]
           next == queue[c]
<1>1. /\ status[m] = "working" /\ c \in Channels
      /\ locks' = locks \ {c} /\ queue' = [queue EXCEPT ![c] = None]
      /\ status' = [w \in Messages |->
           IF w = m THEN how ELSE IF w = next THEN "scheduled" ELSE status[w]]
      /\ IF next = None
           THEN UNCHANGED <<via, immediates>>
           ELSE /\ via' = [via EXCEPT ![next] = via[m]]
                /\ immediates' = Append(immediates, next)
  BY ChannelQueueAssumption DEF Finish
<1>2. next # None =>
        next \in Messages /\ next # m /\ status[next] = "queued" /\ ChannelOf[next] = c
  BY <1>1 DEF TypeOK, WaitsInItsPlace
<1>3. /\ \A n \in Messages : status[n] \notin {"new", "queued"} => status'[n] \notin {"new", "queued"}
      /\ \A n \in Messages : status[n] # "new" => status'[n] # "new"
  BY <1>1 DEF Settled
<1>4. TypeOK'
  <2>1. immediates' \in Seq(Messages)
    BY <1>1, <1>2, AppendProperties DEF TypeOK
  <2>2. via' \in [Messages -> Bots \cup {None}]
    BY <1>1, <1>2 DEF TypeOK
  <2>3. status' \in [Messages -> {"new", "queued", "scheduled", "working"} \cup Settled]
    BY <1>1 DEF TypeOK
  <2> QED
    BY <1>1, <2>1, <2>2, <2>3 DEF TypeOK
<1>5. LockHasOwner'
  <2>1. SUFFICES ASSUME NEW d \in Channels, d \in locks' \/ queue'[d] # None
                 PROVE  (WorkingOn(d) # {})'
    BY DEF LockHasOwner
  <2>2. d # c /\ (d \in locks \/ queue[d] # None)
    BY <1>1, <2>1 DEF TypeOK
  <2>3. PICK n \in Messages : status[n] = "working" /\ ChannelOf[n] = d
    BY <2>2 DEF LockHasOwner, WorkingOn
  <2>4. n # m /\ n # next
    BY <1>2, <2>2, <2>3, ChannelQueueAssumption
  <2> QED
    BY <1>1, <2>3, <2>4 DEF WorkingOn
<1>6. AnsweredInChannel'
  <2>1. SUFFICES ASSUME NEW n \in Messages, via'[n] # None
                 PROVE  \E o \in Messages : /\ status[o] # "new" /\ ChannelOf[o] = ChannelOf[n]
                                            /\ BotOf[o] = via'[n]
    BY <1>3 DEF AnsweredInChannel
  <2>2. CASE via'[n] = via[n]
    BY <2>1, <2>2 DEF AnsweredInChannel
  <2>3. CASE via'[n] # via[n]
    <3>1. next # None /\ n = next /\ via'[n] = via[m] /\ ChannelOf[n] = ChannelOf[m]
      BY <1>1, <1>2, <2>3 DEF TypeOK
    <3> QED
      BY <2>1, <3>1 DEF AnsweredInChannel
  <2> QED
    BY <2>2, <2>3
<1>7. WaitsInItsPlace'
  <2>1. SUFFICES ASSUME NEW d \in Channels, queue'[d] # None
                 PROVE  status'[queue'[d]] = "queued" /\ ChannelOf[queue'[d]] = d
    BY DEF WaitsInItsPlace
  <2>2. /\ d # c /\ queue'[d] = queue[d] /\ queue[d] \in Messages
        /\ status[queue[d]] = "queued" /\ ChannelOf[queue[d]] = d
    BY <1>1, <2>1 DEF TypeOK, WaitsInItsPlace
  <2>3. queue[d] # m /\ queue[d] # next
    BY <1>1, <1>2, <2>2, ChannelQueueAssumption
  <2> QED
    BY <1>1, <2>2, <2>3
<1>8. ScheduledIsTaken'
  <2>1. CASE next = None
    BY <1>1, <1>3, <2>1, ElementOfSeq DEF ScheduledIsTaken, TypeOK
  <2>2. CASE next # None
    <3>1. /\ immediates' = Append(immediates, next) /\ Len(immediates) \in Nat
          /\ Len(immediates') = Len(immediates) + 1
          /\ \A i \in 1 .. Len(immediates) : immediates'[i] = immediates[i]
          /\ immediates'[Len(immediates) + 1] = next
      <4>1. immediates \in Seq(Messages) /\ next \in Messages
        BY <1>2, <2>2 DEF TypeOK
      <4> QED
        BY <1>1, <2>2, <4>1, AppendProperties, LenProperties
    <3>2. status'[next] = "scheduled"
      BY <1>1, <1>2, <2>2
    <3>3. \A i \in 1 .. Len(immediates) :
            immediates[i] \in Messages /\ status'[immediates[i]] \notin {"new", "queued"}
      BY <1>3, ElementOfSeq DEF ScheduledIsTaken, TypeOK
    <3> QED
      BY <3>1, <3>2, <3>3 DEF ScheduledIsTaken
  <2> QED
    BY <2>1, <2>2
<1> QED
  BY <1>4, <1>5, <1>6, <1>7, <1>8

(* Each action keeps the invariant. *)
LEMMA QueueStep ==
  ASSUME QueueInv, [Next]_vars
  PROVE  QueueInv'
<1>1. CASE UNCHANGED vars
  BY <1>1 DEF QueueInv, ChannelsExact, TypeOK, LockHasOwner, AnsweredInChannel, WorkingOn,
              WaitsInItsPlace, ScheduledIsTaken, vars
<1>2. ASSUME NEW m \in Messages, Work(m)
      PROVE  QueueInv'
  BY <1>2, FinishStep DEF Work, Settled
<1> QED
  BY <1>1, <1>2, RefuseStep, WaitStep, RunStep, RunNextStep DEF Next

(* While a channel is locked, or a message waits for it, some message of it is *)
(* worked on, whose end frees it; and a message is handled by an adapter that  *)
(* brought one of the same channel (MessagingManager.route and runWithLock).   *)
THEOREM ChannelsAreExact == Spec => []ChannelsExact
<1>1. Init => QueueInv
  BY QueueInit
<1>2. QueueInv /\ [Next]_vars => QueueInv'
  BY QueueStep
<1>3. QueueInv => ChannelsExact
  BY DEF QueueInv
<1> QED
  BY <1>1, <1>2, <1>3, PTL DEF Spec

----------------------------------------------------------------------------
(***************************************************************************)
(* Connections. That an adapter handles no update twice depends on where   *)
(* offsets stand, and that it is known on which starts are under way: the  *)
(* invariant counts what was handled by the adapters that have passed it,  *)
(* and follows a connection that nobody touched during a start through     *)
(* that start.                                                             *)
(***************************************************************************)

Polls == {"new", "starting", "polling", "waiting", "off"}
Runs(a) == poll[a] \in {"polling", "waiting"} /\ a \notin stopSignal
Past(id, u) == {a \in Adapters : servedBy[a] = id /\ offset[a] > u}

ConnTypes ==
  /\ conn \in [Ids -> {"none", "off", "on"}]
  /\ entered \in [Ids -> Seq(Adapters)]
  /\ booting \in Adapters \cup {NoAdapter} /\ todo \subseteq Ids /\ wired \in BOOLEAN
  /\ poll \in [Adapters -> Polls] /\ servedBy \in [Adapters -> Ids]
  /\ stopSignal \subseteq Adapters /\ overlapped \subseteq Ids
  /\ offset \in [Adapters -> 0..MaxSent + 1]
  /\ sent \in [Ids -> 0..MaxSent] /\ confirmed \in [Ids -> 0..MaxSent]
  /\ handled \in [Ids -> [Updates -> Nat]]

\* An adapter that is entered or told to stop has been started, and is entered under the
\* connection it serves.
EnteredWereStarted ==
  /\ \A id \in Ids : \A i \in 1..Len(entered[id]) :
       servedBy[entered[id][i]] = id /\ poll[entered[id][i]] \notin {"new", "starting"}
  /\ \A a \in stopSignal : poll[a] \notin {"new", "starting"}
  /\ \A id \in Ids \ {Main} : Len(entered[id]) <= 1

\* Before the routes have the manager only Main is started.
MainAloneAtFirst ==
  ~wired => /\ todo \subseteq {Main}
            /\ \A a \in Adapters : poll[a] \in {"starting", "polling", "waiting"} => servedBy[a] = Main

\* A connection that was not touched while it was started has one start, or one adapter,
\* and its row.
UntouchedIsExact ==
  \A id \in Ids \ overlapped :
    /\ Len(entered[id]) <= 1
    /\ \A a, b \in StartsOf(id) : a = b
    /\ StartsOf(id) # {} => entered[id] = <<>>
    /\ \A a \in Adapters :
         servedBy[a] = id /\ (Runs(a) \/ (poll[a] = "starting" /\ id # Main)) => conn[id] # "none"
    /\ \A a \in Adapters : servedBy[a] = id /\ Runs(a) => \E i \in 1..Len(entered[id]) : entered[id][i] = a

\* What is below an offset was handled; an offset is passed once by each adapter.
OffsetsAreHandled ==
  /\ \A a \in Adapters : /\ poll[a] \in {"new", "starting"} => offset[a] = 0
                         /\ offset[a] <= sent[servedBy[a]] + 1
                         /\ \A u \in Updates : u < offset[a] => handled[servedBy[a]][u] >= 1
  /\ \A id \in Ids : /\ confirmed[id] <= sent[id]
                     /\ \A u \in Updates : u <= confirmed[id] => handled[id][u] >= 1
  /\ \A id \in Ids, u \in Updates : handled[id][u] <= Cardinality(Past(id, u))

ConnInv == ConnTypes /\ EnteredWereStarted /\ MainAloneAtFirst /\ UntouchedIsExact /\ OffsetsAreHandled

\* Updates are numbered from one.
LEMMA UpdatesAreNumbers == \A u \in Updates : u \in Nat /\ u >= 1 /\ u <= MaxSent
  BY ConnectionsAssumption DEF Updates

\* Adapters can be counted.
LEMMA PastIsFinite ==
  ASSUME ConnInv, NEW id, NEW u
  PROVE  IsFiniteSet(Past(id, u)) /\ Cardinality(Past(id, u)) \in Nat
<1>1. Past(id, u) \subseteq Adapters
  BY DEF Past
<1>2. IsFiniteSet(Past(id, u))
  BY <1>1, ConnectionsAssumption, FS_Subset
<1> QED
  BY <1>2, FS_CardinalityType

\* The invariant holds before anything is started.
LEMMA ConnInitOK == ConnInit => ConnInv
<1> SUFFICES ASSUME ConnInit PROVE ConnInv
  OBVIOUS
<1>1. /\ \A id \in Ids : entered[id] = <<>> /\ sent[id] = 0 /\ confirmed[id] = 0
      /\ \A id \in Ids, u \in Updates : handled[id][u] = 0
      /\ \A a \in Adapters : poll[a] = "new" /\ offset[a] = 0 /\ servedBy[a] = Main
      /\ stopSignal = {} /\ overlapped = {} /\ wired = FALSE /\ todo \subseteq {Main}
  BY DEF ConnInit
<1>2. ConnTypes
  <2>1. 0 \in 0..MaxSent /\ 0 \in 0..MaxSent+1
    BY ConnectionsAssumption
  <2>2. /\ conn \in [Ids -> {"none", "off", "on"}] /\ entered \in [Ids -> Seq(Adapters)]
        /\ booting \in Adapters \cup {NoAdapter} /\ todo \subseteq Ids /\ wired \in BOOLEAN
        /\ poll \in [Adapters -> Polls] /\ servedBy \in [Adapters -> Ids]
    <3>1. <<>> \in Seq(Adapters)
      OBVIOUS
    <3>2. entered \in [Ids -> Seq(Adapters)]
      BY <3>1 DEF ConnInit
    <3>3. poll \in [Adapters -> Polls] /\ servedBy \in [Adapters -> Ids]
      BY ConnectionsAssumption DEF ConnInit, Polls
    <3>4. conn \in [Ids -> {"none", "off", "on"}] /\ booting = NoAdapter /\ wired = FALSE
      BY DEF ConnInit
    <3>5. todo \subseteq Ids
      BY <1>1, ConnectionsAssumption
    <3> QED
      BY <3>2, <3>3, <3>4, <3>5
  <2>3. offset \in [Adapters -> 0..MaxSent+1] /\ sent \in [Ids -> 0..MaxSent] /\ confirmed \in [Ids -> 0..MaxSent]
    BY <2>1 DEF ConnInit
  <2>4. handled \in [Ids -> [Updates -> Nat]]
    BY DEF ConnInit
  <2> QED
    BY <1>1, <2>2, <2>3, <2>4 DEF ConnTypes
<1>3. EnteredWereStarted /\ MainAloneAtFirst
  BY <1>1 DEF EnteredWereStarted, MainAloneAtFirst
<1>4. UntouchedIsExact
  BY <1>1 DEF UntouchedIsExact, StartsOf, Runs
<1>5. ASSUME NEW id \in Ids, NEW u \in Updates PROVE Past(id, u) = {} /\ Cardinality(Past(id, u)) = 0
  <2>1. Past(id, u) = {}
    BY <1>1, UpdatesAreNumbers DEF Past
  <2> QED
    BY <2>1, FS_EmptySet
<1>6. OffsetsAreHandled
  <2>1. \A u \in Updates : ~(u < 0) /\ ~(u <= 0)
    BY UpdatesAreNumbers
  <2>2. \A id \in Ids, u \in Updates : handled[id][u] <= Cardinality(Past(id, u))
    BY <1>1, <1>5
  <2>3. \A a \in Adapters : servedBy[a] = Main /\ Main \in Ids /\ 0 <= sent[Main] + 1
    BY <1>1, ConnectionsAssumption
  <2> QED
    BY <1>1, <2>1, <2>2, <2>3 DEF OffsetsAreHandled
<1> QED
  BY <1>2, <1>3, <1>4, <1>6 DEF ConnInv

\* Offsets say the same when no bot is asked, whoever starts to serve it.
LEMMA OffsetsStay ==
  ASSUME ConnInv, UNCHANGED <<offset, sent, confirmed, handled>>, servedBy' \in [Adapters -> Ids],
         \A a \in Adapters : servedBy'[a] = servedBy[a] \/ offset[a] = 0,
         \A a \in Adapters : poll'[a] \in {"new", "starting"} => poll[a] \in {"new", "starting"}
  PROVE  OffsetsAreHandled'
<1>1. /\ \A a \in Adapters : offset[a] \in Nat /\ servedBy'[a] \in Ids
      /\ \A id \in Ids : sent[id] \in Nat
  BY DEF ConnInv, ConnTypes
<1>2. ASSUME NEW id \in Ids, NEW u \in Updates PROVE Past(id, u)' = Past(id, u)
  BY <1>1, UpdatesAreNumbers DEF Past
<1>3. ASSUME NEW a \in Adapters
      PROVE  /\ poll'[a] \in {"new", "starting"} => offset[a] = 0
             /\ offset[a] <= sent[servedBy'[a]] + 1
             /\ \A u \in Updates : u < offset[a] => handled[servedBy'[a]][u] >= 1
  <2>1. CASE servedBy'[a] = servedBy[a]
    BY <2>1 DEF ConnInv, OffsetsAreHandled
  <2>2. CASE offset[a] = 0
    BY <1>1, <2>2, UpdatesAreNumbers
  <2> QED
    BY <2>1, <2>2
<1> QED
  BY <1>2, <1>3 DEF ConnInv, OffsetsAreHandled

\* The rest says the same when adapters only stop running.
LEMMA RunningStays ==
  ASSUME ConnInv, UNCHANGED <<conn, entered, overlapped, wired, todo, servedBy, stopSignal>>,
         \A a \in Adapters : /\ poll'[a] \in {"polling", "waiting"} => poll[a] \in {"polling", "waiting"}
                             /\ poll'[a] = "starting" => poll[a] = "starting"
                             /\ poll'[a] = "new" => poll[a] = "new"
  PROVE  EnteredWereStarted' /\ MainAloneAtFirst' /\ UntouchedIsExact'
<1>1. EnteredWereStarted'
  <2>1. \A id \in Ids : \A i \in 1..Len(entered[id]) : entered[id][i] \in Adapters
    BY ElementOfSeq DEF ConnInv, ConnTypes
  <2>2. stopSignal \subseteq Adapters
    BY DEF ConnInv, ConnTypes
  <2> QED
    BY <2>1, <2>2 DEF ConnInv, EnteredWereStarted
<1>2. MainAloneAtFirst'
  BY DEF ConnInv, MainAloneAtFirst
<1>3. \A id \in Ids : StartsOf(id)' \subseteq StartsOf(id)
  BY DEF StartsOf
<1>4. \A a \in Adapters : Runs(a)' => Runs(a)
  BY DEF Runs
<1>5. UntouchedIsExact'
  BY <1>3, <1>4 DEF ConnInv, UntouchedIsExact
<1> QED
  BY <1>1, <1>2, <1>5

\* A connection is stopped, and another adapter started or none.
LEMMA StoppedFirst ==
  ASSUME ConnInv, NEW id \in Ids, StopFirst(id)
  PROVE  /\ entered' \in [Ids -> Seq(Adapters)] /\ stopSignal' \subseteq Adapters
         /\ overlapped' \subseteq Ids
         /\ entered'[id] = <<>> /\ \A j \in Ids : j # id => entered'[j] = entered[j]
         /\ stopSignal \subseteq stopSignal' /\ overlapped \subseteq overlapped'
         /\ overlapped' \subseteq overlapped \cup {id}
         /\ \A a \in stopSignal' : poll[a] \notin {"new", "starting"}
         /\ id \notin overlapped' => StartsOf(id) = {} /\ \A a \in Adapters \ stopSignal' : servedBy[a] = id => ~Runs(a)
<1>1. /\ stopSignal' = IF entered[id] = <<>> THEN stopSignal ELSE stopSignal \cup {Head(entered[id])}
      /\ entered' = [entered EXCEPT ![id] = <<>>]
      /\ overlapped' = Touched(id)
  BY DEF StopFirst
<1>2. entered \in [Ids -> Seq(Adapters)] /\ stopSignal \subseteq Adapters /\ overlapped \subseteq Ids
  BY DEF ConnInv, ConnTypes
<1>3. entered[id] # <<>> => /\ 1 \in 1..Len(entered[id]) /\ Head(entered[id]) = entered[id][1]
                            /\ Head(entered[id]) \in Adapters
  <2>1. entered[id] \in Seq(Adapters)
    BY <1>2
  <2>2. \A s \in Seq(Adapters) : s # <<>> => 1 \in 1..Len(s) /\ Head(s) = s[1] /\ Head(s) \in Adapters
    OBVIOUS
  <2> QED
    BY <2>1, <2>2
<1>4. \A a \in stopSignal' : poll[a] \notin {"new", "starting"}
  BY <1>1, <1>3 DEF ConnInv, EnteredWereStarted
<1>5. entered' \in [Ids -> Seq(Adapters)] /\ entered'[id] = <<>> /\ \A j \in Ids : j # id => entered'[j] = entered[j]
  <2>1. <<>> \in Seq(Adapters)
    OBVIOUS
  <2> QED
    BY <1>1, <1>2, <2>1
<1>6. ASSUME id \notin overlapped' PROVE StartsOf(id) = {} /\ id \in Ids \ overlapped
  BY <1>1, <1>6 DEF Touched
<1>7. ASSUME id \notin overlapped', NEW a \in Adapters \ stopSignal', servedBy[a] = id PROVE ~Runs(a)
  <2> SUFFICES ASSUME Runs(a) PROVE FALSE
    OBVIOUS
  <2>1. PICK i \in 1..Len(entered[id]) : entered[id][i] = a
    BY <1>6, <1>7 DEF ConnInv, UntouchedIsExact
  <2>2. Len(entered[id]) <= 1
    BY <1>6, <1>7 DEF ConnInv, UntouchedIsExact
  <2>3. i = 1 /\ entered[id] # <<>>
    <3>1. entered[id] \in Seq(Adapters) /\ Len(entered[id]) \in Nat
      BY <1>2
    <3> QED
      BY <2>1, <2>2, <3>1
  <2> QED
    BY <1>1, <1>3, <1>7, <2>1, <2>3
<1> QED
  BY <1>1, <1>2, <1>3, <1>4, <1>5, <1>6, <1>7 DEF Touched

\* A start takes an adapter that was never used and puts it under its connection.
LEMMA BeginOK ==
  ASSUME ConnInv, NEW id \in Ids, BeginStart(id, NewAdapter),
         id = Main \/ conn[id] # "none", ~wired => id = Main,
         UNCHANGED <<conn, wired, offset, sent, confirmed, handled>>,
         todo' \subseteq todo, booting' \in Adapters \cup {NoAdapter}
  PROVE  ConnInv'
<1> DEFINE a == NewAdapter
<1>1. a \in Adapters /\ poll[a] = "new"
  <2>1. Unused # {}
    BY DEF BeginStart
  <2>2. a \in Unused
    BY <2>1 DEF NewAdapter
  <2> QED
    BY <2>2 DEF Unused
<1>2. StopFirst(id) /\ servedBy' = [servedBy EXCEPT ![a] = id] /\ poll' = [poll EXCEPT ![a] = "starting"]
  BY DEF BeginStart
<1> HIDE DEF a
<1>3. poll \in [Adapters -> Polls] /\ servedBy \in [Adapters -> Ids]
  BY DEF ConnInv, ConnTypes
<1>4. /\ \A b \in Adapters : poll'[b] = IF b = a THEN "starting" ELSE poll[b]
      /\ \A b \in Adapters : servedBy'[b] = IF b = a THEN id ELSE servedBy[b]
  BY <1>2, <1>3
<1>5. /\ entered' \in [Ids -> Seq(Adapters)] /\ stopSignal' \subseteq Adapters
      /\ overlapped' \subseteq Ids
      /\ entered'[id] = <<>> /\ \A j \in Ids : j # id => entered'[j] = entered[j]
      /\ stopSignal \subseteq stopSignal' /\ overlapped \subseteq overlapped'
      /\ overlapped' \subseteq overlapped \cup {id}
      /\ \A b \in stopSignal' : poll[b] \notin {"new", "starting"}
      /\ id \notin overlapped' => StartsOf(id) = {} /\ \A b \in Adapters \ stopSignal' : servedBy[b] = id => ~Runs(b)
  BY <1>2, StoppedFirst
<1>6. ConnTypes'
  <2>1. poll' \in [Adapters -> Polls] /\ servedBy' \in [Adapters -> Ids]
    BY <1>1, <1>2, <1>3 DEF Polls
  <2> QED
    BY <1>5, <2>1 DEF ConnInv, ConnTypes
<1>7. OffsetsAreHandled'
  <2>1. offset[a] = 0
    BY <1>1 DEF ConnInv, OffsetsAreHandled
  <2> QED
    BY <1>1, <1>4, <1>6, <2>1, OffsetsStay DEF ConnTypes
<1>8. EnteredWereStarted'
  <2>1. Len(entered'[id]) = 0
    BY <1>5
  <2>2. ASSUME NEW j \in Ids, NEW i \in 1..Len(entered'[j])
        PROVE  servedBy'[entered'[j][i]] = j /\ poll'[entered'[j][i]] \notin {"new", "starting"}
    <3>1. j # id /\ entered'[j] = entered[j]
      BY <1>5, <2>1, <2>2
    <3>2. servedBy[entered[j][i]] = j /\ poll[entered[j][i]] \notin {"new", "starting"}
      BY <2>2, <3>1 DEF ConnInv, EnteredWereStarted
    <3>3. entered[j][i] \in Adapters
      BY <2>2, <3>1, ElementOfSeq DEF ConnInv, ConnTypes
    <3> QED
      BY <1>1, <1>4, <3>1, <3>2, <3>3
  <2>3. \A b \in stopSignal' : poll'[b] \notin {"new", "starting"}
    BY <1>1, <1>4, <1>5
  <2>4. \A j \in Ids \ {Main} : Len(entered'[j]) <= 1
    <3>1. \A j \in Ids : j = id \/ entered'[j] = entered[j]
      BY <1>5
    <3> QED
      BY <2>1, <3>1 DEF ConnInv, EnteredWereStarted
  <2> QED
    BY <2>2, <2>3, <2>4 DEF EnteredWereStarted
<1>9. MainAloneAtFirst'
  BY <1>4 DEF ConnInv, MainAloneAtFirst
<1>10. UntouchedIsExact'
  <2>1. a \notin stopSignal' /\ a \notin stopSignal
    BY <1>1, <1>5
  <2>2. \A b \in Adapters : Runs(b)' => b # a /\ Runs(b) /\ b \notin stopSignal'
    BY <1>4, <1>5 DEF Runs
  <2>3. ASSUME NEW j \in Ids \ overlapped', j # id
        PROVE  /\ Len(entered'[j]) <= 1
               /\ \A x, b \in StartsOf(j)' : x = b
               /\ StartsOf(j)' # {} => entered'[j] = <<>>
               /\ \A b \in Adapters :
                    servedBy'[b] = j /\ (Runs(b)' \/ (poll'[b] = "starting" /\ j # Main)) => conn[j] # "none"
               /\ \A b \in Adapters : servedBy'[b] = j /\ Runs(b)' => \E i \in 1..Len(entered'[j]) : entered'[j][i] = b
    <3>1. j \in Ids \ overlapped /\ entered'[j] = entered[j]
      BY <1>5, <2>3
    <3>2. StartsOf(j)' \subseteq StartsOf(j)
      BY <1>4, <2>3 DEF StartsOf
    <3>3. \A b \in Adapters : servedBy'[b] = j => servedBy[b] = j /\ poll'[b] = poll[b]
      BY <1>4, <2>3
    <3> QED
      BY <2>2, <3>1, <3>2, <3>3 DEF ConnInv, UntouchedIsExact
  <2>4. ASSUME id \notin overlapped'
        PROVE  /\ Len(entered'[id]) <= 1
               /\ \A x, b \in StartsOf(id)' : x = b
               /\ StartsOf(id)' # {} => entered'[id] = <<>>
               /\ \A b \in Adapters :
                    servedBy'[b] = id /\ (Runs(b)' \/ (poll'[b] = "starting" /\ id # Main)) => conn[id] # "none"
               /\ \A b \in Adapters : servedBy'[b] = id /\ Runs(b)' => \E i \in 1..Len(entered'[id]) : entered'[id][i] = b
    <3>1. StartsOf(id)' \subseteq {a}
      BY <1>4, <1>5, <2>4 DEF StartsOf
    <3>2. \A b \in Adapters : ~(servedBy'[b] = id /\ Runs(b)')
      BY <1>4, <1>5, <2>2, <2>4
    <3>3. Len(entered'[id]) = 0
      BY <1>5
    <3> QED
      BY <1>5, <3>1, <3>2, <3>3
  <2> QED
    BY <2>3, <2>4 DEF UntouchedIsExact
<1> QED
  BY <1>6, <1>7, <1>8, <1>9, <1>10 DEF ConnInv

\* Nothing is started: a connection is stopped, and its row changes.
LEMMA StopOK ==
  ASSUME ConnInv, NEW id \in Ids, StopFirst(id), NEW c \in {"none", "off"}, conn' = [conn EXCEPT ![id] = c],
         UNCHANGED <<wired, todo, booting, servedBy, poll, offset, sent, confirmed, handled>>
  PROVE  ConnInv'
<1>1. /\ entered' \in [Ids -> Seq(Adapters)] /\ stopSignal' \subseteq Adapters
      /\ overlapped' \subseteq Ids
      /\ entered'[id] = <<>> /\ \A j \in Ids : j # id => entered'[j] = entered[j]
      /\ stopSignal \subseteq stopSignal' /\ overlapped \subseteq overlapped'
      /\ overlapped' \subseteq overlapped \cup {id}
      /\ \A b \in stopSignal' : poll[b] \notin {"new", "starting"}
      /\ id \notin overlapped' => StartsOf(id) = {} /\ \A b \in Adapters \ stopSignal' : servedBy[b] = id => ~Runs(b)
  BY StoppedFirst
<1>2. conn \in [Ids -> {"none", "off", "on"}] /\ poll \in [Adapters -> Polls] /\ servedBy \in [Adapters -> Ids]
  BY DEF ConnInv, ConnTypes
<1>3. ConnTypes'
  <2>1. conn' \in [Ids -> {"none", "off", "on"}]
    BY <1>2
  <2> QED
    BY <1>1, <2>1 DEF ConnInv, ConnTypes
<1>4. \A j \in Ids : j # id => conn'[j] = conn[j]
  BY <1>2
<1>5. OffsetsAreHandled'
  BY <1>2, OffsetsStay
<1>6. Len(entered'[id]) = 0
  BY <1>1
<1>7. EnteredWereStarted'
  <2>1. ASSUME NEW j \in Ids, NEW i \in 1..Len(entered'[j])
        PROVE  servedBy[entered'[j][i]] = j /\ poll[entered'[j][i]] \notin {"new", "starting"}
    <3>1. j # id /\ entered'[j] = entered[j]
      BY <1>1, <1>6, <2>1
    <3> QED
      BY <2>1, <3>1 DEF ConnInv, EnteredWereStarted
  <2>2. \A j \in Ids \ {Main} : Len(entered'[j]) <= 1
    <3>1. \A j \in Ids : j = id \/ entered'[j] = entered[j]
      BY <1>1
    <3> QED
      BY <1>6, <3>1 DEF ConnInv, EnteredWereStarted
  <2> QED
    BY <1>1, <2>1, <2>2 DEF EnteredWereStarted
<1>8. MainAloneAtFirst'
  BY DEF ConnInv, MainAloneAtFirst
<1>9. UntouchedIsExact'
  <2>1. \A b \in Adapters : Runs(b)' => Runs(b) /\ b \notin stopSignal'
    BY <1>1 DEF Runs
  <2>2. \A j : StartsOf(j)' = StartsOf(j)
    BY DEF StartsOf
  <2>3. ASSUME NEW j \in Ids \ overlapped', j # id
        PROVE  /\ Len(entered'[j]) <= 1
               /\ \A x, b \in StartsOf(j)' : x = b
               /\ StartsOf(j)' # {} => entered'[j] = <<>>
               /\ \A b \in Adapters :
                    servedBy[b] = j /\ (Runs(b)' \/ (poll[b] = "starting" /\ j # Main)) => conn'[j] # "none"
               /\ \A b \in Adapters : servedBy[b] = j /\ Runs(b)' => \E i \in 1..Len(entered'[j]) : entered'[j][i] = b
    <3>1. j \in Ids \ overlapped /\ entered'[j] = entered[j] /\ conn'[j] = conn[j]
      BY <1>1, <1>4, <2>3
    <3> QED
      BY <2>1, <2>2, <3>1 DEF ConnInv, UntouchedIsExact
  <2>4. ASSUME id \notin overlapped'
        PROVE  /\ Len(entered'[id]) <= 1
               /\ StartsOf(id)' = {}
               /\ \A b \in Adapters : ~(servedBy[b] = id /\ Runs(b)')
    BY <1>1, <1>6, <2>1, <2>2, <2>4
  <2>5. \A b \in Adapters : poll[b] = "starting" /\ servedBy[b] = id => b \in StartsOf(id)'
    BY DEF StartsOf
  <2>6. ASSUME id \notin overlapped'
        PROVE  /\ Len(entered'[id]) <= 1
               /\ \A x, b \in StartsOf(id)' : x = b
               /\ StartsOf(id)' # {} => entered'[id] = <<>>
               /\ \A b \in Adapters :
                    servedBy[b] = id /\ (Runs(b)' \/ (poll[b] = "starting" /\ id # Main)) => conn'[id] # "none"
               /\ \A b \in Adapters : servedBy[b] = id /\ Runs(b)' => \E i \in 1..Len(entered'[id]) : entered'[id][i] = b
    BY <2>4, <2>5, <2>6
  <2>7. UNCHANGED <<servedBy, poll>>
    OBVIOUS
  <2> QED
    BY <2>3, <2>6, <2>7 DEF UntouchedIsExact
<1> QED
  BY <1>3, <1>5, <1>7, <1>8, <1>9 DEF ConnInv

\* A start that succeeds enters its adapter, after it has stopped the one before.
LEMMA StartedOK == ASSUME ConnInv, NEW a \in Adapters, Started(a) PROVE ConnInv'
<1> DEFINE id == servedBy[a]
<1>1. /\ poll[a] = "starting" /\ poll' = [poll EXCEPT ![a] = "polling"]
      /\ entered' = [entered EXCEPT ![id] = IF id = Main THEN Append(entered[id], a) ELSE <<a>>]
      /\ conn' = IF id = Main \/ conn[id] # "none" THEN [conn EXCEPT ![id] = "on"] ELSE conn
      /\ booting' \in {NoAdapter, booting}
      /\ UNCHANGED <<overlapped, wired, todo, servedBy, stopSignal, offset, sent, confirmed, handled>>
  BY DEF Started, telegram
<1>2. /\ conn \in [Ids -> {"none", "off", "on"}] /\ poll \in [Adapters -> Polls] /\ id \in Ids
      /\ entered \in [Ids -> Seq(Adapters)]
  BY DEF ConnInv, ConnTypes
<1> DEFINE after == IF id = Main THEN Append(entered[id], a) ELSE <<a>>
<1>3. /\ after \in Seq(Adapters)
      /\ \A i \in 1..Len(after) : after[i] = a \/ (\E j \in 1..Len(entered[id]) : after[i] = entered[id][j])
      /\ \E i \in 1..Len(after) : after[i] = a
      /\ entered[id] = <<>> \/ id # Main => Len(after) <= 1
  <2>1. CASE id = Main
    <3> DEFINE e == entered[id]
    <3>1. e \in Seq(Adapters) /\ Len(e) \in Nat /\ (e = <<>> => Len(e) = 0)
      BY <1>2
    <3>2. after = Append(e, a)
      BY <2>1
    <3> HIDE DEF e, after
    <3>3. /\ after \in Seq(Adapters) /\ Len(after) = Len(e) + 1 /\ after[Len(e)+1] = a
          /\ \A i \in 1..Len(e) : after[i] = e[i]
      BY <3>1, <3>2, AppendProperties
    <3>4. \A i \in 1..Len(e)+1 : i \in 1..Len(e) \/ i = Len(e)+1
      BY <3>1
    <3>5. Len(e)+1 \in 1..Len(after)
      BY <3>1, <3>3
    <3> QED
      BY <2>1, <3>1, <3>3, <3>4, <3>5 DEF e
  <2>2. CASE id # Main
    BY <2>2
  <2> QED
    BY <2>1, <2>2
<1>4. entered' = [entered EXCEPT ![id] = after]
  BY <1>1
<1> HIDE DEF after
<1>5. /\ \A b \in Adapters : poll'[b] = IF b = a THEN "polling" ELSE poll[b]
      /\ \A j \in Ids : entered'[j] = IF j = id THEN after ELSE entered[j]
      /\ conn' \in [Ids -> {"none", "off", "on"}] /\ \A j \in Ids : conn'[j] = "on" \/ conn'[j] = conn[j]
      /\ id = Main \/ conn[id] # "none" => conn'[id] = "on"
  BY <1>1, <1>2, <1>4
<1> HIDE DEF id
<1>6. ConnTypes'
  <2>1. poll' \in [Adapters -> Polls] /\ entered' \in [Ids -> Seq(Adapters)]
    BY <1>1, <1>2, <1>3, <1>4 DEF Polls
  <2> QED
    BY <1>1, <1>5, <2>1 DEF ConnInv, ConnTypes
<1>7. OffsetsAreHandled'
  BY <1>1, <1>2, <1>5, OffsetsStay DEF ConnInv, ConnTypes
<1>8. EnteredWereStarted'
  <2>1. ASSUME NEW j \in Ids, NEW i \in 1..Len(entered[j])
        PROVE  servedBy[entered[j][i]] = j /\ poll'[entered[j][i]] \notin {"new", "starting"}
    <3>1. entered[j][i] \in Adapters
      BY <1>2, ElementOfSeq
    <3> QED
      BY <1>1, <1>5, <2>1, <3>1 DEF ConnInv, EnteredWereStarted
  <2>2. \A i \in 1..Len(after) : servedBy[after[i]] = id /\ poll'[after[i]] \notin {"new", "starting"}
    <3> TAKE i \in 1..Len(after)
    <3>1. CASE after[i] = a
      <4>1. servedBy[a] = id /\ poll'[a] = "polling"
        BY <1>5 DEF id
      <4> QED
        BY <3>1, <4>1
    <3>2. CASE \E j \in 1..Len(entered[id]) : after[i] = entered[id][j]
      <4>1. PICK j \in 1..Len(entered[id]) : after[i] = entered[id][j]
        BY <3>2
      <4>2. id \in Ids
        BY <1>2
      <4> QED
        BY <2>1, <4>1, <4>2
    <3> QED
      BY <1>3, <3>1, <3>2
  <2>3. \A b \in stopSignal : poll'[b] \notin {"new", "starting"}
    BY <1>1, <1>5 DEF ConnInv, ConnTypes, EnteredWereStarted
  <2>4. ASSUME NEW j \in Ids \ {Main} PROVE Len(entered'[j]) <= 1
    BY <1>3, <1>5 DEF ConnInv, EnteredWereStarted
  <2> QED
    <3>1. ASSUME NEW j \in Ids, NEW i \in 1..Len(entered'[j])
          PROVE  servedBy'[entered'[j][i]] = j /\ poll'[entered'[j][i]] \notin {"new", "starting"}
      <4>1. CASE j = id
        <5>1. entered'[j] = after
          BY <1>5, <4>1
        <5> QED
          BY <1>1, <2>2, <3>1, <4>1, <5>1
      <4>2. CASE j # id
        <5>1. entered'[j] = entered[j]
          BY <1>5, <4>2
        <5> QED
          BY <1>1, <2>1, <3>1, <5>1
      <4> QED
        BY <4>1, <4>2
    <3> QED
      BY <1>1, <2>3, <2>4, <3>1 DEF EnteredWereStarted
<1>9. MainAloneAtFirst'
  BY <1>1, <1>5 DEF ConnInv, MainAloneAtFirst
<1>10. UntouchedIsExact'
  <2>1. \A b \in Adapters : Runs(b)' => b = a \/ Runs(b)
    BY <1>1, <1>5 DEF Runs
  <2>2. a \in StartsOf(id) /\ \A j : StartsOf(j)' \subseteq StartsOf(j) /\ a \notin StartsOf(j)'
    BY <1>1, <1>5 DEF StartsOf, id
  <2>3. ASSUME NEW j \in Ids \ overlapped'
        PROVE  /\ Len(entered'[j]) <= 1
               /\ \A x, b \in StartsOf(j)' : x = b
               /\ StartsOf(j)' # {} => entered'[j] = <<>>
               /\ \A b \in Adapters :
                    servedBy'[b] = j /\ (Runs(b)' \/ (poll'[b] = "starting" /\ j # Main)) => conn'[j] # "none"
               /\ \A b \in Adapters : servedBy'[b] = j /\ Runs(b)' => \E i \in 1..Len(entered'[j]) : entered'[j][i] = b
    <3>1. j \in Ids \ overlapped
      BY <1>1, <2>3
    <3>2. CASE j # id
      <4>1. entered'[j] = entered[j] /\ \A b \in Adapters : servedBy[b] = j => b # a /\ poll'[b] = poll[b]
        BY <1>5, <3>2 DEF id
      <4>2. conn[j] # "none" => conn'[j] # "none"
        BY <1>5
      <4>3. /\ Len(entered[j]) <= 1
            /\ \A x, b \in StartsOf(j) : x = b
            /\ StartsOf(j) # {} => entered[j] = <<>>
            /\ \A b \in Adapters :
                 servedBy[b] = j /\ (Runs(b) \/ (poll[b] = "starting" /\ j # Main)) => conn[j] # "none"
            /\ \A b \in Adapters : servedBy[b] = j /\ Runs(b) => \E i \in 1..Len(entered[j]) : entered[j][i] = b
        BY <3>1 DEF ConnInv, UntouchedIsExact
      <4>4. servedBy' = servedBy /\ StartsOf(j)' \subseteq StartsOf(j)
        BY <1>1, <2>2
      <4> QED
        BY <2>1, <4>1, <4>2, <4>3, <4>4
    <3>3. CASE j = id
      <4>1. entered[j] = <<>> /\ \A x, b \in StartsOf(j) : x = b
        BY <2>2, <3>1, <3>3 DEF ConnInv, UntouchedIsExact
      <4>2. entered'[j] = after /\ Len(after) <= 1
        <5>1. entered[id] = <<>>
          BY <3>3, <4>1
        <5>2. entered'[j] = after
          BY <1>5, <3>3
        <5> QED
          BY <1>3, <5>1, <5>2
      <4>3. StartsOf(j)' = {}
        BY <2>2, <3>3, <4>1
      <4>4. \A b \in Adapters : servedBy[b] = j /\ Runs(b) => FALSE
        <5>1. Len(entered[j]) = 0
          BY <4>1
        <5> QED
          BY <3>1, <5>1 DEF ConnInv, UntouchedIsExact
      <4>5. \A b \in Adapters : servedBy[b] = j /\ poll'[b] = "starting" => b \in StartsOf(j)'
        BY <1>1 DEF StartsOf
      <4>6. id = Main \/ conn[id] # "none"
        BY <1>1, <3>1, <3>3 DEF ConnInv, UntouchedIsExact, id
      <4>7. conn'[j] # "none"
        BY <1>5, <3>3, <4>6
      <4>8. \E i \in 1..Len(after) : after[i] = a
        BY <1>3
      <4>9. \A b \in Adapters : servedBy[b] = j /\ Runs(b)' => b = a
        BY <2>1, <4>4
      <4> QED
        BY <1>1, <4>2, <4>3, <4>5, <4>7, <4>8, <4>9
    <3> QED
      BY <3>2, <3>3
  <2> QED
    BY <2>3 DEF UntouchedIsExact
<1> QED
  BY <1>6, <1>7, <1>8, <1>9, <1>10 DEF ConnInv

\* An adapter stops, pauses, or asks its bot again.
LEMMA QuietOK ==
  ASSUME ConnInv, NEW a \in Adapters, NEW s \in {"polling", "waiting", "off"},
         poll[a] \in {"starting", "polling", "waiting"}, poll[a] = "starting" => s = "off",
         poll' = [poll EXCEPT ![a] = s],
         UNCHANGED <<conn, entered, overlapped, wired, todo, servedBy, stopSignal>>,
         booting' \in {NoAdapter, booting}
  PROVE  /\ EnteredWereStarted' /\ MainAloneAtFirst' /\ UntouchedIsExact'
         /\ poll' \in [Adapters -> Polls] /\ booting' \in Adapters \cup {NoAdapter}
         /\ \A b \in Adapters : poll'[b] = IF b = a THEN s ELSE poll[b]
<1>1. poll \in [Adapters -> Polls] /\ booting \in Adapters \cup {NoAdapter}
  BY DEF ConnInv, ConnTypes
<1>2. \A b \in Adapters : poll'[b] = IF b = a THEN s ELSE poll[b]
  BY <1>1
<1>3. poll' \in [Adapters -> Polls]
  BY <1>1 DEF Polls
<1> QED
  BY <1>1, <1>2, <1>3, RunningStays

\* A start that fails leaves no adapter running.
LEMMA StartFailsOK == ASSUME ConnInv, NEW a \in Adapters, StartFails(a) PROVE ConnInv'
<1>1. /\ poll[a] = "starting" /\ poll' = [poll EXCEPT ![a] = "off"] /\ booting' \in {NoAdapter, booting}
      /\ UNCHANGED <<conn, entered, overlapped, wired, todo, servedBy, stopSignal, offset, sent,
                     confirmed, handled>>
  BY DEF StartFails, routes, telegram
<1>2. /\ EnteredWereStarted' /\ MainAloneAtFirst' /\ UntouchedIsExact'
      /\ poll' \in [Adapters -> Polls] /\ booting' \in Adapters \cup {NoAdapter}
      /\ \A b \in Adapters : poll'[b] = IF b = a THEN "off" ELSE poll[b]
  BY <1>1, QuietOK
<1>3. ConnTypes'
  BY <1>1, <1>2 DEF ConnInv, ConnTypes
<1>4. OffsetsAreHandled'
  BY <1>1, <1>2, <1>3, OffsetsStay DEF ConnTypes
<1> QED
  BY <1>2, <1>3, <1>4 DEF ConnInv

\* getUpdates with the offset that was reached: what it confirms has been handled.
LEMMA AskedOK ==
  ASSUME ConnInv, NEW a \in Adapters, poll[a] \in {"polling", "waiting"}, NextPoll(a, offset[a]),
         UNCHANGED <<conn, entered, overlapped, wired, todo, booting, servedBy, stopSignal, sent, handled>>
  PROVE  ConnInv'
<1> DEFINE id == servedBy[a]
<1>1. /\ poll' = [poll EXCEPT ![a] = "off"] \/ poll' = [poll EXCEPT ![a] = "polling"]
      /\ offset' = offset
      /\ \/ confirmed' = confirmed
         \/ offset[a] - 1 > confirmed[id] /\ confirmed' = [confirmed EXCEPT ![id] = offset[a] - 1]
  BY DEF NextPoll, ConnInv, ConnTypes
<1>2. /\ EnteredWereStarted' /\ MainAloneAtFirst' /\ UntouchedIsExact'
      /\ poll' \in [Adapters -> Polls] /\ booting' \in Adapters \cup {NoAdapter}
      /\ \A b \in Adapters : b # a => poll'[b] = poll[b]
      /\ poll'[a] \in {"off", "polling"}
  BY <1>1, QuietOK
<1>3. /\ id \in Ids /\ confirmed \in [Ids -> 0..MaxSent] /\ sent \in [Ids -> 0..MaxSent]
      /\ offset \in [Adapters -> 0..MaxSent + 1] /\ confirmed[id] \in Nat /\ sent[id] \in Nat
      /\ offset[a] \in Nat
      /\ MaxSent \in Nat /\ sent[id] <= MaxSent
  BY ConnectionsAssumption DEF ConnInv, ConnTypes
<1>4. offset[a] <= sent[id] + 1 /\ \A u \in Updates : u < offset[a] => handled[id][u] >= 1
  BY DEF ConnInv, OffsetsAreHandled
<1> HIDE DEF id
<1>5. /\ confirmed' \in [Ids -> 0..MaxSent]
      /\ \A j \in Ids : confirmed'[j] = confirmed[j] \/ (j = id /\ confirmed'[j] = offset[a] - 1)
  <2>1. CASE confirmed' = confirmed
    BY <1>3, <2>1
  <2>2. CASE offset[a] - 1 > confirmed[id] /\ confirmed' = [confirmed EXCEPT ![id] = offset[a] - 1]
    <3>1. offset[a] - 1 \in 0..MaxSent
      BY <1>3, <1>4, <2>2
    <3> QED
      BY <1>3, <2>2, <3>1
  <2> QED
    BY <1>1, <2>1, <2>2 DEF id
<1>6. ConnTypes'
  BY <1>1, <1>2, <1>5 DEF ConnInv, ConnTypes
<1>7. ASSUME NEW j \in Ids
      PROVE  /\ confirmed'[j] <= sent[j]
             /\ \A u \in Updates : u <= confirmed'[j] => handled[j][u] >= 1
  <2>1. CASE confirmed'[j] = confirmed[j]
    BY <2>1 DEF ConnInv, OffsetsAreHandled
  <2>2. CASE j = id /\ confirmed'[j] = offset[a] - 1
    <3>1. \A u \in Updates : u <= offset[a] - 1 => u < offset[a]
      BY <1>3, UpdatesAreNumbers
    <3> QED
      BY <1>3, <1>4, <2>2, <3>1
  <2> QED
    BY <1>5, <2>1, <2>2
<1>8. ASSUME NEW j \in Ids, NEW u \in Updates PROVE Past(j, u)' = Past(j, u)
  BY <1>1 DEF Past
<1>9. OffsetsAreHandled'
  BY <1>1, <1>2, <1>7, <1>8 DEF ConnInv, OffsetsAreHandled
<1> QED
  BY <1>2, <1>6, <1>9 DEF ConnInv

\* A batch is handled once by the adapter that received it, which then asks behind it.
LEMMA ReceiveOK == ASSUME ConnInv, NEW a \in Adapters, Receive(a) PROVE ConnInv'
<1> DEFINE id == servedBy[a]
           new == {u \in Updates : u > confirmed[id] /\ u >= offset[a] /\ u <= sent[id]}
           h == [u \in Updates |-> IF u \in new THEN handled[id][u] + 1 ELSE handled[id][u]]
           top == sent[id] + 1
<1>1. /\ poll[a] = "polling" /\ new # {} /\ handled' = [handled EXCEPT ![id] = h]
      /\ offset' = [offset EXCEPT ![a] = top]
      /\ poll' = [poll EXCEPT ![a] = "off"] \/ poll' = [poll EXCEPT ![a] = "polling"]
      /\ \/ confirmed' = confirmed
         \/ confirmed' = [confirmed EXCEPT ![id] = top - 1]
      /\ UNCHANGED <<conn, entered, overlapped, wired, todo, booting, servedBy, stopSignal, sent>>
  BY DEF Receive, NextPoll, routes, startup
<1>2. /\ EnteredWereStarted' /\ MainAloneAtFirst' /\ UntouchedIsExact'
      /\ poll' \in [Adapters -> Polls] /\ booting' \in Adapters \cup {NoAdapter}
      /\ \A b \in Adapters : b # a => poll'[b] = poll[b]
      /\ poll'[a] \in {"off", "polling"}
  BY <1>1, QuietOK
<1>3. /\ id \in Ids /\ confirmed \in [Ids -> 0..MaxSent] /\ sent \in [Ids -> 0..MaxSent]
      /\ offset \in [Adapters -> 0..MaxSent + 1] /\ handled \in [Ids -> [Updates -> Nat]]
      /\ servedBy \in [Adapters -> Ids]
      /\ confirmed[id] \in Nat /\ sent[id] \in Nat /\ offset[a] \in Nat /\ MaxSent \in Nat
      /\ sent[id] <= MaxSent
  BY ConnectionsAssumption DEF ConnInv, ConnTypes
<1>4. /\ offset[a] <= sent[id] + 1 /\ \A u \in Updates : u < offset[a] => handled[id][u] >= 1
      /\ confirmed[id] <= sent[id] /\ \A u \in Updates : u <= confirmed[id] => handled[id][u] >= 1
  BY <1>3 DEF ConnInv, OffsetsAreHandled
<1>5. h \in [Updates -> Nat] /\ \A u \in Updates : h[u] = IF u \in new THEN handled[id][u] + 1 ELSE handled[id][u]
  BY <1>3
<1>6. \A u \in Updates : u \in new <=> u > confirmed[id] /\ u >= offset[a] /\ u <= sent[id]
  OBVIOUS
<1>7. top \in 0..MaxSent + 1 /\ top - 1 \in 0..MaxSent /\ top - 1 = sent[id] /\ top = sent[id] + 1 /\ top \in Nat
  BY <1>3
<1> HIDE DEF h, new, top
<1>8. \A u \in Updates : u <= sent[id] => h[u] >= 1
  <2> TAKE u \in Updates
  <2>1. handled[id][u] \in Nat /\ u \in Nat
    BY <1>3, UpdatesAreNumbers
  <2> QED
    BY <1>3, <1>4, <1>5, <1>6, <2>1
<1>9. /\ \A j \in Ids : handled'[j] = IF j = id THEN h ELSE handled[j]
      /\ handled' \in [Ids -> [Updates -> Nat]]
      /\ \A b \in Adapters : offset'[b] = IF b = a THEN top ELSE offset[b]
      /\ offset' \in [Adapters -> 0..MaxSent + 1]
      /\ confirmed' \in [Ids -> 0..MaxSent]
      /\ \A j \in Ids : confirmed'[j] = confirmed[j] \/ (j = id /\ confirmed'[j] = sent[id])
  <2>1. handled' \in [Ids -> [Updates -> Nat]] /\ \A j \in Ids : handled'[j] = IF j = id THEN h ELSE handled[j]
    BY <1>1, <1>3, <1>5
  <2>2. offset' \in [Adapters -> 0..MaxSent + 1] /\ \A b \in Adapters : offset'[b] = IF b = a THEN top ELSE offset[b]
    BY <1>1, <1>3, <1>7
  <2>3. confirmed' \in [Ids -> 0..MaxSent]
        /\ \A j \in Ids : confirmed'[j] = confirmed[j] \/ (j = id /\ confirmed'[j] = sent[id])
    BY <1>1, <1>3, <1>7
  <2> QED
    BY <2>1, <2>2, <2>3
<1> HIDE DEF id
<1>10. ConnTypes'
  BY <1>1, <1>2, <1>9 DEF ConnInv, ConnTypes
<1>11. ASSUME NEW j \in Ids, NEW u \in Updates PROVE handled'[j][u] >= handled[j][u] /\ handled[j][u] \in Nat
  <2>1. handled[j][u] \in Nat
    BY <1>3
  <2>2. CASE j = id
    <3>1. handled'[j] = h
      BY <1>9, <2>2
    <3>2. handled'[j][u] = handled[j][u] + 1 \/ handled'[j][u] = handled[j][u]
      BY <1>5, <2>2, <3>1
    <3> QED
      BY <2>1, <3>2
  <2>3. CASE j # id
    BY <1>9, <2>1, <2>3
  <2> QED
    BY <2>1, <2>2, <2>3
<1>12. ASSUME NEW j \in Ids
       PROVE  /\ confirmed'[j] <= sent[j]
              /\ \A u \in Updates : u <= confirmed'[j] => handled'[j][u] >= 1
  <2>1. CASE confirmed'[j] = confirmed[j]
    <3>1. confirmed[j] <= sent[j] /\ \A u \in Updates : u <= confirmed[j] => handled[j][u] >= 1
      BY DEF ConnInv, OffsetsAreHandled
    <3>2. \A u \in Updates : handled'[j][u] \in Nat
      BY <1>9
    <3> QED
      BY <1>11, <2>1, <3>1, <3>2
  <2>2. CASE j = id /\ confirmed'[j] = sent[id]
    BY <1>3, <1>8, <1>9, <2>2
  <2> QED
    BY <1>9, <2>1, <2>2
<1>13. ASSUME NEW b \in Adapters
       PROVE  /\ poll'[b] \in {"new", "starting"} => offset'[b] = 0
              /\ offset'[b] <= sent[servedBy[b]] + 1
              /\ \A u \in Updates : u < offset'[b] => handled'[servedBy[b]][u] >= 1
  <2>1. CASE b = a
    <3>1. offset'[b] = sent[id] + 1 /\ servedBy[b] = id /\ handled'[id] = h
      BY <1>3, <1>7, <1>9, <2>1 DEF id
    <3>2. \A u \in Updates : u < sent[id] + 1 => u <= sent[id]
      BY <1>3, UpdatesAreNumbers
    <3>3. poll'[b] \notin {"new", "starting"}
      BY <1>2, <2>1
    <3> QED
      BY <1>3, <1>8, <3>1, <3>2, <3>3
  <2>2. CASE b # a
    <3>1. offset'[b] = offset[b] /\ poll'[b] = poll[b] /\ servedBy[b] \in Ids
      BY <1>2, <1>3, <1>9, <2>2
    <3>2. /\ poll[b] \in {"new", "starting"} => offset[b] = 0
          /\ offset[b] <= sent[servedBy[b]] + 1
          /\ \A u \in Updates : u < offset[b] => handled[servedBy[b]][u] >= 1
      BY DEF ConnInv, OffsetsAreHandled
    <3>3. \A u \in Updates : handled'[servedBy[b]][u] \in Nat
      BY <1>9, <3>1
    <3> QED
      BY <1>11, <3>1, <3>2, <3>3
  <2> QED
    BY <2>1, <2>2
<1>14. ASSUME NEW j \in Ids, NEW u \in Updates PROVE handled'[j][u] <= Cardinality(Past(j, u)')
  <2>1. handled[j][u] <= Cardinality(Past(j, u))
    BY DEF ConnInv, OffsetsAreHandled
  <2>2. /\ IsFiniteSet(Past(j, u)) /\ Cardinality(Past(j, u)) \in Nat
        /\ IsFiniteSet(Past(j, u)') /\ Cardinality(Past(j, u)') \in Nat
    <3>1. Past(j, u)' \subseteq Adapters
      BY DEF Past
    <3>2. IsFiniteSet(Past(j, u)')
      BY <3>1, ConnectionsAssumption, FS_Subset
    <3> QED
      BY <3>2, PastIsFinite, FS_CardinalityType
  <2>3. Past(j, u) \subseteq Past(j, u)'
    <3>1. ASSUME NEW b \in Past(j, u) PROVE b \in Past(j, u)'
      <4>1. b \in Adapters /\ servedBy[b] = j /\ offset[b] > u
        BY DEF Past
      <4>2. CASE b # a
        BY <1>1, <1>9, <4>1, <4>2 DEF Past
      <4>3. CASE b = a
        <5>1. offset'[b] = sent[id] + 1
          BY <1>7, <1>9, <4>3
        <5>2. offset'[b] > u
          BY <1>3, <1>4, <4>1, <4>3, <5>1, UpdatesAreNumbers
        <5> QED
          BY <1>1, <4>1, <5>2 DEF Past
      <4> QED
        BY <4>2, <4>3
    <3> QED
      BY <3>1
  <2>4. Cardinality(Past(j, u)) <= Cardinality(Past(j, u)')
    BY <2>2, <2>3, FS_Subset
  <2>5. CASE j = id /\ u \in new
    <3>1. handled'[j][u] = handled[j][u] + 1
      BY <1>3, <1>5, <1>9, <2>5
    <3>2. a \notin Past(j, u)
      BY <1>3, <1>6, <2>5, UpdatesAreNumbers DEF Past
    <3>3. a \in Past(j, u)'
      <4>1. offset'[a] = sent[id] + 1 /\ u <= sent[id] /\ u \in Nat
        BY <1>6, <1>7, <1>9, <2>5, UpdatesAreNumbers
      <4> QED
        BY <1>1, <1>3, <2>5, <4>1 DEF Past, id
    <3>4. Past(j, u) \cup {a} \subseteq Past(j, u)' /\ Cardinality(Past(j, u) \cup {a}) = Cardinality(Past(j, u)) + 1
      BY <2>2, <2>3, <3>2, <3>3, FS_AddElement
    <3>5. Cardinality(Past(j, u) \cup {a}) <= Cardinality(Past(j, u)')
      BY <2>2, <3>4, FS_Subset
    <3> QED
      BY <1>11, <2>1, <2>2, <3>1, <3>4, <3>5
  <2>6. CASE ~(j = id /\ u \in new)
    <3>1. handled'[j][u] = handled[j][u]
      BY <1>3, <1>5, <1>9, <2>6
    <3> QED
      BY <1>11, <2>1, <2>2, <2>4, <3>1
  <2> QED
    BY <2>5, <2>6
<1>15. OffsetsAreHandled'
  BY <1>1, <1>12, <1>13, <1>14 DEF OffsetsAreHandled
<1> QED
  BY <1>2, <1>10, <1>15 DEF ConnInv

\* A restart loses adapters and not what Telegram keeps.
LEMMA RestartOK == ASSUME ConnInv, RestartAll PROVE ConnInv'
<1>1. /\ poll' = [a \in Adapters |-> IF poll[a] = "new" THEN "new" ELSE "off"]
      /\ entered' = [id \in Ids |-> <<>>] /\ wired' = FALSE /\ booting' = NoAdapter
      /\ todo' \subseteq {Main} /\ overlapped' = {}
      /\ UNCHANGED <<conn, servedBy, stopSignal, offset, sent, confirmed, handled>>
  BY DEF RestartAll, telegram
<1>2. \A a \in Adapters : poll'[a] \in {"new", "off"} /\ (poll'[a] = "new" <=> poll[a] = "new")
  BY <1>1
<1>3. \A id \in Ids : entered'[id] = <<>> /\ Len(entered'[id]) = 0
  BY <1>1
<1>4. ConnTypes'
  <2>1. <<>> \in Seq(Adapters)
    OBVIOUS
  <2>2. entered' \in [Ids -> Seq(Adapters)] /\ poll' \in [Adapters -> Polls]
    BY <1>1, <2>1 DEF Polls
  <2> QED
    BY <1>1, <2>2, ConnectionsAssumption DEF ConnInv, ConnTypes
<1>5. EnteredWereStarted'
  BY <1>1, <1>2, <1>3 DEF ConnInv, ConnTypes, EnteredWereStarted
<1>6. MainAloneAtFirst'
  BY <1>1, <1>2 DEF MainAloneAtFirst
<1>7. UntouchedIsExact'
  <2>1. \A id : StartsOf(id)' = {}
    BY <1>2 DEF StartsOf
  <2>2. \A a \in Adapters : ~ Runs(a)' /\ poll'[a] # "starting"
    BY <1>2 DEF Runs
  <2> QED
    BY <1>3, <2>1, <2>2 DEF UntouchedIsExact
<1>8. OffsetsAreHandled'
  BY <1>1, <1>2, OffsetsStay DEF ConnInv, ConnTypes
<1> QED
  BY <1>4, <1>5, <1>6, <1>7, <1>8 DEF ConnInv

\* Every step keeps the invariant.
LEMMA ConnStepOK == ConnInv /\ [ConnNext]_connVars => ConnInv'
<1> SUFFICES ASSUME ConnInv, [ConnNext]_connVars PROVE ConnInv'
  OBVIOUS
<1>1. ConnTypes
  BY DEF ConnInv
<1>2. CASE StartNext
  <2>1. PICK id \in todo :
          /\ todo' = todo \ {id}
          /\ IF conn[id] = "none"
               THEN UNCHANGED <<booting, entered, overlapped, servedBy, poll, stopSignal>>
               ELSE BeginStart(id, NewAdapter) /\ booting' = NewAdapter
    BY <1>2 DEF StartNext
  <2>2. UNCHANGED <<conn, wired, offset, sent, confirmed, handled>> /\ id \in Ids
    BY <1>1, <1>2 DEF StartNext, telegram, ConnTypes
  <2>3. CASE conn[id] = "none"
    <3>1. EnteredWereStarted' /\ OffsetsAreHandled'
      BY <2>1, <2>2, <2>3, <1>1, OffsetsStay DEF ConnInv, EnteredWereStarted, ConnTypes
    <3>2. MainAloneAtFirst' /\ ConnTypes'
      BY <2>1, <2>2, <2>3 DEF ConnInv, MainAloneAtFirst, ConnTypes
    <3>3. UntouchedIsExact'
      BY <2>1, <2>2, <2>3 DEF ConnInv, UntouchedIsExact, StartsOf, Runs
    <3> QED
      BY <3>1, <3>2, <3>3 DEF ConnInv
  <2>4. CASE conn[id] # "none"
    <3>1. NewAdapter \in Adapters
      BY <2>1, <2>4 DEF BeginStart, NewAdapter, Unused
    <3>2. ~wired => id = Main
      BY DEF ConnInv, MainAloneAtFirst
    <3> QED
      BY <2>1, <2>2, <2>4, <3>1, <3>2, BeginOK
  <2> QED
    BY <2>3, <2>4
<1>3. CASE Wire
  <2>1. /\ wired' = TRUE /\ todo' \subseteq Ids
        /\ UNCHANGED <<conn, entered, overlapped, booting, servedBy, poll, stopSignal, offset,
                       sent, confirmed, handled>>
    BY <1>3 DEF Wire, routes, adapterVars, telegram
  <2>2. EnteredWereStarted' /\ OffsetsAreHandled'
    BY <2>1, <1>1, OffsetsStay DEF ConnInv, EnteredWereStarted, ConnTypes
  <2>3. MainAloneAtFirst' /\ ConnTypes'
    BY <2>1 DEF ConnInv, MainAloneAtFirst, ConnTypes
  <2>4. UntouchedIsExact'
    BY <2>1 DEF ConnInv, UntouchedIsExact, StartsOf, Runs
  <2> QED
    BY <2>2, <2>3, <2>4 DEF ConnInv
<1>4. ASSUME NEW id \in Ids, Connect(id) PROVE ConnInv'
  <2>1. /\ wired /\ (id = Main \/ conn[id] # "none") /\ BeginStart(id, NewAdapter)
        /\ UNCHANGED <<conn, wired, todo, booting, offset, sent, confirmed, handled>>
    BY <1>4 DEF Connect, startup, telegram
  <2> QED
    BY <1>1, <2>1, BeginOK DEF ConnTypes
<1>5. ASSUME NEW id \in Ids, Disconnect(id) PROVE ConnInv'
  <2>1. /\ StopFirst(id) /\ (conn' = [conn EXCEPT ![id] = "none"] \/ conn' = [conn EXCEPT ![id] = "off"])
        /\ UNCHANGED <<wired, todo, booting, servedBy, poll, offset, sent, confirmed, handled>>
    BY <1>5 DEF Disconnect, startup, telegram
  <2> QED
    BY <2>1, StopOK
<1>6. ASSUME NEW id \in Ids, Remove(id) PROVE ConnInv'
  <2>1. /\ id # Main /\ conn' = [conn EXCEPT ![id] = "none"]
        /\ UNCHANGED <<wired, todo, booting, servedBy, poll, offset, sent, confirmed, handled>>
    BY <1>6 DEF Remove, startup, telegram
  <2>2. CASE wired
    BY <1>6, <2>1, <2>2, StopOK DEF Remove
  <2>3. CASE ~wired
    <3>1. UNCHANGED <<stopSignal, entered, overlapped>>
      BY <1>6, <2>3 DEF Remove
    <3>2. conn' \in [Ids -> {"none", "off", "on"}] /\ \A j \in Ids : j # id => conn'[j] = conn[j]
      BY <1>1, <2>1 DEF ConnTypes
    <3>3. EnteredWereStarted' /\ OffsetsAreHandled' /\ MainAloneAtFirst' /\ ConnTypes'
      <4>1. ConnTypes'
        BY <1>1, <2>1, <3>1, <3>2 DEF ConnTypes
      <4> QED
        BY <4>1, <1>1, <2>1, <3>1, OffsetsStay DEF ConnInv, EnteredWereStarted, MainAloneAtFirst,
           ConnTypes
    <3>4. \A a \in Adapters : servedBy[a] = id => ~ Runs(a) /\ poll[a] # "starting"
      BY <2>1, <2>3 DEF ConnInv, MainAloneAtFirst, Runs
    <3>5. \A j : StartsOf(j)' = StartsOf(j)
      BY <2>1 DEF StartsOf
    <3>6. \A a \in Adapters : Runs(a)' <=> Runs(a)
      BY <2>1, <3>1 DEF Runs
    <3>7. UntouchedIsExact'
      BY <2>1, <3>1, <3>2, <3>4, <3>5, <3>6 DEF ConnInv, UntouchedIsExact
    <3> QED
      BY <3>3, <3>7 DEF ConnInv
  <2> QED
    BY <2>2, <2>3
<1>7. ASSUME NEW id \in Ids, CreateConnection(id) PROVE ConnInv'
  <2>1. /\ conn' = [conn EXCEPT ![id] = "off"]
        /\ UNCHANGED <<entered, overlapped, wired, todo, booting, servedBy, poll, stopSignal,
                       offset, sent, confirmed, handled>>
    BY <1>7 DEF CreateConnection, startup, adapterVars, telegram
  <2>2. conn' \in [Ids -> {"none", "off", "on"}] /\ \A j \in Ids : conn[j] # "none" => conn'[j] # "none"
    BY <1>1, <2>1 DEF ConnTypes
  <2>3. EnteredWereStarted' /\ OffsetsAreHandled' /\ MainAloneAtFirst' /\ ConnTypes'
    <3>1. ConnTypes'
      BY <1>1, <2>1, <2>2 DEF ConnTypes
    <3> QED
      BY <3>1, <1>1, <2>1, OffsetsStay DEF ConnInv, EnteredWereStarted, MainAloneAtFirst,
         ConnTypes
  <2>4. \A j : StartsOf(j)' = StartsOf(j)
    BY <2>1 DEF StartsOf
  <2>5. \A a \in Adapters : Runs(a)' <=> Runs(a)
    BY <2>1 DEF Runs
  <2>6. UntouchedIsExact'
    BY <2>1, <2>2, <2>4, <2>5 DEF ConnInv, UntouchedIsExact
  <2> QED
    BY <2>3, <2>6 DEF ConnInv
<1>8. ASSUME NEW id \in Ids, Send(id) PROVE ConnInv'
  <2>1. /\ sent[id] < MaxSent /\ sent' = [sent EXCEPT ![id] = sent[id] + 1]
        /\ UNCHANGED <<conn, entered, overlapped, wired, todo, booting, servedBy, poll, stopSignal,
                       offset, confirmed, handled>>
    BY <1>8 DEF Send, routes, startup, adapterVars
  <2>2. sent' \in [Ids -> 0..MaxSent] /\ \A j \in Ids : sent[j] <= sent'[j] /\ sent[j] \in Nat /\ sent'[j] \in Nat
    BY <1>1, <2>1, ConnectionsAssumption DEF ConnTypes
  <2>3. EnteredWereStarted' /\ MainAloneAtFirst' /\ UntouchedIsExact' /\ ConnTypes'
    <3>1. ConnTypes'
      BY <1>1, <2>1, <2>2 DEF ConnTypes
    <3> QED
      BY <3>1, <2>1, RunningStays
  <2>4. OffsetsAreHandled'
    <3>1. ASSUME NEW a \in Adapters PROVE offset[a] <= sent'[servedBy[a]] + 1
      <4>1. offset[a] <= sent[servedBy[a]] + 1 /\ servedBy[a] \in Ids /\ offset[a] \in Nat
        BY <1>1 DEF ConnInv, OffsetsAreHandled, ConnTypes
      <4> QED
        BY <2>2, <4>1
    <3>2. ASSUME NEW j \in Ids PROVE confirmed[j] <= sent'[j]
      <4>1. confirmed[j] <= sent[j] /\ confirmed[j] \in Nat
        BY <1>1 DEF ConnInv, OffsetsAreHandled, ConnTypes
      <4> QED
        BY <2>2, <4>1
    <3>3. \A j, u : Past(j, u)' = Past(j, u)
      BY <2>1 DEF Past
    <3> QED
      BY <2>1, <3>1, <3>2, <3>3 DEF ConnInv, OffsetsAreHandled
  <2> QED
    BY <2>3, <2>4 DEF ConnInv
<1>9. ASSUME NEW a \in Adapters, ReceiveNothing(a) \/ Retry(a) PROVE ConnInv'
  <2>1. /\ poll[a] \in {"polling", "waiting"} /\ NextPoll(a, offset[a])
        /\ UNCHANGED <<conn, entered, overlapped, wired, todo, booting, servedBy, stopSignal, sent, handled>>
    BY <1>9 DEF ReceiveNothing, Retry, routes, startup
  <2> QED
    BY <2>1, AskedOK
<1>10. ASSUME NEW a \in Adapters, PollFails(a) PROVE ConnInv'
  <2>1. /\ poll[a] = "polling"
        /\ poll' = [poll EXCEPT ![a] = "off"] \/ poll' = [poll EXCEPT ![a] = "waiting"]
        /\ UNCHANGED <<conn, entered, overlapped, wired, todo, booting, servedBy, stopSignal,
                       offset, sent, confirmed, handled>>
    BY <1>10 DEF PollFails, routes, startup, telegram
  <2>2. /\ EnteredWereStarted' /\ MainAloneAtFirst' /\ UntouchedIsExact'
        /\ poll' \in [Adapters -> Polls] /\ booting' \in Adapters \cup {NoAdapter}
        /\ \A b \in Adapters : poll'[b] \in {"new", "starting"} => poll[b] \in {"new", "starting"}
    BY <2>1, QuietOK
  <2>3. ConnTypes' /\ OffsetsAreHandled'
    <3>1. ConnTypes'
      BY <1>1, <2>1, <2>2 DEF ConnTypes
    <3> QED
      BY <1>1, <3>1, <2>1, <2>2, OffsetsStay DEF ConnTypes
  <2> QED
    BY <2>2, <2>3 DEF ConnInv
<1>11. CASE UNCHANGED connVars
  <2>1. UNCHANGED <<conn, entered, overlapped, wired, todo, booting, servedBy, poll, stopSignal,
                    offset, sent, confirmed, handled>>
    BY <1>11 DEF connVars, routes, startup, adapterVars, telegram
  <2>2. EnteredWereStarted' /\ MainAloneAtFirst' /\ UntouchedIsExact' /\ ConnTypes' /\ OffsetsAreHandled'
    BY <1>1, <2>1, RunningStays, OffsetsStay DEF ConnTypes
  <2> QED
    BY <2>2 DEF ConnInv
<1> QED
  BY <1>2, <1>3, <1>4, <1>5, <1>6, <1>7, <1>8, <1>9, <1>10, <1>11, RestartOK, StartedOK,
     StartFailsOK, ReceiveOK
  DEF ConnNext

\* Adapters, connections and offsets agree, whatever is started, stopped and removed meanwhile.
THEOREM ConnInvariance == ConnSpec => []ConnInv
<1> QED
  BY ConnInitOK, ConnStepOK, PTL DEF ConnSpec

\* What the invariant says in the words of the run.
LEMMA ConnIsSafe == ConnInv => ConnTypeOK /\ RunningIsListed /\ EachUpdateOncePerAdapter
<1> SUFFICES ASSUME ConnInv PROVE ConnTypeOK /\ RunningIsListed /\ EachUpdateOncePerAdapter
  OBVIOUS
<1>1. ConnTypeOK
  BY DEF ConnInv, ConnTypes, EnteredWereStarted, OffsetsAreHandled, ConnTypeOK, Polls
<1>2. RunningIsListed
  <2>1. ASSUME NEW a \in Adapters, Runs(a), servedBy[a] \notin overlapped
        PROVE  a \in Range(entered[servedBy[a]]) /\ conn[servedBy[a]] # "none"
    <3>1. servedBy[a] \in Ids \ overlapped /\ entered[servedBy[a]] \in Seq(Adapters)
      BY <2>1 DEF ConnInv, ConnTypes
    <3>2. conn[servedBy[a]] # "none" /\ \E i \in 1..Len(entered[servedBy[a]]) : entered[servedBy[a]][i] = a
      BY <2>1, <3>1 DEF ConnInv, UntouchedIsExact
    <3>3. DOMAIN entered[servedBy[a]] = 1..Len(entered[servedBy[a]])
      BY <3>1
    <3> QED
      BY <3>2, <3>3 DEF Range
  <2> QED
    BY <2>1 DEF RunningIsListed, Runs
<1>3. EachUpdateOncePerAdapter
  <2>1. ASSUME NEW id \in Ids, NEW u \in Updates
        PROVE  handled[id][u] <= Cardinality({a \in Adapters : poll[a] # "new" /\ servedBy[a] = id})
    <3> DEFINE S == {a \in Adapters : poll[a] # "new" /\ servedBy[a] = id}
    <3>1. IsFiniteSet(S)
      <4>1. S \subseteq Adapters
        OBVIOUS
      <4> QED
        BY <4>1, ConnectionsAssumption, FS_Subset
    <3>2. ASSUME NEW a \in Past(id, u) PROVE a \in S
      <4>1. offset[a] # 0
        BY UpdatesAreNumbers DEF Past, ConnInv, ConnTypes
      <4> QED
        BY <4>1 DEF Past, ConnInv, OffsetsAreHandled
    <3>3. Past(id, u) \subseteq S
      BY <3>2
    <3> HIDE DEF S
    <3>4. Cardinality(Past(id, u)) <= Cardinality(S) /\ Cardinality(S) \in Nat /\ Cardinality(Past(id, u)) \in Nat
      BY <3>1, <3>3, FS_Subset, FS_CardinalityType, PastIsFinite
    <3>5. handled[id][u] <= Cardinality(Past(id, u)) /\ handled[id][u] \in Nat
      BY DEF ConnInv, OffsetsAreHandled, ConnTypes
    <3>6. handled[id][u] <= Cardinality(S)
      BY <3>4, <3>5
    <3> QED
      BY <3>6 DEF S
  <2> QED
    BY <2>1 DEF ConnInv, OffsetsAreHandled, EachUpdateOncePerAdapter
<1> QED
  BY <1>1, <1>2, <1>3

----------------------------------------------------------------------------
(***************************************************************************)
(* The link to Discord. Timers outlive their sockets, so the invariant     *)
(* says which intervals there are and which of them is held.               *)
(***************************************************************************)

Truths ==
  /\ running \in BOOLEAN /\ stopping \in BOOLEAN /\ retry \in BOOLEAN /\ session \in BOOLEAN
  /\ valid \in BOOLEAN /\ resumes \in BOOLEAN /\ late \in BOOLEAN /\ held \in BOOLEAN
  /\ crossed \in BOOLEAN
SocketAndCounts == socket \in Live \cup {"none"} /\ closers \in 0..2 /\ firsts \in 0..2 /\ beats \in 0..2

\* What StoppedIsSilent adds to itself: a stopped adapter stays without a socket; while no
\* change of the link crossed a first heartbeat, the intervals are the one that is held,
\* which only an adapter that runs has or waits for.
SocketOfTheRunning ==
  /\ running => ~stopping /\ (socket \in Live \/ retry)
  /\ ~running => socket = "none"
  /\ ~running /\ ~stopping => ~retry
IntervalsAreHeld ==
  /\ held => beats >= 1
  /\ ~crossed => /\ held => beats = 1
                 /\ ~held => beats = 0
                 /\ firsts <= 1
                 /\ firsts = 1 => ~held
                 /\ ~running => firsts = 0 /\ ~held

LinkInv == Truths /\ SocketAndCounts /\ SocketOfTheRunning /\ IntervalsAreHeld

\* The invariant holds before the adapter is started.
LEMMA LinkInitOK == LinkInit => LinkInv
<1> SUFFICES ASSUME LinkInit PROVE LinkInv
  OBVIOUS
<1> USE DEF LinkInit
<1>1. Truths
  BY DEF Truths
<1>2. SocketAndCounts
  BY DEF SocketAndCounts, Live
<1>3. SocketOfTheRunning
  BY DEF SocketOfTheRunning, Live
<1>4. IntervalsAreHeld
  BY DEF IntervalsAreHeld
<1> QED
  BY <1>1, <1>2, <1>3, <1>4 DEF LinkInv

\* After clearHeartbeat() no interval is held; one that is left was crossed.
LEMMA Cleared ==
  ASSUME LinkInv, ClearHeartbeat
  PROVE  /\ ~held' /\ held' \in BOOLEAN /\ crossed' \in BOOLEAN /\ beats' \in 0..2
         /\ ~crossed' => ~crossed /\ firsts = 0 /\ beats' = 0
<1>1. held' = FALSE /\ crossed' = (crossed \/ firsts > 0)
  BY DEF ClearHeartbeat
<1>2. beats' \in 0..2 /\ (~crossed => beats' = 0)
  BY DEF ClearHeartbeat, LinkInv, Truths, SocketAndCounts, IntervalsAreHeld
<1>3. crossed' \in BOOLEAN /\ (~crossed' => ~crossed /\ ~(firsts > 0))
  BY <1>1
<1>4. ~(firsts > 0) => firsts = 0
  BY DEF LinkInv, SocketAndCounts
<1> QED
  BY <1>1, <1>2, <1>3, <1>4

\* Counters are cut off at two.
LEMMA UpInRange == \A n \in 0..2 : Up(n) \in 1..2 /\ (n <= 1 => Up(n) = n + 1)
  BY DEF Up

\* Every event of the link and every timer keeps it.
LEMMA LinkStepOK == LinkInv /\ [LinkNext]_linkVars => LinkInv'
<1> SUFFICES ASSUME LinkInv, [LinkNext]_linkVars PROVE LinkInv'
  OBVIOUS
<1> USE DEF LinkInv, Truths, SocketAndCounts, SocketOfTheRunning, IntervalsAreHeld, Live
<1>1. CASE LinkStop
  <2>1. /\ running /\ stopping' /\ ~running' /\ stopping' \in BOOLEAN /\ running' \in BOOLEAN
        /\ ClearHeartbeat
        /\ socket' = "none" /\ late' = (socket \in Live)
        /\ UNCHANGED <<retry, session, valid, resumes, closers, firsts>>
    BY <1>1 DEF LinkStop, sessions
  <2>5. late' \in BOOLEAN
    <3>1. (socket \in Live) \in BOOLEAN
      OBVIOUS
    <3> QED
      BY <2>1, <3>1
  <2>2. Truths' /\ SocketAndCounts'
    BY <2>1, <2>5, Cleared
  <2>3. SocketOfTheRunning'
    BY <2>1
  <2>4. IntervalsAreHeld'
    BY <2>1, Cleared
  <2> QED
    BY <2>2, <2>3, <2>4
<1>2. CASE Hello
  <2>1. /\ socket = "connecting" /\ socket' = "open" /\ resumes' = session /\ ClearHeartbeat
        /\ firsts' = Up(firsts)
        /\ UNCHANGED <<running, stopping, retry, session, valid, closers, late>>
    BY <1>2 DEF Hello, flags
  <2>2. running
    BY <2>1
  <2> QED
    BY <2>1, <2>2, Cleared, UpInRange
<1>3. CASE Ready
  BY <1>3 DEF Ready, flags, hearts
<1>4. CASE CloserFires
  BY <1>4 DEF CloserFires, flags, sessions, hearts
<1>5. CASE Reconnect
  BY <1>5 DEF Reconnect, flags, sessions, hearts, Greeted
<1>6. CASE LateClosed
  <2>1. ~late' /\ late' \in BOOLEAN /\ ClearHeartbeat
        /\ UNCHANGED <<socket, running, stopping, retry, session, valid, resumes, closers, firsts>>
    BY <1>6 DEF LateClosed, flags, sessions
  <2> QED
    BY <2>1, Cleared
<1>7. CASE RetryFires
  BY <1>7 DEF RetryFires, flags, sessions, hearts
<1>8. CASE FirstBeat
  BY <1>8, UpInRange DEF FirstBeat, flags, sessions
<1>9. CASE SessionDies
  BY <1>9 DEF SessionDies, flags, hearts
<1>10. ASSUME NEW b \in BOOLEAN, Invalid(b) PROVE LinkInv'
  <2>1. /\ socket = "open" /\ socket' = "refused" /\ session' \in BOOLEAN /\ closers' = Up(closers)
        /\ UNCHANGED <<running, stopping, retry, valid, resumes, late, firsts, held, beats, crossed>>
    BY <1>10 DEF Invalid, flags, hearts
  <2> QED
    BY <2>1, UpInRange
<1>11. ASSUME NEW b \in BOOLEAN, Closed(b) PROVE LinkInv'
  <2>1. /\ socket \in Live /\ socket' = "none" /\ ClearHeartbeat /\ running' = ~b /\ retry' = ~b
        /\ UNCHANGED <<stopping, session, valid, resumes, closers, late, firsts>>
    BY <1>11 DEF Closed, sessions
  <2>2. ~stopping
    BY <2>1
  <2> QED
    BY <2>1, <2>2, Cleared
<1>12. CASE UNCHANGED linkVars
  BY <1>12 DEF linkVars, flags, sessions, hearts
<1> QED
  BY <1>1, <1>2, <1>3, <1>4, <1>5, <1>6, <1>7, <1>8, <1>9, <1>10, <1>11, <1>12 DEF LinkNext

\* A stopped adapter has no socket, and its intervals are the one it holds.
THEOREM LinkInvariance == LinkSpec => []LinkInv
<1> QED
  BY LinkInitOK, LinkStepOK, PTL DEF LinkSpec

\* After a stop the link to Discord sends nothing any more, unless a change of the link crossed a
\* first heartbeat (stop of discord-adapter.ts).
THEOREM StopsSilently == LinkSpec => []StoppedIsSilent
<1>1. LinkInv => StoppedIsSilent
  BY DEF LinkInv, SocketOfTheRunning, IntervalsAreHeld, SocketAndCounts, Truths, StoppedIsSilent
<1> QED
  BY <1>1, LinkInvariance, PTL

----------------------------------------------------------------------------
(* The adapters of both messengers. *)

\* The invariants hold of the part that moves, and of the parts that do not.
LEMMA AdaptersInvariance == MCSpec => [](ConnInv /\ LinkInv)
<1>1. MCInit => ConnInv /\ LinkInv
  BY ConnInitOK, LinkInitOK DEF MCInit
<1>2. [MCNext]_partVars => [ConnNext]_connVars /\ [LinkNext]_linkVars
  BY DEF MCNext, partVars
<1> QED
  BY <1>1, <1>2, ConnStepOK, LinkStepOK, PTL DEF MCSpec

\* What the invariant of the link says in the words of the run.
LEMMA LinkIsSafe == LinkInv => LinkTypeOK /\ StoppedIsSilent
<1> SUFFICES ASSUME LinkInv PROVE LinkTypeOK /\ StoppedIsSilent
  OBVIOUS
<1>1. LinkTypeOK
  BY DEF LinkInv, Truths, SocketAndCounts, LinkTypeOK
<1>2. StoppedIsSilent
  BY DEF LinkInv, SocketOfTheRunning, IntervalsAreHeld, SocketAndCounts, Truths, StoppedIsSilent
<1> QED
  BY <1>1, <1>2

\* Whatever is started, stopped, removed and restarted around polls, a Telegram adapter that
\* runs is known and handles no update twice (messaging-manager.ts, telegram-adapter.ts), and
\* a stopped link to Discord is silent.
THEOREM AdaptersAreExact == MCSpec => []AdaptersExact
BY AdaptersInvariance, ConnIsSafe, LinkIsSafe, PTL DEF AdaptersExact

=============================================================================
