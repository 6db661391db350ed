----------------------------- MODULE PagesProofs ----------------------------
(***************************************************************************)
(* What the pages of the dashboard show and what the commands reach. A     *)
(* socket, a stream or an answer may outlive what it belongs to, so the    *)
(* invariants say which of them are still to be heard of; a PID file has   *)
(* many writers, so it says which process may still write it.              *)
(***************************************************************************)
EXTENDS MCPages, TLAPS

----------------------------------------------------------------------------
(* The chat client. *)

\* A socket whose acceptance is on its way is one the gateway has admitted.
AcceptedAreAdmitted == \A s \in Socks : <<s, TRUE>> \in results => s \in admitted

ChatInv == ChatTypeOK /\ ReadyIsTrue /\ PendingIsShown /\ AcceptedAreAdmitted

\* The invariant holds of a page that has just been loaded.
LEMMA ChatStarts == ChatInit => ChatInv
BY ChatClientAssumption
   DEF ChatInit, ChatInv, ChatTypeOK, ReadyIsTrue, PendingIsShown, AcceptedAreAdmitted

\* The close of a socket keeps it: the page is shown as disconnected, whichever socket it was.
LEMMA SocketClosedOK ==
  ASSUME ChatInv, NEW s \in Socks, SocketClosed(s)
  PROVE  ChatInv'
<1>1. ChatTypeOK'
  BY ChatClientAssumption DEF ChatInv, ChatTypeOK, SocketClosed, Forgotten, SetChatState
<1>2. ReadyIsTrue'
  BY DEF ReadyIsTrue, SocketClosed, SetChatState
<1>3. PendingIsShown'
  BY ChatClientAssumption DEF ChatInv, ChatTypeOK, PendingIsShown, SocketClosed, Forgotten
<1>4. AcceptedAreAdmitted'
  BY DEF ChatInv, AcceptedAreAdmitted, SocketClosed, Forgotten
<1> QED BY <1>1, <1>2, <1>3, <1>4 DEF ChatInv

\* CONNECT opens one more socket and admits none.
LEMMA ConnectOK ==
  ASSUME ChatInv, NEW good \in BOOLEAN, ChatConnect(good), bubble' \in BOOLEAN,
         timer' \in BOOLEAN, manual' \in BOOLEAN,
         UNCHANGED <<greeted, server, connected, approvals>>
  PROVE  ChatInv'
<1>1. PICK s \in Unborn :
        /\ chatWs' = s /\ ready' = [ready EXCEPT ![s] = "connecting"]
        /\ token' = [token EXCEPT ![s] = good] /\ SetChatState("connecting")
  BY DEF ChatConnect
<1> s \in Socks BY DEF Unborn
<1>2. ChatTypeOK'
  BY <1>1 DEF ChatInv, ChatTypeOK, SetChatState, server, approvals
<1>3. ReadyIsTrue' /\ PendingIsShown' /\ AcceptedAreAdmitted'
  BY <1>1 DEF ChatInv, ReadyIsTrue, PendingIsShown, AcceptedAreAdmitted, SetChatState, server,
     approvals
<1> QED BY <1>2, <1>3 DEF ChatInv

\* What the gateway says on a socket keeps it.
LEMMA SocketStepsOK ==
  ASSUME ChatInv, NEW s \in Socks, SockStep(s) \/ Drop(s) \/ StreamStarts(s) \/ Reply(s)
  PROVE  ChatInv'
<1> USE DEF server, screen, bounds, approvals
<1>1. CASE Opened(s)
  <2>1. ChatTypeOK' BY <1>1 DEF ChatInv, ChatTypeOK, Opened, SetChatState
  <2>2. ReadyIsTrue' /\ PendingIsShown' /\ AcceptedAreAdmitted'
    BY <1>1 DEF ChatInv, ReadyIsTrue, PendingIsShown, AcceptedAreAdmitted, Opened, SetChatState
  <2> QED BY <2>1, <2>2 DEF ChatInv
<1>2. CASE Challenged(s)
  <2> USE <1>2
  <2>1. token[s] \in BOOLEAN BY DEF ChatInv, ChatTypeOK
  <2>2. IsOpen => chatWs \in Socks BY DEF ChatInv, ChatTypeOK, IsOpen
  <2>3. ChatTypeOK' BY <2>1, <2>2 DEF ChatInv, ChatTypeOK, Challenged
  <2>4. ReadyIsTrue' BY DEF ChatInv, ReadyIsTrue, Challenged
  <2>5. PendingIsShown' BY DEF ChatInv, PendingIsShown, Challenged
  <2>6. AcceptedAreAdmitted'
    <3> AcceptedAreAdmitted BY DEF ChatInv
    <3>1. CASE IsOpen /\ token[s]
      <4>1. results' = results \cup {<<chatWs, token[s]>>} /\ admitted' = admitted \cup {chatWs}
        BY <3>1 DEF Challenged
      <4> QED BY <4>1 DEF AcceptedAreAdmitted
    <3>2. CASE IsOpen /\ ~token[s]
      <4>1. results' = results \cup {<<chatWs, token[s]>>} /\ admitted' = admitted
        BY <3>2 DEF Challenged
      <4>2. \A u \in Socks : <<u, TRUE>> # <<chatWs, token[s]>> BY <3>2
      <4> QED BY <4>1, <4>2 DEF AcceptedAreAdmitted
    <3>3. CASE ~IsOpen BY <3>3 DEF Challenged, AcceptedAreAdmitted
    <3> QED BY <2>1, <3>1, <3>2, <3>3
  <2> QED BY <2>3, <2>4, <2>5, <2>6 DEF ChatInv
<1>3. CASE Accepted(s)
  <2>1. ChatTypeOK' BY <1>3 DEF ChatInv, ChatTypeOK, Accepted, SetChatState
  <2>2. s \in admitted BY <1>3 DEF ChatInv, AcceptedAreAdmitted, Accepted
  <2>3. ReadyIsTrue' BY <1>3, <2>2 DEF ReadyIsTrue, Accepted, SetChatState
  <2>4. PendingIsShown' /\ AcceptedAreAdmitted'
    BY <1>3 DEF ChatInv, PendingIsShown, AcceptedAreAdmitted, Accepted
  <2> QED BY <2>1, <2>3, <2>4 DEF ChatInv
<1>4. CASE Rejected(s)
  <2>1. ChatTypeOK'
    BY <1>4 DEF ChatInv, ChatTypeOK, Rejected, SetChatState, HasSock
  <2>2. ReadyIsTrue'
    <3>1. CASE chatWs = NoSock
      BY <1>4, <3>1 DEF ChatInv, ReadyIsTrue, Rejected, HasSock
    <3>2. CASE chatWs # NoSock
      BY <1>4, <3>2 DEF ReadyIsTrue, Rejected, SetChatState
    <3> QED BY <3>1, <3>2
  <2>3. PendingIsShown' /\ AcceptedAreAdmitted'
    BY <1>4 DEF ChatInv, PendingIsShown, AcceptedAreAdmitted, Rejected
  <2> QED BY <2>1, <2>2, <2>3 DEF ChatInv
<1>5. CASE CloseEnds(s) BY <1>5, SocketClosedOK DEF CloseEnds
<1>6. CASE Drop(s) BY <1>6, SocketClosedOK DEF Drop
<1>7. CASE StreamStarts(s)
  <2>1. ChatTypeOK' BY <1>7 DEF ChatInv, ChatTypeOK, StreamStarts
  <2>2. ReadyIsTrue' /\ PendingIsShown' /\ AcceptedAreAdmitted'
    BY <1>7 DEF ChatInv, ReadyIsTrue, PendingIsShown, AcceptedAreAdmitted, StreamStarts
  <2> QED BY <2>1, <2>2 DEF ChatInv
<1>8. CASE Reply(s)
  <2>1. ChatTypeOK' BY <1>8 DEF ChatInv, ChatTypeOK, Reply
  <2>2. ReadyIsTrue' /\ PendingIsShown' /\ AcceptedAreAdmitted'
    BY <1>8 DEF ChatInv, ReadyIsTrue, PendingIsShown, AcceptedAreAdmitted, Reply
  <2> QED BY <2>1, <2>2 DEF ChatInv
<1> QED BY <1>1, <1>2, <1>3, <1>4, <1>5, <1>6, <1>7, <1>8 DEF SockStep

\* So do requests, answers and their time-outs.
LEMMA CardStepsOK ==
  ASSUME ChatInv, NEW k \in Requests,
         Ask(k) \/ (\E s \in Socks : ShowCard(s, k)) \/ Respond(k) \/ RequestTimesOut(k) \/ CardTimesOut(k)
  PROVE  ChatInv'
<1> USE DEF server, screen, bounds, approvals, chatVars
<1>1. ChatTypeOK'
  <2>1. CASE Ask(k) BY <2>1 DEF ChatInv, ChatTypeOK, Ask
  <2>5. CASE \E s \in Socks : ShowCard(s, k) BY <2>5 DEF ChatInv, ChatTypeOK, ShowCard
  <2>2. CASE Respond(k) BY <2>2 DEF ChatInv, ChatTypeOK, Respond
  <2>3. CASE RequestTimesOut(k) BY <2>3 DEF ChatInv, ChatTypeOK, RequestTimesOut
  <2>4. CASE CardTimesOut(k) BY <2>4 DEF ChatInv, ChatTypeOK, CardTimesOut
  <2> QED BY <2>1, <2>2, <2>3, <2>4, <2>5
<1>2. ReadyIsTrue' /\ AcceptedAreAdmitted'
  BY DEF ChatInv, ReadyIsTrue, AcceptedAreAdmitted, Ask, ShowCard, Respond, RequestTimesOut, CardTimesOut
<1>3. PendingIsShown'
  <2> pending \in [Requests -> Socks \cup {NoSock}] BY DEF ChatInv, ChatTypeOK
  <2>1. CASE Ask(k)
    <3>1. PICK s \in admitted :
            pending' = [pending EXCEPT ![k] = s] /\ asked' = asked \cup {<<s, k>>}
      BY <2>1 DEF Ask
    <3>2. \A j \in Requests : pending'[j] = IF j = k THEN s ELSE pending[j] BY <3>1
    <3> QED BY <2>1, <3>1, <3>2 DEF ChatInv, PendingIsShown, Ask
  <2>5. CASE \E s \in Socks : ShowCard(s, k)
    <3>1. PICK s \in Socks : ShowCard(s, k) BY <2>5
    <3>2. ASSUME NEW j \in Requests, pending'[j] # NoSock
          PROVE  <<pending'[j], j>> \in asked' \/ j \in cards' \cup said'
      <4>1. <<pending[j], j>> \in asked \/ j \in cards \cup said
        BY <3>1, <3>2 DEF ChatInv, PendingIsShown, ShowCard
      <4>2. j # k => <<pending[j], j>> # <<s, k>> OBVIOUS
      <4> QED BY <3>1, <4>1, <4>2 DEF ShowCard
    <3> QED BY <3>2 DEF PendingIsShown
  <2>2. CASE Respond(k) BY <2>2 DEF ChatInv, PendingIsShown, Respond
  <2>3. CASE RequestTimesOut(k) BY <2>3 DEF ChatInv, PendingIsShown, RequestTimesOut
  <2>4. CASE CardTimesOut(k) BY <2>4 DEF ChatInv, PendingIsShown, CardTimesOut
  <2> QED BY <2>1, <2>2, <2>3, <2>4, <2>5
<1> QED BY <1>1, <1>2, <1>3 DEF ChatInv

\* Every step of the chat keeps it.
LEMMA ChatSteps == ChatInv /\ [ChatNext]_chatVars => ChatInv'
<1> SUFFICES ASSUME ChatInv, [ChatNext]_chatVars PROVE ChatInv' OBVIOUS
<1> USE DEF server, screen, bounds, approvals
<1>1. ASSUME NEW s \in Socks, SockStep(s) \/ Drop(s) \/ StreamStarts(s) \/ Reply(s) PROVE ChatInv'
  BY <1>1, SocketStepsOK
<1>2. ASSUME NEW k \in Requests,
             Ask(k) \/ (\E s \in Socks : ShowCard(s, k)) \/ Respond(k) \/ RequestTimesOut(k) \/ CardTimesOut(k)
      PROVE ChatInv'
  BY <1>2, CardStepsOK
<1>3. CASE ReconnectChat
  BY <1>3, ConnectOK DEF ReconnectChat, ChatInv, ChatTypeOK
<1>4. CASE DisconnectChat
  <2>1. ChatTypeOK' BY <1>4 DEF ChatInv, ChatTypeOK, DisconnectChat, SetChatState
  <2>2. ReadyIsTrue' BY <1>4 DEF ReadyIsTrue, DisconnectChat, SetChatState
  <2>3. PendingIsShown' /\ AcceptedAreAdmitted'
    BY <1>4 DEF ChatInv, PendingIsShown, AcceptedAreAdmitted, DisconnectChat
  <2> QED BY <2>1, <2>2, <2>3 DEF ChatInv
<1>5. CASE ConnectByHand
  <2>1. PICK good \in BOOLEAN : ChatConnect(good) BY <1>5 DEF ConnectByHand
  <2>2. bubble' \in BOOLEAN /\ timer' \in BOOLEAN /\ manual' \in BOOLEAN
    BY <1>5 DEF ConnectByHand, ChatInv, ChatTypeOK
  <2>3. UNCHANGED <<greeted, server, connected, approvals>> BY <1>5 DEF ConnectByHand
  <2> QED BY <2>1, <2>2, <2>3, ConnectOK
<1>6. CASE ChatSend
  <2>1. ChatTypeOK' BY <1>6 DEF ChatInv, ChatTypeOK, ChatSend
  <2>2. ReadyIsTrue' /\ PendingIsShown' /\ AcceptedAreAdmitted'
    BY <1>6 DEF ChatInv, ReadyIsTrue, PendingIsShown, AcceptedAreAdmitted, ChatSend
  <2> QED BY <2>1, <2>2 DEF ChatInv
<1>7. CASE UNCHANGED chatVars
  <2>1. ChatTypeOK' BY <1>7 DEF chatVars, ChatInv, ChatTypeOK
  <2>2. ReadyIsTrue' /\ PendingIsShown' /\ AcceptedAreAdmitted'
    BY <1>7 DEF chatVars, ChatInv, ReadyIsTrue, PendingIsShown, AcceptedAreAdmitted
  <2> QED BY <2>1, <2>2 DEF ChatInv
<1> QED BY <1>1, <1>2, <1>3, <1>4, <1>5, <1>6, <1>7 DEF ChatNext

----------------------------------------------------------------------------
(* The feed of events. *)

FeedInv == FeedTypeOK /\ FeedIsPursued

\* The invariant holds of a page that connects.
LEMMA FeedStarts == FeedInit => FeedInv
<1> SUFFICES ASSUME FeedInit PROVE FeedInv OBVIOUS
<1> USE DEF FeedInit
<1>1. stream \in [Streams -> {"connecting", "open", "lost", "refused", "closed"}]
  <2>1. \A s \in Streams : (IF s = es THEN "connecting" ELSE "closed")
                             \in {"connecting", "open", "lost", "refused", "closed"}
    OBVIOUS
  <2> QED BY <2>1
<1>2. live \in BOOLEAN /\ away \in BOOLEAN /\ up \in BOOLEAN /\ refusing \in BOOLEAN OBVIOUS
<1>3. FeedTypeOK BY EventFeedAssumption, <1>1, <1>2 DEF FeedTypeOK
<1>4. stream[es] = "connecting" OBVIOUS
<1>5. FeedIsPursued BY <1>4 DEF FeedIsPursued
<1> QED BY <1>3, <1>5 DEF FeedInv

\* A step that only moves a stream keeps it, if it closes none or begins an onerror call.
LEMMA StreamMoves ==
  ASSUME FeedInv, NEW s \in Streams,
         NEW r \in {"connecting", "open", "lost", "refused", "closed"},
         stream' = [stream EXCEPT ![s] = r], UNCHANGED <<es, timers, away>>,
         \/ r # "closed" /\ UNCHANGED probe
         \/ \E p \in Probes : probe' = [probe EXCEPT ![p] = "fetching"]
  PROVE  /\ stream' \in [Streams -> {"connecting", "open", "lost", "refused", "closed"}]
         /\ probe' \in [Probes -> {"none", "fetching"}]
         /\ FeedIsPursued'
<1> USE DEF FeedInv, FeedTypeOK, FeedIsPursued
<1>1. CASE r # "closed" /\ UNCHANGED probe BY <1>1
<1>2. ASSUME NEW p \in Probes, probe' = [probe EXCEPT ![p] = "fetching"]
      PROVE  /\ stream' \in [Streams -> {"connecting", "open", "lost", "refused", "closed"}]
             /\ probe' \in [Probes -> {"none", "fetching"}]
             /\ FeedIsPursued'
  <2>1. probe'[p] = "fetching" BY <1>2
  <2> QED BY <1>2, <2>1
<1> QED BY <1>1, <1>2

\* A new stream keeps it.
LEMMA ConnectFeedOK ==
  ASSUME FeedInv, ConnectFeed
  PROVE  /\ stream' \in [Streams -> {"connecting", "open", "lost", "refused", "closed"}]
         /\ es' \in Streams
         /\ FeedIsPursued'
<1>1. PICK s \in Streams : stream' = [stream EXCEPT ![s] = "connecting"] /\ es' = s
  BY DEF ConnectFeed
<1>2. stream'[es'] = "connecting" BY <1>1 DEF FeedInv, FeedTypeOK
<1> QED BY <1>1, <1>2 DEF FeedInv, FeedTypeOK, FeedIsPursued

\* The end of an onerror call keeps it: the page has left, or a timer is set.
LEMMA ProbeEndsOK ==
  ASSUME FeedInv, NEW p \in Probes, ProbeEnds(p)
  PROVE  FeedInv'
<1> USE DEF FeedInv, FeedTypeOK, feedBounds
<1>1. UNCHANGED <<up, refusing, errors, feedRestarts, lockouts>> BY DEF ProbeEnds
<1>2. CASE Logout
  <2>1. /\ away' = TRUE /\ live' = FALSE /\ timers' = 0 /\ UNCHANGED es
        /\ stream' = [t \in Streams |-> "closed"] /\ probe' = [q \in Probes |-> "none"]
    BY <1>2 DEF Logout
  <2>2. stream' \in [Streams -> {"connecting", "open", "lost", "refused", "closed"}]
        /\ probe' \in [Probes -> {"none", "fetching"}]
    BY <2>1
  <2>3. live' \in BOOLEAN /\ away' \in BOOLEAN BY <2>1
  <2>4. FeedIsPursued' BY <2>1 DEF FeedIsPursued
  <2> QED BY <1>1, <2>1, <2>2, <2>3, <2>4
<1>3. CASE ~Logout
  <2>1. /\ probe' = [probe EXCEPT ![p] = "none"] /\ live' = FALSE
        /\ stream' = [stream EXCEPT ![es] = "closed"] /\ timers' = timers + 1
        /\ UNCHANGED <<es, away>>
    BY <1>3 DEF ProbeEnds
  <2>2. stream' \in [Streams -> {"connecting", "open", "lost", "refused", "closed"}]
        /\ probe' \in [Probes -> {"none", "fetching"}]
    BY <2>1
  <2>3. timers' \in Nat /\ timers' > 0 BY <2>1
  <2>4. live' \in BOOLEAN BY <2>1
  <2>5. FeedIsPursued' BY <2>3 DEF FeedIsPursued
  <2> QED BY <1>1, <2>1, <2>2, <2>3, <2>4, <2>5
<1> QED BY <1>2, <1>3

\* Every step of the feed keeps it.
LEMMA FeedSteps == FeedInv /\ [FeedNext]_feedVars => FeedInv'
<1> SUFFICES ASSUME FeedInv, [FeedNext]_feedVars PROVE FeedInv' OBVIOUS
<1> USE EventFeedAssumption DEF feedBounds, pageOfFeed
<1>1. ASSUME NEW s \in Streams, Established(s) PROVE FeedInv'
  <2>1. live' = TRUE BY <1>1 DEF Established
  <2>2. live' \in BOOLEAN BY <2>1
  <2> QED BY <1>1, <2>2, StreamMoves DEF Established, FeedInv, FeedTypeOK
<1>2. ASSUME NEW s \in Streams, Refused(s) PROVE FeedInv'
  BY <1>2, StreamMoves DEF Refused, FeedInv, FeedTypeOK
<1>3. ASSUME NEW s \in Streams, Lose(s) PROVE FeedInv'
  <2>1. PICK r \in {"lost"} : stream' = [stream EXCEPT ![s] = r] BY <1>3 DEF Lose
  <2>2. UNCHANGED <<es, probe, timers, live, away, up, refusing, feedRestarts, lockouts>>
    BY <1>3 DEF Lose
  <2>3. errors' \in 0..MaxErrors BY <1>3 DEF Lose, FeedInv, FeedTypeOK
  <2> QED BY <2>1, <2>2, <2>3, StreamMoves DEF FeedInv, FeedTypeOK
<1>4. ASSUME NEW s \in Streams, OnError(s) PROVE FeedInv'
  <2>1. PICK r \in {"connecting", "closed"} : stream' = [stream EXCEPT ![s] = r]
    BY <1>4 DEF OnError
  <2>2. \E p \in Probes : probe' = [probe EXCEPT ![p] = "fetching"] BY <1>4 DEF OnError
  <2>3. UNCHANGED <<es, timers, live, away, up, refusing, errors, feedRestarts, lockouts>>
    BY <1>4 DEF OnError
  <2> QED BY <2>1, <2>2, <2>3, StreamMoves DEF FeedInv, FeedTypeOK
<1>5. ASSUME NEW p \in Probes, ProbeEnds(p) PROVE FeedInv'
  BY <1>5, ProbeEndsOK
<1>6. CASE ReconnectFeed
  BY <1>6, ConnectFeedOK DEF ReconnectFeed, FeedInv, FeedTypeOK
<1>7. CASE LogIn
  <2>1. away' \in BOOLEAN BY <1>7 DEF LogIn
  <2> QED BY <1>7, <2>1, ConnectFeedOK DEF LogIn, FeedInv, FeedTypeOK
<1>8. CASE LockOut
  <2>1. refusing' \in BOOLEAN BY <1>8 DEF LockOut
  <2> QED BY <1>8, <2>1 DEF LockOut, FeedInv, FeedTypeOK, FeedIsPursued
<1>9. CASE Unlock
  <2>1. refusing' \in BOOLEAN BY <1>9 DEF Unlock
  <2> QED BY <1>9, <2>1 DEF Unlock, FeedInv, FeedTypeOK, FeedIsPursued
<1>10. CASE GoDown
  <2>1. stream' \in [Streams -> {"connecting", "open", "lost", "refused", "closed"}]
    BY <1>10 DEF GoDown, FeedInv, FeedTypeOK
  <2>2. stream'[es] = "closed" => stream[es] = "closed" BY <1>10 DEF GoDown, FeedInv, FeedTypeOK
  <2>3. up' \in BOOLEAN /\ refusing' \in BOOLEAN BY <1>10 DEF GoDown, FeedInv, FeedTypeOK
  <2>4. FeedIsPursued' BY <1>10, <2>2 DEF GoDown, FeedInv, FeedIsPursued
  <2>5. feedRestarts' \in 0..MaxFeedRestarts BY <1>10 DEF GoDown, FeedInv, FeedTypeOK
  <2> QED BY <1>10, <2>1, <2>3, <2>4, <2>5 DEF GoDown, FeedInv, FeedTypeOK
<1>11. CASE ComeUp
  <2>1. up' \in BOOLEAN BY <1>11 DEF ComeUp
  <2> QED BY <1>11, <2>1 DEF ComeUp, FeedInv, FeedTypeOK, FeedIsPursued
<1>12. CASE UNCHANGED feedVars
  BY <1>12 DEF feedVars, FeedInv, FeedTypeOK, FeedIsPursued
<1> QED
  BY <1>1, <1>2, <1>3, <1>4, <1>5, <1>6, <1>7, <1>8, <1>9, <1>10, <1>11, <1>12 DEF FeedNext

----------------------------------------------------------------------------
(* The page of projects. *)

\* What a function of the page awaits is about projects the store held when it began,
\* and the store forgets none.
CallsAreStored ==
  \A c \in calls : /\ c.list \subseteq stored
                   /\ c.for # "roster" => c.id \in stored

ProjectsPageInv == ProjectsPageTypeOK /\ CallsAreStored

\* The invariant holds of a page that shows nothing.
LEMMA ProjectsPageStarts == ProjectsPageInit => ProjectsPageInv
BY DEF ProjectsPageInit, ProjectsPageInv, ProjectsPageTypeOK, CallsAreStored

\* What selectProject() leaves behind, however it was reached.
LEMMA SelectAfterOK ==
  ASSUME ProjectsPageInv, NEW p \in stored, NEW done, SelectAfter(p, done),
         listed' \subseteq stored', typed' \in BOOLEAN,
         roster' \in {"empty", "loading", "list", "error"}
  PROVE  ProjectsPageInv'
<1>1. p \in PageProjects /\ DetailCall(p) \in PossibleCalls
  BY DEF ProjectsPageInv, ProjectsPageTypeOK, PossibleCalls
<1>2. ProjectsPageTypeOK'
  BY <1>1 DEF ProjectsPageInv, ProjectsPageTypeOK, SelectAfter
<1>3. CallsAreStored'
  BY DEF ProjectsPageInv, CallsAreStored, SelectAfter, DetailCall
<1> QED BY <1>2, <1>3 DEF ProjectsPageInv

\* An answer is of a project that was asked for.
LEMMA CallEndsOK ==
  ASSUME ProjectsPageInv, NEW c \in calls, CallEnds(c)
  PROVE  ProjectsPageInv'
<1> USE DEF ProjectsPageInv, ProjectsPageTypeOK, CallsAreStored
<1>1. CASE RosterArrives(c)
  <2>1. c.list \subseteq stored OBVIOUS
  <2>2. CASE selected \in c.list /\ SelectAfter(selected, {c})
    BY <1>1, <2>1, <2>2, SelectAfterOK DEF RosterArrives, SelectAfter
  <2>3. CASE \E p \in c.list : SelectAfter(p, {c})
    <3>1. PICK p \in c.list : SelectAfter(p, {c}) BY <2>3
    <3> QED BY <1>1, <2>1, <3>1, SelectAfterOK DEF RosterArrives, SelectAfter
  <2>4. CASE c.list = {} /\ selected' = NoneSelected /\ header' = "empty" /\ bar' = FALSE
             /\ calls' = calls \ {c} /\ UNCHANGED <<stored, detail>>
    BY <1>1, <2>4 DEF RosterArrives
  <2> QED BY <1>1, <2>2, <2>3, <2>4 DEF RosterArrives
<1>2. CASE RosterFails(c) BY <1>2 DEF RosterFails
<1>3. CASE DetailArrives(c) BY <1>3 DEF DetailArrives
<1>4. CASE DetailFails(c) BY <1>4 DEF DetailFails
<1>5. CASE DispatchAnswered(c)
  <2>1. CASE selected = NoneSelected
    <3>1. /\ typed' = FALSE /\ calls' = calls \ {c}
          /\ UNCHANGED <<stored, selected, detail, header, bar, listed, roster>>
      BY <1>5, <2>1 DEF DispatchAnswered
    <3> QED BY <3>1
  <2>2. CASE selected # NoneSelected
    <3>1. selected \in stored /\ SelectAfter(selected, {c}) BY <1>5, <2>2 DEF DispatchAnswered
    <3>2. listed' \subseteq stored' /\ typed' \in BOOLEAN
          /\ roster' \in {"empty", "loading", "list", "error"}
      BY <1>5, <3>1 DEF DispatchAnswered, SelectAfter
    <3> QED BY <3>1, <3>2, SelectAfterOK
  <2> QED BY <2>1, <2>2
<1>6. CASE DispatchFails(c) BY <1>6 DEF DispatchFails
<1> QED BY <1>1, <1>2, <1>3, <1>4, <1>5, <1>6 DEF CallEnds

\* Every click and every answer keeps it.
LEMMA ProjectsPageSteps == ProjectsPageInv /\ [ProjectsPageNext]_pageVars => ProjectsPageInv'
<1> SUFFICES ASSUME ProjectsPageInv, [ProjectsPageNext]_pageVars PROVE ProjectsPageInv' OBVIOUS
<1>1. CASE ProjectAppears
  <2>1. PICK p \in PageProjects \ stored : stored' = stored \cup {p} BY <1>1 DEF ProjectAppears
  <2>2. ProjectsPageTypeOK'
    BY <1>1, <2>1 DEF ProjectsPageInv, ProjectsPageTypeOK, ProjectAppears
  <2>3. CallsAreStored'
    BY <1>1, <2>1 DEF ProjectsPageInv, CallsAreStored, ProjectAppears
  <2> QED BY <2>2, <2>3 DEF ProjectsPageInv
<1>2. CASE LoadProjects
  <2>1. RosterCall(stored) \in PossibleCalls
    BY DEF PossibleCalls, ProjectsPageInv, ProjectsPageTypeOK
  <2>2. ProjectsPageTypeOK'
    BY <1>2, <2>1 DEF ProjectsPageInv, ProjectsPageTypeOK, LoadProjects
  <2>3. CallsAreStored'
    BY <1>2 DEF ProjectsPageInv, CallsAreStored, LoadProjects, RosterCall
  <2> QED BY <2>2, <2>3 DEF ProjectsPageInv
<1>3. CASE SelectProject
  <2>1. PICK p \in listed : SelectAfter(p, {}) BY <1>3 DEF SelectProject
  <2> QED BY <1>3, <2>1, SelectAfterOK
          DEF SelectProject, SelectAfter, ProjectsPageInv, ProjectsPageTypeOK
<1>4. CASE TypeTask
  BY <1>4 DEF TypeTask, ProjectsPageInv, ProjectsPageTypeOK, CallsAreStored
<1>5. CASE DispatchTask
  <2>1. selected \in stored BY <1>5 DEF DispatchTask, ProjectsPageInv, ProjectsPageTypeOK
  <2>2. DispatchCall(selected) \in PossibleCalls
    BY <2>1 DEF PossibleCalls, ProjectsPageInv, ProjectsPageTypeOK
  <2>3. ProjectsPageTypeOK'
    BY <1>5, <2>2 DEF ProjectsPageInv, ProjectsPageTypeOK, DispatchTask
  <2>4. CallsAreStored'
    BY <1>5, <2>1 DEF ProjectsPageInv, CallsAreStored, DispatchTask, DispatchCall
  <2> QED BY <2>3, <2>4 DEF ProjectsPageInv
<1>6. ASSUME NEW c \in calls, CallEnds(c) PROVE ProjectsPageInv'
  BY <1>6, CallEndsOK
<1>7. CASE UNCHANGED pageVars
  BY <1>7 DEF pageVars, ProjectsPageInv, ProjectsPageTypeOK, CallsAreStored
<1> QED BY <1>1, <1>2, <1>3, <1>4, <1>5, <1>6, <1>7 DEF ProjectsPageNext, CallEnds

----------------------------------------------------------------------------
(* Set-up. *)

\* A gateway started in the background finds what it needs, which is never taken
\* away again: it does not become a wizard.
BackgroundIsReady ==
  \A p \in Procs : procMade[p] = "background"
                     => /\ procMode[p] \notin {"setup", "gap"}
                        /\ procMode[p] = "booting" => ConfigReady

\* The terminal: restart has removed the PID file; onboard has a master key before it
\* writes, and remembers truly that a configuration was there.
TerminalIsSound ==
  /\ term = "restarting" => pidFile = NoProc
  /\ term = "writing" => "master" \in onboard.collected
  /\ term \in {"asking", "writing"} /\ onboard.configExists => aiDeskJson # NoFile

SetupInv == SetupTypeOK /\ NoOrphan /\ BackgroundIsReady /\ TerminalIsSound

\* The invariant holds of a machine on which nothing runs.
LEMMA SetupStarts == SetupInit => SetupInv
<1> SUFFICES ASSUME SetupInit PROVE SetupInv OBVIOUS
<1>1. onboard \in [collected : SUBSET EnvNames, configExists : BOOLEAN, sandboxMode : Sandboxes]
  BY SetupAssumption DEF SetupInit
<1>2. SetupTypeOK BY <1>1, SetupAssumption DEF SetupInit, SetupTypeOK
<1>3. NoOrphan /\ BackgroundIsReady /\ TerminalIsSound
  BY DEF SetupInit, NoOrphan, BackgroundIsReady, TerminalIsSound
<1> QED BY <1>2, <1>3 DEF SetupInv

\* What killGateway() leaves: no gateway of the background that is to go on.
LEMMA KilledLeavesNone ==
  ASSUME SetupInv
  PROVE  /\ Killed \in [Procs -> {"none", "booting", "setup", "gap", "serving", "stopping"}]
         /\ \A p \in Procs : procMade[p] = "background" => Killed[p] \in {"none", "stopping"}
<1> USE DEF SetupInv, SetupTypeOK
<1>1. CASE pidFile = NoProc
  BY <1>1, SetupAssumption DEF Killed, NoOrphan, BackgroundIsReady
<1>2. CASE pidFile # NoProc
  <2>1. Terminated(pidFile) \in {"none", "stopping"} BY DEF Terminated
  <2>2. Killed = [procMode EXCEPT ![pidFile] = Terminated(pidFile)] BY <1>2 DEF Killed
  <2>3. pidFile \in Procs BY <1>2
  <2> HIDE DEF Killed, Terminated
  <2>4. Killed \in [Procs -> {"none", "booting", "setup", "gap", "serving", "stopping"}]
    BY <2>1, <2>2
  <2>5. ASSUME NEW p \in Procs, procMade[p] = "background" PROVE Killed[p] \in {"none", "stopping"}
    <3>1. CASE p = pidFile BY <2>1, <2>2, <3>1
    <3>2. CASE p # pidFile
      <4>1. Killed[p] = procMode[p] BY <2>2, <3>2
      <4>2. procMode[p] \notin {"booting", "setup", "serving"} BY <2>5, <3>2 DEF NoOrphan
      <4>3. procMode[p] # "gap" BY <2>5 DEF BackgroundIsReady
      <4> QED BY <4>1, <4>2, <4>3
    <3> QED BY <3>1, <3>2
  <2> QED BY <2>4, <2>5
<1> QED BY <1>1, <1>2

\* A process is started, with what killGateway() left or with all that were there.
LEMMA SpawnedOK ==
  ASSUME SetupInv, NEW p \in Procs, NEW how \in {"foreground", "background", "onboard"},
         NEW modes \in [Procs -> {"none", "booting", "setup", "gap", "serving", "stopping"}],
         Spawned(p, modes, how),
         \A q \in Procs : procMade[q] = "background" => modes[q] \notin {"setup", "gap"}
                            /\ (modes[q] = "booting" => ConfigReady),
         \A q \in Procs : procMade[q] = "background" /\ modes[q] \in {"booting", "serving"}
                            => pidFile' = q,
         how = "background" => pidFile' = p /\ ConfigReady,
         pidFile' \in Procs \cup {NoProc},
         UNCHANGED <<files, wizard, onboard>>,
         term' = "idle"
  PROVE  SetupInv'
<1> USE DEF SetupInv, SetupTypeOK, files, wizard
<1>1. /\ modes[p] = "none"
      /\ procMode' = [modes EXCEPT ![p] = "booting"]
      /\ procMade' = [procMade EXCEPT ![p] = how]
  BY DEF Spawned
<1>2. SetupTypeOK' BY <1>1
<1>3. NoOrphan' BY <1>1 DEF NoOrphan
<1>4. BackgroundIsReady' BY <1>1 DEF BackgroundIsReady, ConfigReady
<1>5. TerminalIsSound' BY DEF TerminalIsSound
<1> QED BY <1>2, <1>3, <1>4, <1>5

\* Processes that boot, end, crash or are started keep it.
LEMMA ProcessStepsOK ==
  ASSUME SetupInv, NEW p \in Procs,
         Boot(p) \/ ShutDown(p) \/ Crash(p) \/ Foreground(p) \/ Background(p)
  PROVE  SetupInv'
<1> USE DEF SetupInv, files, wizard, processes, terminal, counts
<1>1. CASE Boot(p)
  <2>1. PICK m \in {"none", "setup", "serving"} :
          /\ procMode' = [procMode EXCEPT ![p] = m]
          /\ m = "setup" => ~ConfigReady
    BY <1>1 DEF Boot
  <2>2. tokenRows' \subseteq {"initial", "setup-wizard", "onboard"}
    BY <1>1 DEF Boot, SetupTypeOK
  <2>3. procMode[p] = "booting"
        /\ UNCHANGED <<envFile, aiDeskJson, procMade, pidFile, wizard, terminal>>
    BY <1>1 DEF Boot
  <2>4. SetupTypeOK' BY <2>1, <2>2, <2>3 DEF SetupTypeOK
  <2>5. NoOrphan' BY <2>1, <2>3 DEF NoOrphan, SetupTypeOK
  <2>6. BackgroundIsReady' BY <2>1, <2>3 DEF BackgroundIsReady, ConfigReady, SetupTypeOK
  <2>7. TerminalIsSound' BY <2>3 DEF TerminalIsSound
  <2> QED BY <2>4, <2>5, <2>6, <2>7
<1>2. CASE ShutDown(p)
  <2>1. SetupTypeOK' BY <1>2 DEF ShutDown, SetupTypeOK
  <2>2. NoOrphan' /\ BackgroundIsReady' /\ TerminalIsSound'
    BY <1>2 DEF ShutDown, SetupTypeOK, NoOrphan, BackgroundIsReady, TerminalIsSound, ConfigReady
  <2> QED BY <2>1, <2>2
<1>3. CASE Crash(p)
  <2>1. launchReq' \in [Pages -> {"none", "token", "closing", "launching", "done", "dead"}]
    BY <1>3 DEF Crash, SetupTypeOK
  <2>2. SetupTypeOK' BY <1>3, <2>1 DEF Crash, SetupTypeOK
  <2>3. NoOrphan' /\ BackgroundIsReady' /\ TerminalIsSound'
    BY <1>3 DEF Crash, SetupTypeOK, NoOrphan, BackgroundIsReady, TerminalIsSound, ConfigReady
  <2> QED BY <2>2, <2>3
<1>4. CASE Foreground(p)
  BY <1>4, SpawnedOK DEF Foreground, SetupTypeOK, NoOrphan, BackgroundIsReady
<1>5. CASE Background(p)
  BY <1>5, SpawnedOK, KilledLeavesNone DEF Background, SetupTypeOK
<1> QED BY <1>1, <1>2, <1>3, <1>4, <1>5

\* So do the commands stop and restart, while no two of them overlap.
LEMMA CommandStepsOK ==
  ASSUME SetupInv, StopCommand \/ RestartCommand \/ RestartSpawns
  PROVE  SetupInv'
<1> USE DEF SetupInv, files, wizard, processes, terminal, counts
<1>1. CASE StopCommand \/ RestartCommand
  <2>1. /\ procMode' = Killed /\ pidFile' = NoProc
        /\ UNCHANGED <<files, wizard, procMade, onboard>>
        /\ term' \in {"idle", "restarting"}
    BY <1>1 DEF StopCommand, RestartCommand
  <2>2. SetupTypeOK' BY <2>1, KilledLeavesNone DEF SetupTypeOK
  <2>3. NoOrphan' /\ BackgroundIsReady' /\ TerminalIsSound'
    BY <2>1, KilledLeavesNone DEF NoOrphan, BackgroundIsReady, TerminalIsSound
  <2> QED BY <2>2, <2>3
<1>2. CASE RestartSpawns
  <2>1. CASE /\ ConfigReady
             /\ \E p \in Procs : Spawned(p, procMode, "background") /\ pidFile' = p
    <3>1. PICK p \in Procs : Spawned(p, procMode, "background") /\ pidFile' = p BY <2>1
    <3>2. \A q \in Procs : procMade[q] = "background" /\ procMode[q] \in {"booting", "serving"}
                             => pidFile' = q
      BY <1>2, SetupAssumption DEF RestartSpawns, NoOrphan, TerminalIsSound
    <3> QED BY <1>2, <2>1, <3>1, <3>2, SpawnedOK DEF RestartSpawns, SetupTypeOK, BackgroundIsReady
  <2>2. CASE UNCHANGED <<processes, spawns>>
    <3>1. SetupTypeOK' BY <1>2, <2>2 DEF RestartSpawns, SetupTypeOK
    <3>2. NoOrphan' /\ BackgroundIsReady' /\ TerminalIsSound'
      BY <1>2, <2>2 DEF RestartSpawns, NoOrphan, BackgroundIsReady, TerminalIsSound, ConfigReady
    <3> QED BY <3>1, <3>2
  <2> QED BY <1>2, <2>1, <2>2 DEF RestartSpawns
<1> QED BY <1>1, <1>2

\* So does the wizard, whose process becomes the gateway.
LEMMA WizardStepsOK ==
  ASSUME SetupInv, NEW t \in Pages, OpenPage(t) \/ LaunchClick(t) \/ SetupStep(t)
  PROVE  SetupInv'
<1> USE DEF SetupInv, files, wizard, processes, terminal, counts
<1>1. CASE OpenPage(t) \/ LaunchClick(t) \/ ShowDone(t) \/ ShowError(t)
  <2>1. wizPage' \in [Pages -> {0, 2, 5, 6, 7}]
    BY <1>1 DEF OpenPage, LaunchClick, ShowDone, ShowError, SetupTypeOK
  <2>2. UNCHANGED <<files, launchReq, processes, terminal>>
    BY <1>1 DEF OpenPage, LaunchClick, ShowDone, ShowError
  <2> QED BY <2>1, <2>2
          DEF SetupTypeOK, NoOrphan, BackgroundIsReady, TerminalIsSound, ConfigReady
<1>2. CASE HandleLaunch(t)
  <2>1. CASE \E q \in Procs : SetupProc(q)
    <3>1. PICK keys \in SUBSET Providers, mode \in Sandboxes :
            envFile' = {"master"} \cup keys /\ aiDeskJson' = mode
      BY <1>2, <2>1 DEF HandleLaunch
    <3>2. launchReq' = [launchReq EXCEPT ![t] = "token"] /\ UNCHANGED wizPage
          /\ UNCHANGED <<tokenRows, processes, terminal>>
      BY <1>2, <2>1 DEF HandleLaunch
    <3>3. SetupTypeOK' BY <3>1, <3>2 DEF SetupTypeOK, Providers, EnvNames
    <3>4. ConfigReady' /\ aiDeskJson' # NoFile
      BY <3>1, SetupAssumption DEF ConfigReady
    <3>5. NoOrphan' /\ BackgroundIsReady' /\ TerminalIsSound'
      BY <3>2, <3>4 DEF NoOrphan, BackgroundIsReady, TerminalIsSound
    <3> QED BY <3>3, <3>5
  <2>2. CASE ~ \E q \in Procs : SetupProc(q)
    <3>1. wizPage' = [wizPage EXCEPT ![t] = 7] /\ UNCHANGED <<files, launchReq, processes, terminal>>
      BY <1>2, <2>2 DEF HandleLaunch
    <3> QED BY <3>1
            DEF SetupTypeOK, NoOrphan, BackgroundIsReady, TerminalIsSound, ConfigReady
  <2> QED BY <2>1, <2>2
<1>3. CASE AnswerLaunch(t)
  <2>1. SetupTypeOK' BY <1>3 DEF AnswerLaunch, SetupTypeOK
  <2>2. NoOrphan' /\ BackgroundIsReady' /\ TerminalIsSound'
    BY <1>3 DEF AnswerLaunch, NoOrphan, BackgroundIsReady, TerminalIsSound, ConfigReady
  <2> QED BY <2>1, <2>2
<1>4. CASE Closes(t)
  <2>1. SetupTypeOK' BY <1>4 DEF Closes, SetupTypeOK
  <2>2. \A p \in Procs : procMade[p] = "background" => procMode'[p] = procMode[p]
    BY <1>4 DEF Closes, BackgroundIsReady, SetupProc
  <2>3. NoOrphan' /\ BackgroundIsReady' /\ TerminalIsSound'
    BY <1>4, <2>2 DEF Closes, NoOrphan, BackgroundIsReady, TerminalIsSound, ConfigReady
  <2> QED BY <2>1, <2>3
<1>5. CASE OnLaunch(t)
  <2>1. /\ procMode' \in [Procs -> {"none", "booting", "setup", "gap", "serving", "stopping"}]
        /\ \A p \in Procs : procMade[p] = "background"
             => procMode'[p] \in {procMode[p], "none"}
    BY <1>5 DEF OnLaunch, SetupTypeOK, BackgroundIsReady
  <2>2. launchReq' \in [Pages -> {"none", "token", "closing", "launching", "done", "dead"}]
    BY <1>5 DEF OnLaunch, SetupTypeOK
  <2>3. UNCHANGED <<files, wizPage, procMade, pidFile, terminal>> BY <1>5 DEF OnLaunch
  <2>4. SetupTypeOK' BY <2>1, <2>2, <2>3 DEF SetupTypeOK
  <2>5. NoOrphan' /\ BackgroundIsReady' /\ TerminalIsSound'
    BY <2>1, <2>3 DEF NoOrphan, BackgroundIsReady, TerminalIsSound, ConfigReady
  <2> QED BY <2>4, <2>5
<1> QED BY <1>1, <1>2, <1>3, <1>4, <1>5 DEF SetupStep

\* So does onboarding at the terminal.
LEMMA OnboardStepsOK ==
  ASSUME SetupInv, OnboardBegins \/ OnboardAnswers \/ OnboardWrites \/ OnboardStarts
  PROVE  SetupInv'
<1> USE DEF SetupInv, files, wizard, processes, terminal, counts
<1>1. CASE OnboardBegins
  <2>1. onboard' \in [collected : SUBSET EnvNames, configExists : BOOLEAN, sandboxMode : Sandboxes]
    BY <1>1, SetupAssumption DEF OnboardBegins, SetupTypeOK
  <2>2. SetupTypeOK' BY <1>1, <2>1 DEF OnboardBegins, SetupTypeOK
  <2>3. NoOrphan' /\ BackgroundIsReady' /\ TerminalIsSound'
    BY <1>1 DEF OnboardBegins, NoOrphan, BackgroundIsReady, TerminalIsSound, ConfigReady
  <2> QED BY <2>2, <2>3
<1>2. CASE OnboardAnswers
  <2>1. UNCHANGED <<files, wizard, processes>> /\ term = "asking" BY <1>2 DEF OnboardAnswers
  <2>2. CASE term' = "idle" /\ UNCHANGED onboard
    BY <2>1, <2>2 DEF SetupTypeOK, NoOrphan, BackgroundIsReady, TerminalIsSound, ConfigReady
  <2>3. CASE /\ term' = "writing"
             /\ \E key \in SUBSET {"anthropic"}, mode \in Sandboxes :
                  onboard' = [onboard EXCEPT !.collected = @ \cup {"master"} \cup key,
                                !.sandboxMode = IF onboard.configExists THEN @ ELSE mode]
    <3>1. PICK key \in SUBSET {"anthropic"}, mode \in Sandboxes :
            onboard' = [onboard EXCEPT !.collected = onboard.collected \cup {"master"} \cup key,
                          !.sandboxMode = IF onboard.configExists THEN onboard.sandboxMode ELSE mode]
      BY <2>3
    <3>2. /\ onboard' \in [collected : SUBSET EnvNames, configExists : BOOLEAN,
                           sandboxMode : Sandboxes]
          /\ "master" \in onboard'.collected
          /\ onboard'.configExists = onboard.configExists
      BY <3>1 DEF SetupTypeOK, EnvNames
    <3>3. SetupTypeOK' BY <2>1, <2>3, <3>2 DEF SetupTypeOK
    <3>4. NoOrphan' /\ BackgroundIsReady'
      BY <2>1 DEF NoOrphan, BackgroundIsReady, ConfigReady
    <3>5. TerminalIsSound' BY <2>1, <2>3, <3>2 DEF TerminalIsSound
    <3> QED BY <3>3, <3>4, <3>5
  <2> QED BY <1>2, <2>2, <2>3 DEF OnboardAnswers
<1>3. CASE OnboardWrites
  <2>1. /\ term = "writing" /\ term' = "starting" /\ UNCHANGED <<wizard, processes, onboard>>
        /\ envFile' = onboard.collected \cap OnboardNames
        /\ aiDeskJson' = IF onboard.configExists THEN aiDeskJson ELSE onboard.sandboxMode
    BY <1>3 DEF OnboardWrites
  <2>2. tokenRows' \subseteq {"initial", "setup-wizard", "onboard"}
    BY <1>3 DEF OnboardWrites, SetupTypeOK
  <2>3. SetupTypeOK' BY <2>1, <2>2 DEF SetupTypeOK
  <2>4. ConfigReady'
    BY <2>1, SetupAssumption DEF ConfigReady, TerminalIsSound, OnboardNames, SetupTypeOK
  <2>5. NoOrphan' /\ BackgroundIsReady' /\ TerminalIsSound'
    BY <2>1, <2>4 DEF NoOrphan, BackgroundIsReady, TerminalIsSound
  <2> QED BY <2>3, <2>5
<1>4. CASE OnboardStarts
  <2>1. CASE \E p \in Procs : Spawned(p, procMode, "onboard")
    BY <1>4, <2>1, SpawnedOK DEF OnboardStarts, SetupTypeOK, NoOrphan, BackgroundIsReady
  <2>2. CASE UNCHANGED <<procMode, procMade, spawns>>
    BY <1>4, <2>2
       DEF OnboardStarts, SetupTypeOK, NoOrphan, BackgroundIsReady, TerminalIsSound, ConfigReady
  <2> QED BY <1>4, <2>1, <2>2 DEF OnboardStarts
<1> QED BY <1>1, <1>2, <1>3, <1>4

\* Every step keeps the invariant.
LEMMA SetupSteps == SetupInv /\ [SetupNext]_setupVars => SetupInv'
<1> SUFFICES ASSUME SetupInv, [SetupNext]_setupVars PROVE SetupInv' OBVIOUS
<1>1. CASE UNCHANGED setupVars
  BY <1>1 DEF setupVars, SetupInv, SetupTypeOK, NoOrphan, BackgroundIsReady, TerminalIsSound,
     ConfigReady
<1>2. CASE SetupNext
  BY <1>2, ProcessStepsOK, CommandStepsOK, WizardStepsOK, OnboardStepsOK DEF SetupNext
<1> QED BY <1>1, <1>2

\* A gateway in the background is the one the PID file names, so that stop and restart reach it
\* (cli/index.ts), while no restart overlaps another and onboard has not started one.
THEOREM StopReachesIt == SetupSpec => []NoOrphan
<1>1. SetupInv => NoOrphan BY DEF SetupInv
<1> QED BY <1>1, SetupStarts, SetupSteps, PTL DEF SetupSpec

----------------------------------------------------------------------------
(* All of them. *)

PagesInv == ChatInv /\ FeedInv /\ ProjectsPageInv /\ SetupInv

\* The page says CONNECTED only while some socket is authenticated, a request that waits is on its
\* way or has its card, a feed that is closed is being opened again unless the page is at the login
\* page, and no gateway is out of reach of the PID file: the run's invariants, for any sockets,
\* requests, streams, projects and processes.
THEOREM PagesTellTheTruth == MCSpec => [](PageIsTrue /\ NoOrphan)
<1>1. MCInit => PagesInv
  BY ChatStarts, FeedStarts, ProjectsPageStarts, SetupStarts DEF MCInit, PagesInv
<1>2. PagesInv /\ [MCNext]_partVars => PagesInv'
  <2>1. [MCNext]_partVars => /\ [ChatNext]_chatVars /\ [FeedNext]_feedVars
                             /\ [ProjectsPageNext]_pageVars /\ [SetupNext]_setupVars
    BY DEF MCNext, partVars
  <2> QED BY <2>1, ChatSteps, FeedSteps, ProjectsPageSteps, SetupSteps DEF PagesInv
<1>3. PagesInv => PageIsTrue /\ NoOrphan
  BY DEF PagesInv, PageIsTrue, ChatInv, FeedInv, ProjectsPageInv, SetupInv
<1> QED BY <1>1, <1>2, <1>3, PTL DEF MCSpec

=============================================================================
