----------------------------- MODULE ChatClient -----------------------------
(***************************************************************************)
(* The dashboard page's own connection to the gateway: its WebSockets, the *)
(* send button and the approval cards (the script of                       *)
(* src/dashboard/dashboard-html.ts).                                       *)
(*                                                                         *)
(* The page has one chatWs, but its handlers stay on every socket it ever  *)
(* made, and all of them write the same variables: a socket that was       *)
(* replaced while it was open goes on being heard.  The challenge is       *)
(* answered on chatWs, whichever socket brought it, and the gateway looks  *)
(* only at the token of the answer.                                        *)
(***************************************************************************)
EXTENDS Integers, FiniteSets

CONSTANTS
  Socks,      \* bound: WebSockets at once
  Requests,   \* approval requests, each made at most once
  MaxDrops,   \* bound: connections lost
  MaxClicks,  \* bound: clicks on CONNECT, CANCEL, DISCONNECT or RETRY
  MaxSends,   \* bound: messages sent
  NoSock      \* null

ASSUME ChatClientAssumption ==
  /\ IsFiniteSet(Socks) /\ NoSock \notin Socks
  /\ MaxDrops \in Nat /\ MaxClicks \in Nat /\ MaxSends \in Nat

VARIABLES
  ready,      \* readyState of a socket, as the page sees it
  token,      \* the token its handlers were made with is valid
  greeted,    \* sockets whose challenge has come
  results,    \* auth:result messages on their way
  admitted,   \* the sockets the gateway has authenticated
  doomed,     \* those it will close for a token it refused
  newest,     \* the one it authenticated last
  chatWs,
  connected,  \* chatConnected
  timer,      \* chatReconnectTimer is set
  manual,     \* chatManualDisconnect
  shown,      \* the state last given to setChatState
  sendOn,     \* the send button is enabled
  owed,       \* sockets on which the gateway owes a reply
  bubble,     \* streamingMsgEl # null
  asked,      \* approval requests on their way: <<socket, request>>
  cards,      \* approval cards on the page, with their countdowns
  pending,    \* the gateway's pendingApprovals: request -> socket
  said,       \* requests whose card was answered or ran out
  drops, clicks, sends

screen == <<shown, sendOn, bubble>>
bounds == <<drops, clicks, sends>>
server == <<results, admitted, doomed, newest, owed>>
approvals == <<asked, cards, pending, said>>
chatVars == <<ready, token, greeted, server, chatWs, connected, timer, manual, screen, approvals, bounds>>

Alive(s) == ready[s] \in {"connecting", "open"}
HasSock == chatWs # NoSock /\ Alive(chatWs)
IsOpen == chatWs # NoSock /\ ready[chatWs] = "open"
Unborn == {s \in Socks : ready[s] = "closed" /\ s # chatWs}

\* setChatState(): what it does to the send button.
SetChatState(state) == shown' = state /\ sendOn' = (state = "ready")

\* chatConnect(): the socket chatWs named until now is left as it is.
ChatConnect(good) ==
  \E s \in Unborn :
    /\ chatWs' = s
    /\ ready' = [ready EXCEPT ![s] = "connecting"]
    /\ token' = [token EXCEPT ![s] = good]
    /\ SetChatState("connecting")

\* checkLogin() and initApp(), with the token of the login.
ChatInit ==
  /\ chatWs \in Socks
  /\ ready = [s \in Socks |-> IF s = chatWs THEN "connecting" ELSE "closed"]
  /\ token = [s \in Socks |-> TRUE]
  /\ greeted = {} /\ results = {} /\ admitted = {} /\ doomed = {} /\ owed = {}
  /\ newest = NoSock
  /\ connected = FALSE /\ timer = FALSE /\ manual = FALSE
  /\ shown = "connecting" /\ sendOn = FALSE /\ bubble = FALSE
  /\ asked = {} /\ cards = {} /\ said = {}
  /\ pending = [k \in Requests |-> NoSock]
  /\ drops = 0 /\ clicks = 0 /\ sends = 0

----------------------------------------------------------------------------
(* A socket's life *)

\* onopen.
Opened(s) ==
  /\ ready[s] = "connecting"
  /\ ready' = [ready EXCEPT ![s] = "open"]
  /\ SetChatState("authenticating")
  /\ UNCHANGED <<token, greeted, server, chatWs, connected, timer, manual, bubble, approvals, bounds>>

\* 'auth:challenge', and handleAuth() in the gateway.  send() throws on a socket
\* that is not open yet and does nothing on one that closes.
Challenged(s) ==
  /\ ready[s] = "open" /\ s \notin greeted
  /\ greeted' = greeted \cup {s}
  /\ \/ /\ IsOpen
        /\ results' = results \cup {<<chatWs, token[s]>>}
        /\ \/ /\ token[s]
              /\ admitted' = admitted \cup {chatWs} /\ newest' = chatWs
              /\ UNCHANGED doomed
           \/ /\ ~token[s]
              /\ doomed' = doomed \cup {chatWs}
              /\ UNCHANGED <<admitted, newest>>
     \/ /\ ~IsOpen
        /\ UNCHANGED <<results, admitted, doomed, newest>>
  /\ UNCHANGED <<ready, token, owed, chatWs, connected, timer, manual, screen, approvals, bounds>>

\* 'auth:result' of a token that was accepted.
Accepted(s) ==
  /\ <<s, TRUE>> \in results /\ ready[s] = "open"
  /\ results' = results \ {<<s, TRUE>>}
  /\ connected' = TRUE
  /\ SetChatState("ready")
  /\ UNCHANGED <<ready, token, greeted, admitted, doomed, newest, owed, chatWs, timer, manual, bubble,
                 approvals, bounds>>

\* Of one that was not: chatWs is closed, which need not be the socket that was
\* refused, and may be null, which ends the handler.
Rejected(s) ==
  /\ <<s, FALSE>> \in results /\ ready[s] = "open"
  /\ results' = results \ {<<s, FALSE>>}
  /\ ready' = IF HasSock THEN [ready EXCEPT ![chatWs] = "closing"] ELSE ready
  /\ IF chatWs = NoSock THEN UNCHANGED <<shown, sendOn>> ELSE SetChatState("error")
  /\ UNCHANGED <<token, greeted, admitted, doomed, newest, owed, chatWs, connected, timer, manual, bubble,
                 approvals, bounds>>

\* The gateway forgets a closed socket: handleConnection(), ws.on('close').
Forgotten(s) ==
  /\ greeted' = greeted \ {s}
  /\ results' = {p \in results : p[1] # s}
  /\ admitted' = admitted \ {s}
  /\ doomed' = doomed \ {s}
  /\ newest' = IF newest = s THEN NoSock ELSE newest
  /\ owed' = owed \ {s}
  /\ asked' = {p \in asked : p[1] # s}
  /\ pending' = [k \in Requests |-> IF pending[k] = s THEN NoSock ELSE pending[k]]

\* Mutant of SocketClosed: the badge is left to the next connection.
ClosedUnshown(s) ==
  /\ ready' = [ready EXCEPT ![s] = "closed"]
  /\ Forgotten(s)
  /\ connected' = FALSE
  /\ bubble' = FALSE
  /\ timer' = (timer \/ ~manual)
  /\ UNCHANGED <<token, chatWs, manual, shown, sendOn, cards, said>>

\* Mutant of SocketClosed: only a connection that was in use is made again.
ClosedForGood(s) ==
  /\ ready' = [ready EXCEPT ![s] = "closed"]
  /\ Forgotten(s)
  /\ connected' = FALSE
  /\ bubble' = FALSE
  /\ SetChatState("disconnected")
  /\ timer' = (timer \/ (~manual /\ connected))
  /\ UNCHANGED <<token, chatWs, manual, cards, said>>

\* onclose, of whichever socket.
SocketClosed(s) ==
  /\ ready' = [ready EXCEPT ![s] = "closed"]
  /\ Forgotten(s)
  /\ connected' = FALSE
  /\ bubble' = FALSE
  /\ SetChatState("disconnected")
  /\ timer' = (timer \/ ~manual)
  /\ UNCHANGED <<token, chatWs, manual, cards, said>>

\* Assumption on the network: a socket opens and its challenge arrives sooner than
\* the gateway's 30 s for an authentication run out.
AllGreeted == \A s \in Socks : ready[s] # "connecting" /\ (ready[s] = "open" => s \in greeted)

\* The close that the page asked for, that the gateway makes 30 s after a socket
\* has not authenticated, or 100 ms after one has failed to.
CloseEnds(s) ==
  /\ \/ ready[s] = "closing"
     \/ ready[s] = "open" /\ s \in doomed /\ <<s, FALSE>> \notin results
     \/ ready[s] = "open" /\ s \in greeted \ admitted /\ AllGreeted
  /\ SocketClosed(s)
  /\ UNCHANGED bounds

\* The network or the gateway goes, or cannot be reached.
Drop(s) ==
  /\ drops < MaxDrops /\ Alive(s)
  /\ drops' = drops + 1
  /\ SocketClosed(s)
  /\ UNCHANGED <<clicks, sends>>

\* The back-off has passed: chatReconnectTimer, with the token of the login.
ReconnectChat ==
  /\ timer
  /\ timer' = FALSE
  /\ ChatConnect(TRUE)
  /\ UNCHANGED <<greeted, server, connected, manual, bubble, approvals, bounds>>

\* chatToggleConnect() when there is a connection.
DisconnectChat ==
  /\ clicks < MaxClicks /\ clicks' = clicks + 1
  /\ HasSock
  /\ manual' = TRUE
  /\ timer' = FALSE
  /\ ready' = [ready EXCEPT ![chatWs] = "closing"]
  /\ chatWs' = NoSock
  /\ connected' = FALSE
  /\ SetChatState("disconnected")
  /\ UNCHANGED <<token, greeted, server, bubble, approvals, drops, sends>>

\* When there is none, with the token typed in; a timer that is set stays so.
ConnectByHand ==
  /\ clicks < MaxClicks /\ clicks' = clicks + 1
  /\ ~HasSock
  /\ manual' = FALSE
  /\ \E good \in BOOLEAN : ChatConnect(good)
  /\ UNCHANGED <<greeted, server, connected, timer, bubble, approvals, drops, sends>>

----------------------------------------------------------------------------
(* Messages *)

\* chatSend(): the bubble of the user is made and the button disabled before
\* send(), which may throw.  An unauthenticated socket is answered with an error.
ChatSend ==
  /\ sends < MaxSends /\ sends' = sends + 1
  /\ sendOn /\ connected /\ chatWs # NoSock
  /\ sendOn' = FALSE
  /\ owed' = IF IsOpen THEN owed \cup {chatWs} ELSE owed
  /\ UNCHANGED <<ready, token, greeted, results, admitted, doomed, newest, chatWs, connected, timer, manual,
                 shown, bubble, approvals, drops, clicks>>

\* 'chat:stream:start' of a message that is being answered.
StreamStarts(s) ==
  /\ s \in owed \cap admitted /\ ready[s] = "open" /\ ~bubble
  /\ bubble' = TRUE
  /\ UNCHANGED <<ready, token, greeted, server, chatWs, connected, timer, manual, shown, sendOn,
                 approvals, bounds>>

\* 'chat:reply', or 'error', which does not end the streaming bubble.  The button
\* is enabled whichever socket brings it, and whatever state that of chatWs is.
Reply(s) ==
  /\ s \in owed /\ ready[s] = "open"
  /\ owed' = owed \ {s}
  /\ sendOn' = TRUE
  /\ bubble' \in {bubble, FALSE}
  /\ UNCHANGED <<ready, token, greeted, results, admitted, doomed, newest, chatWs, connected, timer, manual,
                 shown, approvals, bounds>>

----------------------------------------------------------------------------
(* Approval cards *)

\* requestApprovalFromActiveClient(): the client that authenticated last, of those that
\* are open to the gateway, which a socket the page is closing may be or not be.
Ask(k) ==
  /\ k \notin cards \cup said /\ \A s \in Socks : <<s, k>> \notin asked
  /\ pending[k] = NoSock
  /\ \E s \in admitted :
       /\ ready[s] \in {"open", "closing"}
       /\ newest # NoSock => s = newest \/ ready[newest] = "closing"
       /\ pending' = [pending EXCEPT ![k] = s]
       /\ asked' = asked \cup {<<s, k>>}
  /\ UNCHANGED <<ready, token, greeted, server, chatWs, connected, timer, manual, screen, cards, said,
                 bounds>>

\* 'tool:approval:request' has come, on a socket that is still open: showApprovalCard().
ShowCard(s, k) ==
  /\ <<s, k>> \in asked /\ ready[s] = "open"
  /\ asked' = asked \ {<<s, k>>}
  /\ cards' = cards \cup {k}
  /\ UNCHANGED <<ready, token, greeted, server, chatWs, connected, timer, manual, screen, pending, said,
                 bounds>>

\* respondApproval(): the card goes and "approved" or "denied" is shown, whether or
\* not the answer could be sent.  It travels on chatWs, not on the socket that asked.
Respond(k) ==
  /\ k \in cards
  /\ cards' = cards \ {k}
  /\ said' = said \cup {k}
  /\ pending' = [pending EXCEPT ![k] = IF IsOpen /\ chatWs \in admitted THEN NoSock ELSE @]
  /\ UNCHANGED <<ready, token, greeted, server, chatWs, connected, timer, manual, screen, asked,
                 bounds>>

\* The gateway's 60 s timer.
RequestTimesOut(k) ==
  /\ pending[k] # NoSock
  /\ pending' = [pending EXCEPT ![k] = NoSock]
  /\ UNCHANGED <<ready, token, greeted, server, chatWs, connected, timer, manual, screen, asked, cards,
                 said, bounds>>

\* The card's countdown of 60 s, which begins after the gateway's.
CardTimesOut(k) ==
  /\ k \in cards /\ pending[k] = NoSock
  /\ cards' = cards \ {k}
  /\ said' = said \cup {k}
  /\ UNCHANGED <<ready, token, greeted, server, chatWs, connected, timer, manual, screen, asked, pending,
                 bounds>>

----------------------------------------------------------------------------

SockStep(s) == Opened(s) \/ Challenged(s) \/ Accepted(s) \/ Rejected(s) \/ CloseEnds(s)

ChatNext ==
  \/ \E s \in Socks : SockStep(s) \/ Drop(s) \/ StreamStarts(s) \/ Reply(s)
  \/ \E s \in Socks, k \in Requests : ShowCard(s, k)
  \/ \E k \in Requests : Ask(k) \/ Respond(k) \/ RequestTimesOut(k) \/ CardTimesOut(k)
  \/ ReconnectChat \/ DisconnectChat \/ ConnectByHand \/ ChatSend

\* The network delivers, the browser's timers fire, and the gateway answers a
\* message it was sent (every path of handleChatMessage() ends in a reply or an
\* error).  Nobody has to click, to send or to answer a card.
ChatFairness ==
  /\ \A s \in Socks : WF_chatVars(SockStep(s)) /\ WF_chatVars(Reply(s))
  /\ WF_chatVars(ReconnectChat)

ChatSpec == ChatInit /\ [][ChatNext]_chatVars /\ ChatFairness

----------------------------------------------------------------------------
(* Properties *)

\* Every variable holds a value of its kind.
ChatTypeOK ==
  /\ ready \in [Socks -> {"connecting", "open", "closing", "closed"}]
  /\ token \in [Socks -> BOOLEAN]
  /\ greeted \subseteq Socks /\ admitted \subseteq Socks /\ doomed \subseteq Socks
  /\ owed \subseteq Socks
  /\ results \subseteq Socks \X BOOLEAN
  /\ newest \in Socks \cup {NoSock} /\ chatWs \in Socks \cup {NoSock}
  /\ connected \in BOOLEAN /\ timer \in BOOLEAN /\ manual \in BOOLEAN
  /\ shown \in {"disconnected", "connecting", "authenticating", "ready", "error"}
  /\ sendOn \in BOOLEAN /\ bubble \in BOOLEAN
  /\ asked \subseteq Socks \X Requests
  /\ cards \subseteq Requests /\ said \subseteq Requests
  /\ pending \in [Requests -> Socks \cup {NoSock}]

\* The badge says CONNECTED only while some socket is authenticated and has not
\* been closed yet, although sockets that were replaced write it too.
ReadyIsTrue ==
  shown = "ready" => \E s \in Socks : s \in admitted /\ ready[s] \in {"open", "closing"}

\* A request the gateway waits for is on its way to the page, or has its card, unless
\* the user has answered it: no reconnect and no close of another socket takes the
\* question away, on either side.
PendingIsShown ==
  \A k \in Requests :
    pending[k] # NoSock => <<pending[k], k>> \in asked \/ k \in cards \cup said

\* A page that was not disconnected by hand comes back: it is authenticated again
\* after every loss, wrong token and double connection.
Reconnects == ~manual ~> ((connected /\ shown = "ready") \/ manual)

\* A button disabled by a message or a lost connection is enabled again.
InputReturns == ~sendOn ~> (sendOn \/ manual)

============================================================================
