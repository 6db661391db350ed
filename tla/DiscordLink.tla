----------------------------- MODULE DiscordLink -----------------------------
(***************************************************************************)
(* One Discord adapter's link to Discord's gateway: the socket, the        *)
(* reconnect and heartbeat timers, and the session it resumes              *)
(* (src/messaging/discord-adapter.ts).                                     *)
(*                                                                         *)
(* A connection makes an adapter, starts it once and stops it at most      *)
(* once.  Counts of timers end at two: more than two are as two.           *)
(***************************************************************************)
EXTENDS Integers

VARIABLES
  socket,   \* "none", "connecting", "open", "refused", "ready" or "closing"
  running, stopping,  \* the adapter's flags
  retry,    \* a reconnect timer is pending
  session,  \* the adapter has a session id
  valid,    \* Discord still knows that session
  resumes,  \* the socket's greeting was answered with Resume
  closers,  \* timers that will close the socket, set by InvalidSession
  late,     \* a socket that stop() closed has still to report it
  firsts,   \* timers of first heartbeats
  held,     \* heartbeatInterval is set
  beats,    \* intervals that run
  crossed   \* history: the link changed while a first heartbeat was pending

flags == <<running, stopping>>
sessions == <<session, valid, resumes>>
hearts == <<firsts, held, beats, crossed>>
linkVars == <<socket, flags, retry, sessions, closers, late, hearts>>

Up(n) == IF n < 2 THEN n + 1 ELSE n
Live == {"connecting", "open", "refused", "ready", "closing"}
Greeted == {"open", "ready"}

\* start(), once the bot's identity is known.
LinkInit ==
  /\ socket = "connecting" /\ running = TRUE /\ stopping = FALSE
  /\ retry = FALSE /\ session = FALSE /\ valid = FALSE /\ resumes = FALSE
  /\ closers = 0 /\ late = FALSE
  /\ firsts = 0 /\ held = FALSE /\ beats = 0 /\ crossed = FALSE

\* clearHeartbeat(): the interval, not the timer that is to set one.
ClearHeartbeat ==
  /\ held' = FALSE
  /\ beats' = IF held THEN beats - 1 ELSE beats
  /\ crossed' = (crossed \/ firsts > 0)

LinkStop ==
  /\ ~stopping /\ running
  /\ stopping' = TRUE /\ running' = FALSE
  /\ ClearHeartbeat
  /\ socket' = "none"
  /\ late' = (socket \in Live)
  /\ UNCHANGED <<retry, sessions, closers, firsts>>

\* Hello: the first heartbeat is timed, and the adapter resumes or identifies.
Hello ==
  /\ socket = "connecting"
  /\ socket' = "open"
  /\ resumes' = session
  /\ ClearHeartbeat
  /\ firsts' = Up(firsts)
  /\ UNCHANGED <<flags, retry, session, valid, closers, late>>

\* READY: a session of its own; or the resumed one goes on.
Ready ==
  /\ socket = "open"
  /\ resumes => valid
  /\ socket' = "ready"
  /\ session' = TRUE /\ valid' = TRUE
  /\ UNCHANGED <<flags, retry, resumes, closers, late, hearts>>

\* Mutant of Invalid: the session is kept.
InvalidKept(resumable) ==
  /\ socket = "open"
  /\ resumable => valid
  /\ socket' = "refused"
  /\ closers' = Up(closers)
  /\ UNCHANGED <<flags, retry, sessions, late, hearts>>

\* InvalidSession: the session is dropped unless it may be resumed, and the socket,
\* whichever it is by then, closed after a pause.
Invalid(resumable) ==
  /\ socket = "open"
  /\ resumable => valid
  /\ socket' = "refused"
  /\ session' = (session /\ resumable)
  /\ closers' = Up(closers)
  /\ UNCHANGED <<flags, retry, valid, resumes, late, hearts>>

CloserFires ==
  /\ closers > 0
  /\ closers' = closers - 1
  /\ socket' = IF socket \in Live THEN "closing" ELSE socket
  /\ UNCHANGED <<flags, retry, sessions, late, hearts>>

\* Reconnect: Discord asks for another socket.
Reconnect ==
  /\ socket \in Greeted
  /\ socket' = "closing"
  /\ UNCHANGED <<flags, retry, sessions, closers, late, hearts>>

\* The socket has closed: with a bad token or intent for good, else to be tried again.
Closed(fatal) ==
  /\ socket \in Live
  /\ fatal => socket = "open"
  /\ socket' = "none"
  /\ ClearHeartbeat
  /\ running' = ~fatal
  /\ retry' = ~fatal
  /\ UNCHANGED <<stopping, sessions, closers, late, firsts>>

LateClosed ==
  /\ late
  /\ late' = FALSE
  /\ ClearHeartbeat
  /\ UNCHANGED <<socket, flags, retry, sessions, closers, firsts>>

RetryFires ==
  /\ retry
  /\ retry' = FALSE
  /\ socket' = IF stopping THEN socket ELSE "connecting"
  /\ UNCHANGED <<flags, sessions, closers, late, hearts>>

\* The first heartbeat starts the interval, whatever has become of the link.
FirstBeat ==
  /\ firsts > 0
  /\ firsts' = firsts - 1
  /\ held' = TRUE
  /\ beats' = Up(beats)
  /\ UNCHANGED <<socket, flags, retry, sessions, closers, late, crossed>>

\* Discord forgets a session.
SessionDies ==
  /\ valid /\ socket # "ready"
  /\ valid' = FALSE
  /\ UNCHANGED <<socket, flags, retry, session, resumes, closers, late, hearts>>

LinkNext ==
  \/ LinkStop \/ Hello \/ Ready \/ CloserFires \/ Reconnect
  \/ LateClosed \/ RetryFires \/ FirstBeat \/ SessionDies
  \/ \E b \in BOOLEAN : Invalid(b) \/ Closed(b)

LinkSpec == LinkInit /\ [][LinkNext]_linkVars

\* Timers fire, sockets that are closed report it, and a handshake that is tried for
\* ever is answered now and then.
LinkFairness ==
  /\ WF_linkVars(RetryFires) /\ WF_linkVars(CloserFires)
  /\ WF_linkVars(socket = "closing" /\ Closed(FALSE))
  /\ SF_linkVars(Hello) /\ SF_linkVars(Ready)
  /\ SF_linkVars(socket = "open" /\ resumes /\ ~valid /\ Invalid(FALSE))

----------------------------------------------------------------------------
(* Properties *)

\* Every variable holds a value of its kind.
LinkTypeOK ==
  /\ socket \in Live \cup {"none"}
  /\ {running, stopping, retry, session, valid, resumes, late, held, crossed} \subseteq BOOLEAN
  /\ {closers, firsts, beats} \subseteq 0..2

\* An adapter that runs has a socket or is about to make one, and one that does not
\* run has no interval left, unless the timer of a first heartbeat outlived a change
\* of the link: it then starts an interval that the next one, or nobody, replaces.
StoppedIsSilent ==
  /\ running => socket \in Live \/ retry
  /\ ~running /\ ~crossed /\ firsts = 0 => beats = 0

\* However often the link breaks, an adapter that is not stopped is ready again,
\* unless Discord refuses its token.
ComesBack == running ~> socket = "ready" \/ ~running

=============================================================================
