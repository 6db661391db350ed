------------------------------ MODULE EventFeed ------------------------------
(***************************************************************************)
(* The stream of events from the gateway to the dashboard page: the page's *)
(* EventSource (connect() and logout() of src/dashboard/dashboard-html.ts) *)
(* and the gateway's answer (src/dashboard/dashboard-server.ts).           *)
(*                                                                         *)
(* An EventSource that loses its connection reconnects by itself; one that *)
(* is refused is closed.  Both are reported to onerror, which asks the     *)
(* gateway for the same stream with fetch() to see whether the token still *)
(* holds.  If not, the page goes to the login page; if so, and if nobody   *)
(* answers, it closes es and sets a timer for a new one.  Several of these *)
(* can be under way at once.                                               *)
(***************************************************************************)
EXTENDS Integers, FiniteSets

CONSTANTS
  Streams,    \* bound: EventSources at once
  Probes,     \* bound: onerror calls that await their fetch
  MaxErrors,  \* bound: losses and failed attempts while the gateway runs
  MaxFeedRestarts, \* bound: restarts of the gateway
  MaxLockouts \* bound: times the gateway begins to refuse the page's token

ASSUME EventFeedAssumption ==
  /\ IsFiniteSet(Streams) /\ IsFiniteSet(Probes)
  /\ MaxErrors \in Nat /\ MaxFeedRestarts \in Nat /\ MaxLockouts \in Nat

VARIABLES
  stream,   \* an EventSource: its readyState, or "lost" or "refused" until onerror begins
  es,       \* the stream the page's es names
  probe,    \* an onerror call: "none" or "fetching"
  timers,   \* timers that will call connect()
  live,     \* the dot of the page
  away,     \* the page has gone to /login
  up,       \* the gateway runs
  refusing, \* and answers the page's token with 401
  errors, feedRestarts, lockouts

feedVars == <<stream, es, probe, timers, live, away, up, refusing,
              errors, feedRestarts, lockouts>>

pageOfFeed == <<stream, es, probe, timers, live, away>>
feedBounds == <<errors, feedRestarts, lockouts>>

\* connect().
ConnectFeed ==
  \E s \in Streams :
    /\ stream[s] = "closed"
    /\ stream' = [stream EXCEPT ![s] = "connecting"]
    /\ es' = s

FeedInit ==
  /\ es \in Streams
  /\ stream = [s \in Streams |-> IF s = es THEN "connecting" ELSE "closed"]
  /\ probe = [p \in Probes |-> "none"]
  /\ timers = 0
  /\ live = FALSE /\ away = FALSE
  /\ up = TRUE /\ refusing = FALSE
  /\ errors = 0 /\ feedRestarts = 0 /\ lockouts = 0

\* checkAuth() and handleSse(), and the first snapshot on the page.
Established(s) ==
  /\ stream[s] = "connecting" /\ up /\ ~refusing
  /\ stream' = [stream EXCEPT ![s] = "open"]
  /\ live' = TRUE
  /\ UNCHANGED <<es, probe, timers, away, up, refusing, feedBounds>>

\* checkAuth() answers 401, after which an EventSource does not try again.
Refused(s) ==
  /\ stream[s] = "connecting" /\ up /\ refusing
  /\ stream' = [stream EXCEPT ![s] = "refused"]
  /\ UNCHANGED <<es, probe, timers, live, away, up, refusing, feedBounds>>

\* The connection of a stream is lost, or an attempt to make it has failed.
Lose(s) ==
  /\ errors < MaxErrors /\ errors' = errors + 1
  /\ stream[s] \in {"connecting", "open"}
  /\ stream' = [stream EXCEPT ![s] = "lost"]
  /\ UNCHANGED <<es, probe, timers, live, away, up, refusing, feedRestarts, lockouts>>

\* onerror, up to its await; after a loss the browser reconnects on its own.
OnError(s) ==
  /\ stream[s] \in {"lost", "refused"}
  /\ stream' = [stream EXCEPT ![s] = IF @ = "lost" THEN "connecting" ELSE "closed"]
  /\ \E p \in Probes : probe[p] = "none" /\ probe' = [probe EXCEPT ![p] = "fetching"]
  /\ UNCHANGED <<es, timers, live, away, up, refusing, feedBounds>>

\* logout(): the page is left, and all that belongs to it ends.
Logout ==
  /\ away' = TRUE
  /\ stream' = [s \in Streams |-> "closed"]
  /\ probe' = [p \in Probes |-> "none"]
  /\ timers' = 0 /\ live' = FALSE
  /\ UNCHANGED es

\* Mutant of ProbeEnds: a page that is being reconnected already is left alone.
ProbeEndsOnce(p) ==
  /\ probe[p] = "fetching"
  /\ \/ up /\ refusing /\ Logout
     \/ /\ ~(up /\ refusing)
        /\ probe' = [probe EXCEPT ![p] = "none"]
        /\ live' = FALSE
        /\ stream' = [stream EXCEPT ![es] = "closed"]
        /\ timers' = IF stream[es] = "open" THEN timers ELSE timers + 1
        /\ UNCHANGED <<es, away>>
  /\ UNCHANGED <<up, refusing, feedBounds>>

\* The rest of onerror, after the fetch.  Unless the answer is 401, es is closed, which
\* need not be the stream that was lost or refused, and may be open again.
ProbeEnds(p) ==
  /\ probe[p] = "fetching"
  /\ \/ up /\ refusing /\ Logout
     \/ /\ ~(up /\ refusing)
        /\ probe' = [probe EXCEPT ![p] = "none"]
        /\ live' = FALSE
        /\ stream' = [stream EXCEPT ![es] = "closed"]
        /\ timers' = timers + 1
        /\ UNCHANGED <<es, away>>
  /\ UNCHANGED <<up, refusing, feedBounds>>

\* The back-off has passed.
ReconnectFeed ==
  /\ timers > 0 /\ timers' = timers - 1
  /\ ConnectFeed
  /\ UNCHANGED <<probe, live, away, up, refusing, feedBounds>>

\* Too many failed attempts from the page's address, or the token expires.
LockOut ==
  /\ up /\ ~refusing /\ lockouts < MaxLockouts /\ lockouts' = lockouts + 1
  /\ refusing' = TRUE
  /\ UNCHANGED <<pageOfFeed, up, errors, feedRestarts>>

\* The lockout of the address ends, or the token is replaced.
Unlock ==
  /\ refusing /\ refusing' = FALSE
  /\ UNCHANGED <<pageOfFeed, up, feedBounds>>

\* The user gives a valid token on the login page, which opens the dashboard anew.
LogIn ==
  /\ away /\ away' = FALSE
  /\ up /\ ~refusing
  /\ ConnectFeed
  /\ UNCHANGED <<probe, timers, live, up, refusing, feedBounds>>

\* The end of the process: every response ends, and lockouts, which are kept in
\* memory, are gone; an expired token is not.
GoDown ==
  /\ up /\ feedRestarts < MaxFeedRestarts /\ feedRestarts' = feedRestarts + 1
  /\ up' = FALSE
  /\ refusing' \in {FALSE, refusing}
  /\ stream' = [s \in Streams |-> IF stream[s] = "open" THEN "lost" ELSE stream[s]]
  /\ UNCHANGED <<es, probe, timers, live, away, errors, lockouts>>

ComeUp ==
  /\ ~up /\ up' = TRUE
  /\ UNCHANGED <<pageOfFeed, refusing, feedBounds>>

FeedNext ==
  \/ \E s \in Streams : Established(s) \/ Refused(s) \/ Lose(s) \/ OnError(s)
  \/ \E p \in Probes : ProbeEnds(p)
  \/ ReconnectFeed \/ LockOut \/ Unlock \/ LogIn \/ GoDown \/ ComeUp

\* The gateway answers, the browser goes on trying, its fetches end and its timers
\* fire; a gateway that went down is started again.  A lockout need not end, and
\* nobody has to log in again.
FeedFairness ==
  /\ \A s \in Streams :
       WF_feedVars(Established(s)) /\ WF_feedVars(Refused(s)) /\ WF_feedVars(OnError(s))
  /\ \A p \in Probes : WF_feedVars(ProbeEnds(p))
  /\ WF_feedVars(ReconnectFeed) /\ WF_feedVars(ComeUp)

FeedSpec == FeedInit /\ [][FeedNext]_feedVars /\ FeedFairness

----------------------------------------------------------------------------
(* Properties *)

\* Every variable holds a value of its kind.
FeedTypeOK ==
  /\ stream \in [Streams -> {"connecting", "open", "lost", "refused", "closed"}]
  /\ es \in Streams
  /\ probe \in [Probes -> {"none", "fetching"}]
  /\ timers \in Nat
  /\ live \in BOOLEAN /\ away \in BOOLEAN /\ up \in BOOLEAN /\ refusing \in BOOLEAN
  /\ errors \in 0..MaxErrors /\ feedRestarts \in 0..MaxFeedRestarts
  /\ lockouts \in 0..MaxLockouts

\* A page that is not at the login page never gives up its feed: while es is closed a
\* timer will open another, or an onerror call is still under way.  Overlapping onerror
\* calls close streams that other calls' timers have opened.
FeedIsPursued ==
  ~away /\ stream[es] = "closed" =>
    timers > 0 \/ \E p \in Probes : probe[p] = "fetching"

\* After every loss, restart and lockout the page is live again and stays so, or it is at
\* the login page: no overlap of onerror calls leaves it on the dashboard with es closed
\* and nothing set to open it again.
FeedComesBack == <>[](away \/ (live /\ stream[es] = "open"))

============================================================================
