----------------------------- MODULE Connections -----------------------------
(***************************************************************************)
(* Bot connections and the Telegram adapters that serve them: connect,     *)
(* disconnect and remove on the dashboard, the start-up loop, and each     *)
(* adapter's polling of its bot (src/messaging/messaging-manager.ts,       *)
(* telegram-adapter.ts, src/dashboard/connection-routes.ts,                *)
(* credential-routes.ts, src/gateway/server.ts).                           *)
(*                                                                         *)
(* Main is the bot of the credential store, whose adapters are in the      *)
(* manager's list; the other connections are rows of the connection store, *)
(* whose adapters are in its map (the configuration file names no bot of   *)
(* its own).  Stopping an adapter awaits nothing, so it is one step with   *)
(* what follows it.  A message has been handled when the adapter has       *)
(* passed it on, or dropped it for its chat.                               *)
(***************************************************************************)
EXTENDS Integers, FiniteSets, Sequences, Functions

CONSTANTS
  Ids,         \* connections, Main among them
  Main,
  Adapters,    \* bound: adapters made
  MaxSent,     \* bound: messages sent to one bot
  MaxRestarts, \* bound: restarts of the gateway
  NoAdapter

Updates == 1..MaxSent

ASSUME ConnectionsAssumption ==
  /\ IsFiniteSet(Adapters) /\ NoAdapter \notin Adapters
  /\ Main \in Ids
  /\ MaxSent \in Nat /\ MaxRestarts \in Nat

VARIABLES
  conn,       \* "none", "off" or "on": the row and its connected_at; Main's token
  entered,    \* id -> its adapters in the manager, in order
  wired,      \* whether the routes have the manager
  todo,       \* connections the start-up loop has still to start
  booting,    \* the adapter the start-up loop awaits
  servedBy,   \* adapter -> its connection
  poll,       \* "new", "starting", "polling", "waiting" or "off"
  stopSignal, \* adapters told to stop
  offset,     \* adapter -> the next update it asks for
  sent,       \* at Telegram: messages sent to the bot
  confirmed,  \* at Telegram: the updates an offset has confirmed
  handled,    \* history: id -> update -> how often it was handled
  overlapped, \* history: connections touched while a start of theirs was awaited
  restarts

routes == <<conn, entered, overlapped>>
startup == <<wired, todo, booting>>
adapterVars == <<servedBy, poll, stopSignal, offset>>
telegram == <<sent, confirmed, handled>>
connVars == <<routes, startup, adapterVars, telegram, restarts>>

Unused == {a \in Adapters : poll[a] = "new"}
NewAdapter == CHOOSE a \in Unused : TRUE
StartsOf(id) == {a \in Adapters : poll[a] = "starting" /\ servedBy[a] = id}
Touched(id) == IF StartsOf(id) = {} THEN overlapped ELSE overlapped \cup {id}

ConnInit ==
  /\ conn \in [Ids -> {"none", "off", "on"}]
  /\ conn[Main] # "off"
  /\ entered = [id \in Ids |-> <<>>]
  /\ wired = FALSE /\ booting = NoAdapter
  /\ todo = IF conn[Main] = "on" THEN {Main} ELSE {}
  /\ servedBy = [a \in Adapters |-> Main]
  /\ poll = [a \in Adapters |-> "new"]
  /\ stopSignal = {}
  /\ offset = [a \in Adapters |-> 0]
  /\ sent = [id \in Ids |-> 0]
  /\ confirmed = [id \in Ids |-> 0]
  /\ handled = [id \in Ids |-> [u \in Updates |-> 0]]
  /\ overlapped = {} /\ restarts = 0

----------------------------------------------------------------------------
(* The manager *)

\* The first adapter of a connection is stopped, all of them are forgotten.
StopFirst(id) ==
  /\ stopSignal' = IF entered[id] = <<>> THEN stopSignal
                                         ELSE stopSignal \cup {Head(entered[id])}
  /\ entered' = [entered EXCEPT ![id] = <<>>]
  /\ overlapped' = Touched(id)

\* Mutant of BeginStart: an adapter that is there is left running.
BeginStartBeside(id, a) ==
  /\ Unused # {}
  /\ overlapped' = Touched(id)
  /\ entered' = [entered EXCEPT ![id] = <<>>]
  /\ servedBy' = [servedBy EXCEPT ![a] = id]
  /\ poll' = [poll EXCEPT ![a] = "starting"]
  /\ UNCHANGED stopSignal

\* startNamedConnection(), startTelegram(), up to the bot's answer to getMe.
BeginStart(id, a) ==
  /\ Unused # {}
  /\ StopFirst(id)
  /\ servedBy' = [servedBy EXCEPT ![a] = id]
  /\ poll' = [poll EXCEPT ![a] = "starting"]

\* A route's start: the row exists, and the routes have the manager.
Connect(id) ==
  /\ wired
  /\ id = Main \/ conn[id] # "none"
  /\ BeginStart(id, NewAdapter)
  /\ UNCHANGED <<conn, startup, offset, telegram, restarts>>

\* The bot has answered: the adapter polls, is entered, and the row, if there still
\* is one, says connected.
Started(a) ==
  LET id == servedBy[a]
  IN /\ poll[a] = "starting"
     /\ poll' = [poll EXCEPT ![a] = "polling"]
     /\ entered' = [entered EXCEPT ![id] = IF id = Main THEN Append(@, a) ELSE <<a>>]
     /\ conn' = IF id = Main \/ conn[id] # "none" THEN [conn EXCEPT ![id] = "on"] ELSE conn
     /\ booting' = IF booting = a THEN NoAdapter ELSE booting
     /\ UNCHANGED <<overlapped, wired, todo, servedBy, stopSignal, offset, telegram, restarts>>

\* It has not: no adapter, and the row is as it was.
StartFails(a) ==
  /\ poll[a] = "starting"
  /\ poll' = [poll EXCEPT ![a] = "off"]
  /\ booting' = IF booting = a THEN NoAdapter ELSE booting
  /\ UNCHANGED <<routes, wired, todo, servedBy, stopSignal, offset, telegram, restarts>>

\* Main's token is deleted, a connection's connected_at cleared.
Disconnect(id) ==
  /\ wired /\ conn[id] # "none"
  /\ StopFirst(id)
  /\ conn' = [conn EXCEPT ![id] = IF id = Main THEN "none" ELSE "off"]
  /\ UNCHANGED <<startup, servedBy, poll, offset, telegram, restarts>>

\* DELETE: also before the routes have the manager, and then nothing is stopped.
Remove(id) ==
  /\ id # Main /\ conn[id] # "none"
  /\ IF wired THEN StopFirst(id) ELSE UNCHANGED <<stopSignal, entered, overlapped>>
  /\ conn' = [conn EXCEPT ![id] = "none"]
  /\ UNCHANGED <<startup, servedBy, poll, offset, telegram, restarts>>

CreateConnection(id) ==
  /\ id # Main /\ conn[id] = "none"
  /\ \A a \in Adapters : servedBy[a] # id   \* ids are not used again
  /\ conn' = [conn EXCEPT ![id] = "off"]
  /\ UNCHANGED <<entered, overlapped, startup, adapterVars, telegram, restarts>>

----------------------------------------------------------------------------
(* The start-up and the end of the gateway *)

\* The next connection of the loop; a row that was deleted meanwhile is passed over.
StartNext ==
  /\ booting = NoAdapter /\ todo # {}
  /\ \E id \in todo :
       /\ todo' = todo \ {id}
       /\ IF conn[id] = "none"
            THEN UNCHANGED <<booting, entered, overlapped, servedBy, poll, stopSignal>>
            ELSE BeginStart(id, NewAdapter) /\ booting' = NewAdapter
  /\ UNCHANGED <<conn, wired, offset, telegram, restarts>>

\* After Main's start the routes get the manager, and the rows are listed.
Wire ==
  /\ ~wired /\ todo = {} /\ booting = NoAdapter
  /\ wired' = TRUE
  /\ todo' = {id \in Ids \ {Main} : conn[id] # "none"}
  /\ UNCHANGED <<routes, booting, adapterVars, telegram, restarts>>

\* The process ends, after stopAll() or without it, and another begins.
RestartAll ==
  /\ restarts < MaxRestarts
  /\ restarts' = restarts + 1
  /\ poll' = [a \in Adapters |-> IF poll[a] = "new" THEN "new" ELSE "off"]
  /\ entered' = [id \in Ids |-> <<>>]
  /\ wired' = FALSE /\ booting' = NoAdapter
  /\ todo' = IF conn[Main] = "on" THEN {Main} ELSE {}
  /\ overlapped' = {}
  /\ UNCHANGED <<conn, servedBy, stopSignal, offset, telegram>>

----------------------------------------------------------------------------
(* Polling *)

\* Somebody writes to the bot.
Send(id) ==
  /\ sent[id] < MaxSent
  /\ sent' = [sent EXCEPT ![id] = @ + 1]
  /\ UNCHANGED <<routes, startup, adapterVars, confirmed, handled, restarts>>

\* The head of the loop: getUpdates with the offset, which confirms what is below it.
NextPoll(a, next) ==
  LET id == servedBy[a]
  IN /\ offset' = [offset EXCEPT ![a] = next]
     /\ IF a \in stopSignal
          THEN poll' = [poll EXCEPT ![a] = "off"] /\ UNCHANGED confirmed
          ELSE /\ poll' = [poll EXCEPT ![a] = "polling"]
               /\ confirmed' = IF next - 1 > confirmed[id]
                                 THEN [confirmed EXCEPT ![id] = next - 1] ELSE confirmed

\* The updates from the offset on, those of a confirmed offset excepted; they are
\* handled even when the adapter was told to stop while it waited for them.
Receive(a) ==
  LET id == servedBy[a]
      new == {u \in Updates : u > confirmed[id] /\ u >= offset[a] /\ u <= sent[id]}
  IN /\ poll[a] = "polling" /\ new # {}
     /\ handled' = [handled EXCEPT ![id] = [u \in Updates |->
          IF u \in new THEN @[u] + 1 ELSE @[u]]]
     /\ NextPoll(a, sent[id] + 1)
     /\ UNCHANGED <<routes, startup, servedBy, stopSignal, sent, restarts>>

\* The long poll ends with nothing.
ReceiveNothing(a) ==
  /\ poll[a] = "polling"
  /\ NextPoll(a, offset[a])
  /\ UNCHANGED <<routes, startup, servedBy, stopSignal, sent, handled, restarts>>

\* Mutant of PollFails: the loop ends with the first failure.
PollFailsForGood(a) ==
  /\ poll[a] = "polling"
  /\ poll' = [poll EXCEPT ![a] = "off"]
  /\ UNCHANGED <<routes, startup, servedBy, stopSignal, offset, telegram, restarts>>

\* A failed request: a pause, unless the adapter was told to stop.
PollFails(a) ==
  /\ poll[a] = "polling"
  /\ poll' = [poll EXCEPT ![a] = IF a \in stopSignal THEN "off" ELSE "waiting"]
  /\ UNCHANGED <<routes, startup, servedBy, stopSignal, offset, telegram, restarts>>

Retry(a) ==
  /\ poll[a] = "waiting"
  /\ NextPoll(a, offset[a])
  /\ UNCHANGED <<routes, startup, servedBy, stopSignal, sent, handled, restarts>>

ConnNext ==
  \/ StartNext \/ Wire \/ RestartAll
  \/ \E id \in Ids : \/ Connect(id) \/ Disconnect(id) \/ Remove(id)
                     \/ CreateConnection(id) \/ Send(id)
  \/ \E a \in Adapters : \/ Started(a) \/ StartFails(a)
                         \/ Receive(a) \/ ReceiveNothing(a) \/ PollFails(a) \/ Retry(a)

ConnSpec == ConnInit /\ [][ConnNext]_connVars

\* Pauses end, and a poll repeated for ever succeeds now and then.
ConnFairness ==
  \A a \in Adapters : WF_connVars(Retry(a)) /\ SF_connVars(Receive(a))

----------------------------------------------------------------------------
(* Properties *)

\* Every variable holds a value of its kind.
ConnTypeOK ==
  /\ conn \in [Ids -> {"none", "off", "on"}]
  /\ entered \in [Ids -> Seq(Adapters)]
  /\ \A id \in Ids \ {Main} : Len(entered[id]) <= 1
  /\ booting \in Adapters \cup {NoAdapter} /\ todo \subseteq Ids
  /\ poll \in [Adapters -> {"new", "starting", "polling", "waiting", "off"}]
  /\ stopSignal \subseteq Adapters
  /\ offset \in [Adapters -> 0..MaxSent + 1]
  /\ \A id \in Ids : confirmed[id] <= sent[id]

\* An adapter that polls and was not told to stop is one the manager knows, and the
\* row of a connection whose adapter polls has not been removed; unless the
\* connection was touched while one of its starts was awaited: the adapter of that
\* start is entered over the other one, or beside a row that is gone.
RunningIsListed ==
  \A a \in Adapters :
    LET id == servedBy[a]
    IN poll[a] \in {"polling", "waiting"} /\ a \notin stopSignal /\ id \notin overlapped
         => a \in Range(entered[id]) /\ conn[id] # "none"

\* Telegram is told of an update only when it has been handled, by this process or
\* one before, and no adapter handles an update twice: whoever takes a bot over
\* begins with what its predecessor has not confirmed.
EachUpdateOncePerAdapter ==
  \A id \in Ids, u \in Updates :
    /\ u <= confirmed[id] => handled[id][u] >= 1
    /\ handled[id][u] <= Cardinality({a \in Adapters : poll[a] # "new" /\ servedBy[a] = id})

\* While a connection keeps an adapter, what is sent to its bot is handled.
EveryUpdateHandled ==
  \A id \in Ids, u \in Updates :
    u <= sent[id] /\ entered[id] # <<>> ~> handled[id][u] >= 1 \/ entered[id] = <<>>

=============================================================================
