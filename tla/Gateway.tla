------------------------------ MODULE Gateway ------------------------------
(***************************************************************************)
(* Tool calls that wait for a person (ToolExecutor.execute,                *)
(* src/agents/tool-executor.ts, and PolicyEngine.checkPermission,          *)
(* src/tools/policy-engine.ts), the two ways to ask one - a client of the  *)
(* gateway (src/gateway/server.ts) or buttons in a Telegram chat           *)
(* (src/messaging/telegram-adapter.ts) - and the gateway's connections,    *)
(* which such a request lives and dies with.                               *)
(*                                                                         *)
(* A call's request may end by an answer, by its timer, with the           *)
(* connection that was asked, or with the shutdown; the first to find the  *)
(* entry of pendingApprovals takes it.  Overrides and manifests, which     *)
(* checkPermission also looks at, are left out: nothing in this program    *)
(* grants an override or supplies the planner that would create a          *)
(* manifest.  Authentications of different connections never carry the     *)
(* same time stamp.                                                        *)
(***************************************************************************)
EXTENDS Integers, FiniteSets

CONSTANTS
  Conns,          \* connection ids
  MaxConnections, \* config.gateway.rateLimit.maxConnections
  Calls,          \* tool calls of agents
  ByTelegram,     \* those whose run was given the Telegram requester
  Tools,          \* tool names
  Denied,         \* tools the deny list matches, or that are not registered
  Allowed,        \* tools the allow list or the profile matches
  SkillTools,     \* tools of a skill that can be switched on and off
  None            \* no connection, no tool

ASSUME GatewayAssumption ==
  /\ IsFiniteSet(Conns)
  /\ MaxConnections \in Nat \ {0}
  /\ ByTelegram \subseteq Calls
  /\ Denied \subseteq Tools /\ Allowed \subseteq Tools /\ SkillTools \subseteq Tools
  /\ None \notin Conns \cup Tools

VARIABLES
  sock,       \* the state of a connection's socket; "refused" has no handlers
  listed,     \* the keys of connections
  authed,     \* connections with an authenticatedAt
  later,      \* the pairs of them whose first has the greater one
  doomed,     \* connections that failed to authenticate, to be closed in 100 ms
  skillAllow, \* skillAllowlist
  call,       \* how far a tool call has come
  tool,       \* the tool it asks for
  decision,   \* what the policy said of it
  pending,    \* pendingApprovals: the connection a waiting call was asked of
  asked,      \* the connection that has the request on its screen
  told,       \* the user's answer, given on a client or by a button
  presses,    \* buttons pressed, not yet handled by the bot
  bot,        \* the Telegram poll loop
  stage       \* the gateway's process

connVars == <<sock, listed, authed, later, doomed>>
callVars == <<call, tool, decision, pending, asked, told, presses>>
vars == <<connVars, callVars, skillAllow, bot, stage>>

Live(c) == sock[c] \in {"open", "closing"}
PairsWithout(c) == {p \in later : p[1] # c /\ p[2] # c}

----------------------------------------------------------------------------
(* Connections *)

Init ==
  /\ sock = [c \in Conns |-> "new"]
  /\ listed = {}
  /\ authed = {}
  /\ later = {}
  /\ doomed = {}
  /\ skillAllow = {}
  /\ call = [k \in Calls |-> "new"]
  /\ tool = [k \in Calls |-> None]
  /\ decision = [k \in Calls |-> "none"]
  /\ pending = [k \in Calls |-> None]
  /\ asked = [k \in Calls |-> None]
  /\ told = [k \in Calls |-> "none"]
  /\ presses = {}
  /\ bot = "polling"
  /\ stage = "up"

\* handleConnection(): over the rate limit, or the server is at capacity.
TurnAway(c) ==
  /\ sock[c] = "new"
  /\ sock' = [sock EXCEPT ![c] = "closed"]
  /\ UNCHANGED <<listed, authed, later, doomed, callVars>>

\* handleConnection(): the connection is listed before its challenge is made.  When
\* that is refused (a locked-out address) the handler ends before it has set the
\* timer and the handlers, and nothing takes the connection off the list again.
Connect(c) ==
  /\ sock[c] = "new" /\ Cardinality(listed) < MaxConnections
  /\ listed' = listed \cup {c}
  /\ \E s \in {"open", "refused"} : sock' = [sock EXCEPT ![c] = s]
  /\ UNCHANGED <<authed, later, doomed, callVars>>

\* The 30 s timer of a connection that has not authenticated.
AuthTimeout(c) ==
  /\ Live(c) /\ c \in listed /\ c \notin authed
  /\ sock' = [sock EXCEPT ![c] = "closing"]
  /\ listed' = listed \ {c}
  /\ UNCHANGED <<authed, later, doomed, callVars>>

\* handleAuth(): a valid token, from a connection that may have sent one before.
AuthSucceeds(c) ==
  /\ Live(c) /\ c \in listed
  /\ authed' = authed \cup {c}
  /\ later' = PairsWithout(c) \cup ({c} \X (authed \ {c}))
  /\ UNCHANGED <<sock, listed, doomed, callVars>>

\* handleAuth(): an invalid one; the socket will be closed, which does not unlist it.
AuthFails(c) ==
  /\ Live(c) /\ c \in listed
  /\ doomed' = doomed \cup {c}
  /\ UNCHANGED <<sock, listed, authed, later, callVars>>

CloseDoomed(c) ==
  /\ c \in doomed
  /\ doomed' = doomed \ {c}
  /\ sock' = [sock EXCEPT ![c] = IF @ = "open" THEN "closing" ELSE @]
  /\ UNCHANGED <<listed, authed, later, callVars>>

\* Mutant of Closed: the approvals asked of the connection are left.
ClosedLeavingApprovals(c) ==
  /\ Live(c)
  /\ sock' = [sock EXCEPT ![c] = "closed"]
  /\ listed' = listed \ {c}
  /\ authed' = authed \ {c}
  /\ later' = PairsWithout(c)
  /\ UNCHANGED <<doomed, callVars>>

\* The socket's close event, whichever side closed it.
Closed(c) ==
  /\ Live(c)
  /\ sock' = [sock EXCEPT ![c] = "closed"]
  /\ listed' = listed \ {c}
  /\ authed' = authed \ {c}
  /\ later' = PairsWithout(c)
  /\ call' = [k \in Calls |-> IF pending[k] = c THEN "denied" ELSE call[k]]
  /\ pending' = [k \in Calls |-> IF pending[k] = c THEN None ELSE pending[k]]
  /\ UNCHANGED <<doomed, tool, decision, asked, told, presses>>

----------------------------------------------------------------------------
(* Tool calls *)

\* checkPermission().
Permission(t) ==
  IF t \in Denied THEN "deny" ELSE IF t \in Allowed \cup skillAllow THEN "allow" ELSE "ask"

\* What execute() returns with: the tool ran, or it did not.
Outcome(approved) == IF approved THEN "ran" ELSE "denied"

\* The clients that can be asked, and whether one of them authenticated last.
Askable == {c \in authed \cap listed : sock[c] = "open"}
IsNewest(c) == c \in Askable /\ \A d \in Askable \ {c} : <<c, d>> \in later

\* execute(): the policy decides without a person.
Decide(k, t) ==
  LET p == Permission(t) IN
  /\ call[k] = "new" /\ p # "ask"
  /\ tool' = [tool EXCEPT ![k] = t]
  /\ decision' = [decision EXCEPT ![k] = p]
  /\ call' = [call EXCEPT ![k] = Outcome(p = "allow")]
  /\ UNCHANGED <<pending, asked, told, presses, connVars>>

\* Mutant of AskClient: without a client the call waits for one.
AskClientWaiting(k, t) ==
  /\ call[k] = "new" /\ k \notin ByTelegram /\ Permission(t) = "ask"
  /\ tool' = [tool EXCEPT ![k] = t]
  /\ decision' = [decision EXCEPT ![k] = "ask"]
  /\ call' = [call EXCEPT ![k] = "waiting"]
  /\ \E c \in Conns \cup {None} :
       /\ IF Askable = {} THEN c = None ELSE IsNewest(c)
       /\ pending' = [pending EXCEPT ![k] = c]
       /\ asked' = [asked EXCEPT ![k] = c]
  /\ UNCHANGED <<told, presses, connVars>>

\* requestApprovalFromActiveClient(): with no client to ask, the call is denied.
AskClient(k, t) ==
  /\ call[k] = "new" /\ k \notin ByTelegram /\ Permission(t) = "ask"
  /\ tool' = [tool EXCEPT ![k] = t]
  /\ decision' = [decision EXCEPT ![k] = "ask"]
  /\ \/ /\ Askable = {}
        /\ call' = [call EXCEPT ![k] = "denied"]
        /\ UNCHANGED <<pending, asked>>
     \/ \E c \in Conns :
          /\ IsNewest(c)
          /\ call' = [call EXCEPT ![k] = "waiting"]
          /\ pending' = [pending EXCEPT ![k] = c]
          /\ asked' = [asked EXCEPT ![k] = c]
  /\ UNCHANGED <<told, presses, connVars>>

\* handleApprovalResponse(): an answer that finds no entry, since the timer, the
\* close event or the shutdown was first, changes nothing.
Answer(k, ans) ==
  LET c == asked[k] IN
  /\ c \in listed /\ Live(c) /\ told[k] = "none"
  /\ told' = [told EXCEPT ![k] = ans]
  /\ pending' = [pending EXCEPT ![k] = None]
  /\ call' = [call EXCEPT ![k] = IF pending[k] = None THEN @ ELSE Outcome(ans = "approve")]
  /\ UNCHANGED <<tool, decision, asked, presses, connVars>>

\* Mutant of ApprovalTimeout: silence is consent.
ApprovalTimeoutAllows(k) ==
  /\ pending[k] # None
  /\ pending' = [pending EXCEPT ![k] = None]
  /\ call' = [call EXCEPT ![k] = "ran"]
  /\ UNCHANGED <<tool, decision, asked, told, presses, connVars>>

\* The 60 s timer of a request.
ApprovalTimeout(k) ==
  /\ pending[k] # None
  /\ pending' = [pending EXCEPT ![k] = None]
  /\ call' = [call EXCEPT ![k] = "denied"]
  /\ UNCHANGED <<tool, decision, asked, told, presses, connVars>>

\* requestApprovalViaTelegram(): the buttons are sent; the request is registered
\* only when sendMessage has returned, with an error or without.
AskTelegram(k, t) ==
  /\ call[k] = "new" /\ k \in ByTelegram /\ Permission(t) = "ask"
  /\ tool' = [tool EXCEPT ![k] = t]
  /\ decision' = [decision EXCEPT ![k] = "ask"]
  /\ call' = [call EXCEPT ![k] = "sending"]
  /\ UNCHANGED <<pending, asked, told, presses, connVars>>

Register(k) ==
  /\ call[k] = "sending"
  /\ call' = [call EXCEPT ![k] = "shown"]
  /\ UNCHANGED <<tool, decision, pending, asked, told, presses, connVars>>

\* The user sees the buttons as soon as Telegram has the message, and they stay
\* there after the request has timed out.
Press(k, ans) ==
  /\ k \in ByTelegram /\ decision[k] = "ask" /\ told[k] = "none"
  /\ told' = [told EXCEPT ![k] = ans]
  /\ presses' = presses \cup {k}
  /\ UNCHANGED <<call, tool, decision, pending, asked, connVars>>

\* handleCallbackQuery(): a press that finds no registered request is lost.
HandleCallback(k) ==
  /\ k \in presses /\ bot = "polling"
  /\ presses' = presses \ {k}
  /\ call' = [call EXCEPT ![k] = IF @ = "shown" THEN Outcome(told[k] = "approve") ELSE @]
  /\ UNCHANGED <<tool, decision, pending, asked, told, connVars>>

\* The 5 minute timer of a registered request.
TelegramTimeout(k) ==
  /\ call[k] = "shown"
  /\ call' = [call EXCEPT ![k] = "denied"]
  /\ UNCHANGED <<tool, decision, pending, asked, told, presses, connVars>>

----------------------------------------------------------------------------
(* The whole *)

\* applySkillState() after a skill was switched on or off: the list is replaced.
ToggleSkill ==
  /\ skillAllow' = SkillTools \ skillAllow
  /\ UNCHANGED <<connVars, callVars, bot, stage>>

\* The poll loop ends: stop() was called, and the getUpdates that was in flight has
\* returned and what it brought was handled.
StopBot ==
  /\ bot = "polling" /\ bot' = "stopped"
  /\ UNCHANGED <<connVars, callVars, skillAllow, stage>>

\* The part of shutdown() before its first await.  The server still accepts
\* connections until the adapters and MCP servers have stopped.
Shutdown ==
  /\ stage = "up" /\ stage' = "stopping"
  /\ call' = [k \in Calls |-> IF pending[k] # None THEN "denied" ELSE call[k]]
  /\ pending' = [k \in Calls |-> None]
  /\ sock' = [c \in Conns |-> IF c \in listed /\ sock[c] = "open" THEN "closing" ELSE sock[c]]
  /\ listed' = {}
  /\ UNCHANGED <<authed, later, doomed, tool, decision, asked, told, presses, skillAllow, bot>>

\* The rest of shutdown(), and process.exit().
Exit ==
  /\ stage = "stopping" /\ stage' = "exited"
  /\ UNCHANGED <<connVars, callVars, skillAllow, bot>>

ConnStep(c) ==
  \/ TurnAway(c) \/ Connect(c) \/ AuthTimeout(c) \/ AuthSucceeds(c) \/ AuthFails(c)
  \/ CloseDoomed(c) \/ Closed(c)

Timers(k) == ApprovalTimeout(k) \/ Register(k) \/ TelegramTimeout(k)

CallStep(k) ==
  \/ \E t \in Tools : Decide(k, t) \/ AskClient(k, t) \/ AskTelegram(k, t)
  \/ HandleCallback(k) \/ Timers(k)
  \/ \E ans \in {"approve", "deny"} : Answer(k, ans) \/ Press(k, ans)

Running(A) == stage # "exited" /\ A /\ UNCHANGED <<skillAllow, bot, stage>>

Next ==
  \/ \E c \in Conns : Running(ConnStep(c))
  \/ \E k \in Calls : Running(CallStep(k))
  \/ stage # "exited" /\ (ToggleSkill \/ StopBot)
  \/ Shutdown \/ Exit

Spec == Init /\ [][Next]_vars

\* Timers fire, and sendMessage returns (its fetch is aborted after 35 s), as long
\* as the process lives.  Nobody has to answer.
FairSpec == Spec /\ \A k \in Calls : WF_vars(Running(Timers(k)))

----------------------------------------------------------------------------
(* Properties *)

\* Every variable holds a value of its kind, and of two authenticated connections
\* exactly one is the later.
TypeOK ==
  /\ sock \in [Conns -> {"new", "open", "refused", "closing", "closed"}]
  /\ listed \subseteq Conns /\ Cardinality(listed) <= MaxConnections
  /\ authed \subseteq Conns /\ later \subseteq authed \X authed
  /\ \A c, d \in authed : c # d => (<<c, d>> \in later <=> <<d, c>> \notin later)
  /\ doomed \subseteq Conns
  /\ skillAllow \subseteq SkillTools
  /\ call \in [Calls -> {"new", "waiting", "sending", "shown", "ran", "denied"}]
  /\ tool \in [Calls -> Tools \cup {None}]
  /\ decision \in [Calls -> {"none", "allow", "deny", "ask"}]
  /\ pending \in [Calls -> Conns \cup {None}]
  /\ asked \in [Calls -> Conns \cup {None}]
  /\ told \in [Calls -> {"none", "approve", "deny"}]
  /\ presses \subseteq ByTelegram
  /\ bot \in {"polling", "stopped"}
  /\ stage \in {"up", "stopping", "exited"}

\* pendingApprovals has an entry for each call that waits for a client, and for no
\* other; the entry names the client that was asked, and that client is still
\* connected and authenticated, so that its answer or its going can be heard.
PendingExact ==
  \A k \in Calls :
    /\ call[k] = "waiting" <=> pending[k] # None
    /\ pending[k] # None =>
         pending[k] = asked[k] /\ Live(pending[k]) /\ pending[k] \in listed /\ pending[k] \in authed

\* The list of connections and the sockets agree: an open socket is listed, and a
\* closed one is not.  (A connection refused for its address stays on the list for
\* ever, and takes a place of the gateway's capacity.)
ListedExact ==
  \A c \in Conns :
    /\ sock[c] = "open" => c \in listed
    /\ c \in listed => sock[c] \in {"open", "closing", "refused"}

\* The parts together: the gateway's lists are true of its sockets and calls.
ListsExact == TypeOK /\ PendingExact /\ ListedExact

\* A tool that ran is not on the deny list, and was allowed when it was called or
\* approved by a person: no timer, close event, shutdown or lost press runs it.
RunsArePermitted ==
  \A k \in Calls : call[k] = "ran" =>
    /\ tool[k] \notin Denied
    /\ decision[k] = "allow" \/ (decision[k] = "ask" /\ told[k] = "approve")

\* Every call that waits for a person ends, whether or not anybody answers, the
\* client stays or the bot runs, unless the process ends first.
EveryCallSettles ==
  \A k \in Calls :
    call[k] \in {"waiting", "sending", "shown"}
      ~> call[k] \in {"ran", "denied"} \/ stage = "exited"

============================================================================
