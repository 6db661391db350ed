---------------------------- MODULE MCMessaging ----------------------------
(* Constants for TLC, and the ways a message comes from a messenger: the queue *)
(* of a chat, the connections that poll Telegram, the link to Discord.  A      *)
(* behaviour is one of the part chosen at the start.                           *)
EXTENDS MCChannelQueue, Connections, DiscordLink

CONSTANTS main, bot

VARIABLE part
partVars == <<part, vars, connVars, linkVars>>

\* The parts that do not move start in one state.
MCInit ==
  /\ part \in {"queue", "connections", "discord"}
  /\ Init /\ ConnInit /\ LinkInit
  /\ part # "connections" => conn = [id \in Ids |-> "none"]

MCNext ==
  /\ \/ part = "queue" /\ Next
     \/ part = "connections" /\ ConnNext
     \/ part = "discord" /\ LinkNext
  /\ part # "queue" => UNCHANGED vars
  /\ part # "connections" => UNCHANGED connVars
  /\ part # "discord" => UNCHANGED linkVars
  /\ UNCHANGED part

\* QueueFairness, ConnFairness, and LinkFairness while the link is what moves.
MCSpec ==
  /\ MCInit /\ [][MCNext]_partVars
  /\ QueueFairness /\ ConnFairness
  /\ WF_linkVars(part = "discord" /\ RetryFires)
  /\ WF_linkVars(part = "discord" /\ CloserFires)
  /\ WF_linkVars(part = "discord" /\ socket = "closing" /\ Closed(FALSE))
  /\ SF_linkVars(part = "discord" /\ Hello)
  /\ SF_linkVars(part = "discord" /\ Ready)
  /\ SF_linkVars(part = "discord" /\ socket = "open" /\ resumes /\ ~valid /\ Invalid(FALSE))

\* The adapters of both messengers: known while they run, silent when they do not,
\* and none of them handles a message twice.
AdaptersExact ==
  ConnTypeOK /\ LinkTypeOK /\ RunningIsListed /\ EachUpdateOncePerAdapter /\ StoppedIsSilent

\* However often the link to Discord breaks, an adapter that is not stopped is ready
\* again, unless Discord refuses its token (scheduleReconnect of discord-adapter.ts).
LinkComesBack == part = "discord" => ComesBack

============================================================================
