------------------------------ MODULE MCPages ------------------------------
(* Constants for TLC, and what is driven from a page in the browser: the       *)
(* dashboard's chat client, live feed and page of projects, and the set-up     *)
(* wizard with the processes it and the command line start.  A behaviour is    *)
(* one of the part chosen at the start.                                        *)
EXTENDS ChatClient, EventFeed, ProjectsPage, Setup

\* No .env, and one that was made before.
TwoEnvs == {{}, {"master", "openrouter", "telegram"}}

VARIABLE part
partVars == <<part, chatVars, feedVars, pageVars, setupVars>>

\* The parts that do not move start in one state.
MCInit ==
  /\ part \in {"chat", "feed", "projects", "setup"}
  /\ ChatInit /\ FeedInit /\ ProjectsPageInit /\ SetupInit
  /\ part # "chat" => chatWs = CHOOSE s \in Socks : TRUE
  /\ part # "feed" => es = CHOOSE s \in Streams : TRUE
  /\ part # "setup" => envFile = {} /\ aiDeskJson = NoFile

MCNext ==
  /\ \/ part = "chat" /\ ChatNext
     \/ part = "feed" /\ FeedNext
     \/ part = "projects" /\ ProjectsPageNext
     \/ part = "setup" /\ SetupNext
  /\ part # "chat" => UNCHANGED chatVars
  /\ part # "feed" => UNCHANGED feedVars
  /\ part # "projects" => UNCHANGED pageVars
  /\ part # "setup" => UNCHANGED setupVars
  /\ UNCHANGED part

\* ChatFairness, FeedFairness and ProjectsPageFairness, each while its part moves;
\* what SetupFairness asks for is never possible while set-up does not move.
MCSpec ==
  /\ MCInit /\ [][MCNext]_partVars
  /\ \A s \in Socks :
       WF_chatVars(part = "chat" /\ SockStep(s)) /\ WF_chatVars(part = "chat" /\ Reply(s))
  /\ WF_chatVars(part = "chat" /\ ReconnectChat)
  /\ \A s \in Streams :
       /\ WF_feedVars(part = "feed" /\ Established(s)) /\ WF_feedVars(part = "feed" /\ Refused(s))
       /\ WF_feedVars(part = "feed" /\ OnError(s))
  /\ \A p \in Probes : WF_feedVars(part = "feed" /\ ProbeEnds(p))
  /\ WF_feedVars(part = "feed" /\ ReconnectFeed) /\ WF_feedVars(part = "feed" /\ ComeUp)
  /\ \A c \in PossibleCalls :
       WF_pageVars(part = "projects" /\ c \in calls /\ CallEnds(c))
  /\ SetupFairness

\* What the dashboard shows of its socket and its approvals is true, and a feed that is
\* closed is being opened again.
PageIsTrue ==
  /\ ChatTypeOK /\ FeedTypeOK /\ ProjectsPageTypeOK /\ SetupTypeOK
  /\ ReadyIsTrue /\ PendingIsShown /\ FeedIsPursued

\* The dashboard's chat recovers: its socket, and its input.
ChatRecovers == part = "chat" => Reconnects /\ InputReturns

\* And so does its live feed, for good once losses, restarts and lockouts are over; a page
\* whose token is refused meanwhile ends at the login page instead.
FeedRecovers == part = "feed" => FeedComesBack

============================================================================
