\* Three sockets and a question; four streams and three probes; two projects; two
\* processes, a wizard and a terminal.
SPECIFICATION MCSpec
CONSTANTS
  Socks = {s1, s2, s3}
  Requests = {k1}
  MaxDrops = 1
  MaxClicks = 1
  MaxSends = 1
  NoSock = NoSock
  Streams = {e1, e2, e3, e4}
  Probes = {b1, b2, b3}
  MaxErrors = 2
  MaxFeedRestarts = 1
  MaxLockouts = 1
  PageProjects = {p1, p2}
  MaxCalls = 2
  NoneSelected = NoneSelected
  Procs = {p1, p2}
  Pages = {tab}
  Sandboxes = {"all", "none"}
  FirstEnvs <- TwoEnvs
  MaxCommands = 2
  MaxOnboards = 1
  MaxSpawns = 2
  NoProc = NoProc
  NoFile = NoFile
INVARIANTS
  PageIsTrue
  NoOrphan
PROPERTIES
  ChatRecovers
  FeedRecovers
  LoadingEnds
  LaunchServes
CHECK_DEADLOCK FALSE
