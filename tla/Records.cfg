\* Two runs of two teams; for the other parts, two or three of each thing.
SPECIFICATION MCSpec
CONSTANTS
  r1 = r1
  r2 = r2
  alpha = alpha
  beta = beta
  g1 = g1
  g2 = g2
  NoRun = NoRun
  Runs = {r1, r2}
  Teams = {alpha, beta}
  TeamOf <- TwoTeams
  NumTasks = 2
  GatewaySlots = {g1, g2}
  CliSlots = {c1}
  Graphs <- SomeGraphs
  MaxCrashes = 1
  MaxResumes = 2
  ResumesLive = FALSE
  ProjectTeams = {t1}
  ProjectIds = {p1, p2}
  GatewayRuns = {s1, s2}
  CliRuns = {s3}
  NoProject = NoProject
  Writers = {a1, a2}
  MaxRows = 3
  MaxOpens = 3
  LastInstant = 1
  MaxSetBacks = 1
  Hooks = {h1, h2}
  Deliveries = {d1, d2}
  MaxReloads = 1
  Addresses = {x1}
  Tokens = {k1}
  MaxFailed = 2
  Lockout = 2
  Expiry = 3
  LastTick = 8
  MaxTries = 4
  NoEntry = NoEntry
  Accounts = {ann, bob}
  Uses = {u1, u2}
  Imports = {i1}
  MaxSteps = 3
  MaxExpiries = 3
  NoCred = NoCred
  FileAgents = {main, bot}
  MainAgent = main
  FileRoles = {f1, f2}
  FileTeams = {ft}
  Tabs = {tab}
  MaxSaves = 3
  HandLists <- SomeHandLists
  MaxHand = 2
  MaxStarts = 1
  NoAgent = NoAgent
  Platforms = {"win32", "linux", "darwin"}
  MaxDaemonCommands = 4
  MaxExits = 3
  w1 = w1
  w2 = w2
  w3 = w3
  w4 = w4
  raw1 = raw1
  raw2 = raw2
  plan = plan
  coder = coder
  tester = tester
  PanelTasks = {w1, w2, w3, w4}
  IdOf <- RawIds
  LeadTasks = {w4}
  Workers = {coder, tester}
  WorkerOf <- TwoWorkers
  MaxTasks = 2
  MaxCreated = 3
  MaxClears = 1
  NoTask = NoTask
INVARIANTS
  RecordTypes
  RowsTellTheTruth
  OneProjectPerProcess
  FalseAlarmHasACause
  AttemptsBounded
  RemovedStays
  FileIsSound
  
PROPERTIES
  RowsImplementContract
  RunsAreCounted
  BootsAfterInstall
SYMMETRY GatewaySymmetry
CHECK_DEADLOCK FALSE
