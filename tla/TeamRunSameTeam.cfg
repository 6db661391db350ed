SPECIFICATION Spec
CONSTANTS
  r1 = r1
  r2 = r2
  alpha = alpha
  beta = beta
  g1 = g1
  g2 = g2
  NoRun = NoRun
  Runs = {r1, r2}
  Teams = {alpha, beta}
  TeamOf <- OneTeam
  NumTasks = 2
  GatewaySlots = {g1, g2}
  CliSlots = {}
  Graphs <- Chain
  MaxCrashes = 0
  MaxResumes = 0
  ResumesLive = FALSE
INVARIANTS
  ResultsAreOwn
CHECK_DEADLOCK FALSE
