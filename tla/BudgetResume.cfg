SPECIFICATION MCSpec
CONSTANTS
  main = main
  web = web
  chat = chat
  m1 = m1
  m2 = m2
  m3 = m3
  Runs = {m1, m2, m3}
  Conversations = {web, chat}
  AgentIds = {main}
  ConvOf <- TwoOnWeb
  AgentOfConv <- MainOnly
  MaxSteps = 1
  MaxPurges = 1
  MaxReloads = 1
  MaxCrashes = 1
  ann = ann
  l1 = l1
  l2 = l2
  Agents = {ann}
  Loops = {l1, l2}
  AgentOf <- Pair
  PolicyActions <- AllActions
  DailyLimit = 3
  MonthlyLimit = 4
  PerRunCap = 1
  MaxEstimate = 1
  MaxUse = 2
  MaxCalls = 4
  MaxUsage = 12
  MaxRestarts = 0
  Cli = {c1}
  Gateway = gateway
  ownA = ownA
  genA = genA
  genA2 = genA2
  genB = genB
  alpha = alpha
  beta = beta
  Names = {alpha, beta}
  Files = {ownA, genA, genA2, genB}
  Installed = {ownA}
  NameOf <- FileNames
  DirOf <- FileDirs
  BaseOf <- FileBases
  MaxCommands = 4
  MaxKills = 1
  None = None
INVARIANTS
  ResumeResumes
CHECK_DEADLOCK FALSE
