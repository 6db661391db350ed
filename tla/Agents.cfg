\* Three runs in two conversations, two loops under one budget, and four skill
\* files of two names with a command line and a gateway.
SPECIFICATION MCSpec
CONSTANTS
  main = main
  web = web
  chat = chat
  m1 = m1
  m2 = m2
  m3 = m3
  Runs = {m1, m2, m3}
  Conversations = {web, chat}
  AgentIds = {main}
  ConvOf <- TwoOnWeb
  AgentOfConv <- MainOnly
  MaxSteps = 1
  MaxPurges = 1
  MaxReloads = 1
  MaxCrashes = 1
  ann = ann
  l1 = l1
  l2 = l2
  Agents = {ann}
  Loops = {l1, l2}
  AgentOf <- Pair
  PolicyActions <- AllActions
  DailyLimit = 3
  MonthlyLimit = 4
  PerRunCap = 1
  MaxEstimate = 2
  MaxUse = 2
  MaxCalls = 2
  MaxUsage = 12
  MaxRestarts = 1
  Cli = {c1}
  Gateway = gateway
  ownA = ownA
  genA = genA
  genA2 = genA2
  genB = genB
  alpha = alpha
  beta = beta
  Names = {alpha, beta}
  Files = {ownA, genA, genA2, genB}
  Installed = {ownA}
  NameOf <- FileNames
  DirOf <- FileDirs
  BaseOf <- FileBases
  MaxCommands = 4
  MaxKills = 1
  None = None
INVARIANTS
  RunsExact
  BudgetHolds
  Consent
PROPERTIES
  SuccessIsStored
SYMMETRY WebSymmetry
CHECK_DEADLOCK FALSE
