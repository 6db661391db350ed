SPECIFICATION RunSpec
CONSTANTS
  main = main
  web = web
  chat = chat
  m1 = m1
  m2 = m2
  m3 = m3
  Runs = {m1, m2, m3}
  Conversations = {web, chat}
  AgentIds = {main}
  ConvOf <- TwoOnWeb
  AgentOfConv <- MainOnly
  MaxSteps = 1
  MaxPurges = 0
  MaxReloads = 1
  MaxCrashes = 0
INVARIANTS
  InFlightKeepsConfig
CHECK_DEADLOCK FALSE
