\* Two jobs, three servers, five sub-agents.
SPECIFICATION MCSpec
CONSTANTS
  Jobs = {j1, j2}
  Schedules = {daily, leap}
  Sparse = {leap}
  Execs = {e1, e2, e3}
  MaxEdits = 1
  MaxManual = 1
  MaxBoots = 1
  NoJob = NoJob
  Never = Never
  Idle = Idle
  srv = srv
  sa = sa
  sab = sab
  Configured = {srv}
  SkillServers = {sa, sab}
  ToolPrefix <- ServersByPrefix
  Clients = {c1, c2, c3}
  Calls = {k1}
  MaxToggles = 2
  NoClient = NoClient
  t1 = t1
  t2 = t2
  t3 = t3
  t4 = t4
  deep = deep
  Tasks = {t1, t2, t3, t4, deep}
  DepthOf <- OneTooDeep
  MaxConcurrent = 2
  MaxDepth = 2
  MaxSteps = 2
INVARIANTS
  CronExact
  McpExact
  GateExact
PROPERTIES
  DueIsServed
  EveryToggleEnds
  ServedInOrder
CHECK_DEADLOCK FALSE
