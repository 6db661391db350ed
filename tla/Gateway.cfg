\* Two clients; a call that asks one of them and a call that asks on Telegram. A skill
\* allows both tools while it is on; one of them is on the deny list.
SPECIFICATION FairSpec
CONSTANTS
  None = None
  Conns = {a, b}
  MaxConnections = 2
  Calls = {k1, k2}
  ByTelegram = {k2}
  Tools = {search, shell}
  Denied = {shell}
  Allowed = {}
  SkillTools = {search, shell}
INVARIANTS
  ListsExact
  RunsArePermitted
PROPERTY
  EveryCallSettles
CHECK_DEADLOCK FALSE
