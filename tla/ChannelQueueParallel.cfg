SPECIFICATION Spec
CONSTANTS
  user = user
  group = group
  helper = helper
  coder = coder
  m1 = m1
  m2 = m2
  m3 = m3
  m4 = m4
  g1 = g1
  None = None
  Messages = {m1, m2, m3}
  Channels = {user, group}
  Bots = {helper, coder}
  ChannelOf <- UserChat
  BotOf <- ToHelperOrCoder
INVARIANTS
  NotInParallel
CHECK_DEADLOCK FALSE
