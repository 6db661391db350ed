\* Five messages for two bots in two chats; for the other parts, two bots and
\* two adapters.
SPECIFICATION MCSpec
CONSTANTS
  user = user
  group = group
  helper = helper
  coder = coder
  m1 = m1
  m2 = m2
  m3 = m3
  m4 = m4
  g1 = g1
  None = None
  Messages = {m1, m2, m3, m4, g1}
  Channels = {user, group}
  Bots = {helper, coder}
  ChannelOf <- UserChat
  BotOf <- ToHelperOrCoder
  main = main
  bot = bot
  Ids = {main, bot}
  Main = main
  Adapters = {a1, a2}
  MaxSent = 1
  MaxRestarts = 1
  NoAdapter = NoAdapter
INVARIANTS
  ChannelsExact
  AdaptersExact
PROPERTIES
  EverySettles
  EveryUpdateHandled
  LinkComesBack
CHECK_DEADLOCK FALSE
