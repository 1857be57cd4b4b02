\* The cache answers a refresh with the rejected token.
SPECIFICATION Spec
CONSTANTS
  w1 = w1
  w2 = w2
  m1 = m1
  m2 = m2
  m3 = m3
  m4 = m4
  m5 = m5
  b1 = b1
  b2 = b2
  unknown = unknown
  None = None
  BotOf <- MCBotOf
  Workers = {w1}
  Messages = {m1}
  Bots = {b1}
  Malformed = {}
  Refused = {}
  WantsReply = {}
  StaticBots = {}
  CacheOn = TRUE
  DryRun = {}
  RetryCount = 1
  MaxToken = 2
  MaxFaults = 0
PROPERTY RefreshReplacesToken
CHECK_DEADLOCK FALSE
