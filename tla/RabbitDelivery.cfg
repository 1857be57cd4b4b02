\* Interleavings of two workers, a refused message, revocation, no cache.
SPECIFICATION Spec
CONSTANTS
  w1 = w1
  w2 = w2
  m1 = m1
  m2 = m2
  m3 = m3
  m4 = m4
  m5 = m5
  b1 = b1
  b2 = b2
  unknown = unknown
  None = None
  BotOf <- MCBotOf
  Workers = {w1, w2}
  Messages = {m1, m2}
  Bots = {b1}
  Malformed = {}
  Refused = {m2}
  WantsReply = {m1, m2}
  StaticBots = {}
  CacheOn = FALSE
  DryRun = {}
  RetryCount = 1
  MaxToken = 2
  MaxFaults = 2
SYMMETRY Symmetry
INVARIANT Conserved DuplicatesNeedFaults IInv
PROPERTY DeliverySpec
CHECK_DEADLOCK FALSE
