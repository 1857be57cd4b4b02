\* Two members of a group, rebalances, commits, shutdown, a revoked token, a
\* malformed body at the end of the log.
SPECIFICATION FairSpec
CONSTANTS
  w1 = w1
  w2 = w2
  m1 = m1
  m2 = m2
  m3 = m3
  m4 = m4
  m5 = m5
  b1 = b1
  b2 = b2
  unknown = unknown
  None = None
  BotOf <- MCBotOf
  Workers = {w1, w2}
  Messages = {m1, m5}
  Bots = {b1}
  Malformed = {m5}
  Refused = {}
  WantsReply = {}
  StaticBots = {b1}
  CacheOn = FALSE
  DryRun = {}
  RetryCount = 1
  MaxToken = 2
  MaxFaults = 2
INVARIANT CommittedMeansConcluded NothingSkipped
PROPERTY DeliverySpec EventuallyConcluded
CHECK_DEADLOCK FALSE
