\* A worker that sends beside a dry-run one, with a token cache: a bot with a
\* secret, one with a configured token, a malformed body.
SPECIFICATION FairSpec
CONSTANTS
  w1 = w1
  w2 = w2
  m1 = m1
  m2 = m2
  m3 = m3
  m4 = m4
  m5 = m5
  b1 = b1
  b2 = b2
  unknown = unknown
  None = None
  BotOf <- MCBotOf
  Workers = {w1, w2}
  Messages = {m1, m3, m5}
  Bots = {b1, b2}
  Malformed = {m5}
  Refused = {m3}
  WantsReply = {m1}
  StaticBots = {b2}
  CacheOn = TRUE
  DryRun = {w2}
  RetryCount = 1
  MaxToken = 1
  MaxFaults = 1
INVARIANT DryRunSilent
PROPERTY EventuallySettled ShutdownTerminates
CHECK_DEADLOCK FALSE
