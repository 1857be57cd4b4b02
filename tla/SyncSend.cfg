SPECIFICATION Spec
CONSTANTS
  None = None
  Garbled = Garbled
  Torn = Torn
  Truncated = Truncated
  b1 = b1
  b2 = b2
  b3 = b3
  Bots = {b1, b2, b3}
  StaticBots = {b3}
  Jobs = {j1, j2}
  CacheKinds = {"none", "file", "vault"}
  Work <- MCWork
  MaxTokens <- MCMaxTokens
  MaxStarts = 2
  MaxFaults = 2
SYMMETRY JobSymmetry
INVARIANTS
  OwnToken
  DoneOnce
  RefusedTwice
CHECK_DEADLOCK FALSE
