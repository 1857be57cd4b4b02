\* Two requests of two bots about one chat in two spellings, room for one
\* lookup and one cache entry.
SPECIFICATION FairSpec
CONSTANTS
  r1 = r1
  r2 = r2
  r3 = r3
  r4 = r4
  b1 = b1
  b2 = b2
  lower = lower
  upper = upper
  None = None
  Requests = {r1, r2}
  Bots = {b1, b2}
  ChatIDs = {lower, upper}
  Chats = {lower}
  Fold <- MCFold
  TTL = 3
  NegativeTTL = 1
  LookupTimeout = 1
  MaxEntries = 1
  MaxInflight = 1
  MaxTime = 4
INVARIANT AnswersBacked IInv
PROPERTY BoundedStaleness EveryCheckEnds
CHECK_DEADLOCK FALSE
