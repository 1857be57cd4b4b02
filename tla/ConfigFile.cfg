SPECIFICATION FileSpec
CONSTANTS
  Unset = Unset
  Error = Error
  b1 = b1
  b2 = b2
  u1 = u1
  u2 = u2
  u3 = u3
  ops = ops
  news = news
  k1 = k1
  p1 = p1
  p2 = p2
  Procs <- MCProcs
  UUIDs <- MCUUIDs
  Slug <- MCSlug
  AutoNames <- MCAutoNames
  BotOrder <- MCBotOrder
  Listing <- MCListing
  Initial <- MCInitial
  Commands <- MCCommands
  Edits <- MCEdits
  MaxRuns = 3
INVARIANTS
  FileInv
  OnlyWhatWasAsked
  BoundBot
CHECK_DEADLOCK FALSE
