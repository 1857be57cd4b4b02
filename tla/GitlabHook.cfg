\* Configurations of one or two senders, started in several ways, and one event.
SPECIFICATION HookSpec
CONSTANTS
  u1 = u1
  u2 = u2
  u3 = u3
  ops = ops
  ops2 = ops2
  dev = dev
  ref = ref
  void = void
  gone = gone
  b1 = b1
  b2 = b2
  ghost = ghost
  envId = envId
  envKey = envKey
  envKey2 = envKey2
  t1 = t1
  t2 = t2
  team = team
  other = other
  regRel = regRel
  Absent = Absent
  AnySub = AnySub
  ChatIds = {u1, u2, u3}
  Secrets = {t1, t2, other}
  Regex <- MCRegex
  DefaultKeys <- MCDefaultKeys
  Settings <- MCSettings
  Payloads <- MCPayloads
  Queries <- MCQueries
INVARIANT EventReachesItsChats ValidateMirrorsServe
CHECK_DEADLOCK FALSE
