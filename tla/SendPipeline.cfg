\* A client, every surface and kind of key, a bot that comes and goes.
SPECIFICATION Spec
CONSTANTS
  c1 = c1
  c2 = c2
  b1 = b1
  b2 = b2
  chatA = chatA
  chatB = chatB
  badId = badId
  aliasA = aliasA
  aliasB = aliasB
  idA = idA
  broken = broken
  gone = gone
  admin = admin
  team = team
  controller = controller
  signed = signed
  None = None
  Unresolved = Unresolved
  Clients = {c1}
  Names = {aliasA, aliasB, idA, broken, gone}
  Chats = {chatA, chatB, badId}
  UUIDs = {chatA, chatB}
  Bots = {b1, b2}
  Keys = {admin, team, controller, signed}
  Requests <- MCRequests
  BotSets <- MCBotSets
  ChatOf <- MCChatOf
  BoundBot <- MCBoundBot
  ScopedKeys = {team}
  Scope <- MCScope
  OwnChat <- MCOwnChat
  MemberKeys = {controller}
  AuthBot <- MCAuthBot
  DefaultChat = aliasA
  HookDefault <- MCHookDefault
  FallbackChat = None
  Pairs <- MCPairs
  PosTTL = 2
  NegTTL = 1
  MaxTime = 4
  MaxTries = 2
  MaxMoves = 1
INVARIANT AllCheckedFirst AnswerTruthful RetryHarmless OwnChatReached
PROPERTY EachSendChecked
CHECK_DEADLOCK FALSE
