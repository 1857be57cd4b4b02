\* Two workers with different configurations, a server, the enqueue command.
SPECIFICATION Spec
CONSTANTS
  w1 = w1
  w2 = w2
  old = old
  new = new
  chatA = chatA
  chatB = chatB
  bot1 = bot1
  bot2 = bot2
  deploy = deploy
  fresh = fresh
  alerts = alerts
  oncall = oncall
  admin = admin
  team = team
  None = None
  Torn = Torn
  Unresolved = Unresolved
  Workers = {w1, w2}
  Contents = {old, new}
  ConfOf <- MCConfOf
  UUIDs = {chatA, chatB, bot1, bot2}
  Aliases = {deploy, fresh, alerts, oncall}
  Keys = {admin, team}
  ScopedKeys = {team}
  Scope <- MCScope
  ChatOf <- MCChatOf
  BoundBot <- MCBoundBot
  BotOf <- MCBotOf
  Requests <- MCRequests
  MaxAge = 1
  MaxTime = 2
  MaxLog = 2
  MaxFaults = 1
INVARIANT IInv RouteBacked ScopedByAddress RefusedMeansNothing
CHECK_DEADLOCK FALSE
