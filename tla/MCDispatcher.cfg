CONSTANTS
  g1 = g1
  g2 = g2
  t1 = t1
  e1 = e1
  c1 = c1
  c2 = c2
  None = None
  Game = {g1, g2}
  Gate = {t1}
  Entity = {e1}
  Conn = {c1, c2}
  BanBoot = {}
  DesiredGames = 2
  DesiredGates = 0
  EntityQueueMax = 2
  GameQueueMax = 3
  MaxMsgs = 4
  FreezeTimeout = {"disconnected"}
SYMMETRY Sym
SPECIFICATION Spec
INVARIANTS PendingOnlyWhileBlocked ProxyIdentity HeldForAReason CallOrder
PROPERTIES FreezeSurvivesDisconnect DownCleansRoutes StaleDisconnectHarmless
CHECK_DEADLOCK FALSE
