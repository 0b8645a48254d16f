CONSTANTS
  g1 = g1
  g2 = g2
  e1 = e1
  c1 = c1
  c2 = c2
  c3 = c3
  c4 = c4
  None = None
  Game = {g1, g2}
  Gate = {}
  Entity = {e1}
  Conn = {c1, c2, c3}
  BanBoot = {}
  DesiredGames = 2
  DesiredGates = 0
  EntityQueueMax = 2
  GameQueueMax = 12
  MaxMsgs = 40
  FreezeTimeout = {}
  MaxFailures = 1
  MaxFreezes = 0
  MaxFailedFreezes = 0
  MaxLoads = 2
  MaxFailedLoads = 0
  MaxCreates = 0
  MaxDestroys = 0
  MaxCalls = 0
  Stored = {e1}
SPECIFICATION CSpec
CHECK_DEADLOCK FALSE
PROPERTY LoadHasNoEffectIfExists
