CONSTANTS
  g1 = g1
  g2 = g2
  e1 = e1
  c1 = c1
  c2 = c2
  c3 = c3
  c4 = c4
  None = None
  Game = {g1, g2}
  Gate = {}
  Entity = {e1}
  Conn = {c1, c2, c3}
  BanBoot = {}
  DesiredGames = 2
  DesiredGates = 0
  EntityQueueMax = 2
  GameQueueMax = 12
  MaxMsgs = 40
  FreezeTimeout = {}
  MaxFailures = 0
  MaxFreezes = 1
  MaxFailedFreezes = 0
  MaxLoads = 0
  MaxFailedLoads = 0
  MaxCreates = 1
  MaxDestroys = 0
  MaxCalls = 2
  Stored = {}
SPECIFICATION CLiveSpec
CHECK_DEADLOCK FALSE
INVARIANTS ReloadLosesNoCall
PROPERTIES ExecutedInOrder AllCallsExecuted
