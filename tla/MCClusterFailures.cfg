CONSTANTS
  g1 = g1
  g2 = g2
  e1 = e1
  c1 = c1
  c2 = c2
  c3 = c3
  c4 = c4
  None = None
  Game = {g1, g2}
  Gate = {}
  Entity = {e1}
  Conn = {c1, c2, c3}
  BanBoot = {}
  DesiredGames = 2
  DesiredGates = 0
  EntityQueueMax = 2
  GameQueueMax = 12
  MaxMsgs = 40
  FreezeTimeout = {"connected", "disconnected"}
  MaxFailures = 1
  MaxFreezes = 1
  MaxFailedFreezes = 1
  MaxLoads = 2
  MaxFailedLoads = 1
  MaxCreates = 0
  MaxDestroys = 1
  MaxCalls = 0
  Stored = {e1}
SYMMETRY Sym
SPECIFICATION CSpec
CHECK_DEADLOCK FALSE
INVARIANTS CTypeOK ClusterView SingleCopy
PROPERTY DispatcherSpec
CONSTRAINT FewEvents
