CONSTANTS
  g1 = g1
  g2 = g2
  e1 = e1
  s1 = s1
  s2 = s2
  c1 = c1
  c2 = c2
  c3 = c3
  None = None
  Game = {g1, g2}
  Gate = {}
  Entity = {e1, s1, s2}
  Space = {s1, s2}
  Conn = {c1, c2, c3}
  Home <- MCHome
  FirstConn <- MCFirstConn
  BanBoot = {}
  DesiredGames = 2
  DesiredGates = 0
  EntityQueueMax = 2
  GameQueueMax = 12
  MaxMsgs = 40
  FreezeTimeout = {}
  MaxFailures = 1
  MaxFreezes = 1
  MaxFailedFreezes = 0
  MaxLoads = 0
  MaxFailedLoads = 0
  MaxCreates = 0
  MaxDestroys = 1
  MaxCalls = 1
  Stored = {}
  MaxEnters = 2
  MaxExpiries = 1
SPECIFICATION MSpec
CHECK_DEADLOCK FALSE
INVARIANTS OneCopy MembersAgree CallsFollow
CONSTRAINT FewMishaps
