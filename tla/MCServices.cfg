CONSTANTS
  g1 = g1
  g2 = g2
  d1 = d1
  d2 = d2
  None = None
  Game = {g1, g2}
  Dispatcher = {d1, d2}
  DispatcherOfKey <- KeyOnEach
  MaxIds = 2
  MaxQueue = 1
  MaxAnswers = 1
  MaxCrashes = 1
  Restarts = TRUE
SPECIFICATION LiveSpec
CHECK_DEADLOCK FALSE
INVARIANTS OneInstance RegistryView
PROPERTIES Converges
