CONSTANTS
  k1 = k1
  k2 = k2
  boot = boot
  avatar = avatar
  d1 = d1
  d2 = d2
  None = None
  Client = {k1, k2}
  Entity = {boot, avatar}
  Dispatcher = {d1, d2}
  DispatcherOf <- TwoDispatchers
  Val = {1, 2}
  Eager = FALSE
  MaxOps = 2
  MaxGateDeaths = 1
SPECIFICATION Spec
CHECK_DEADLOCK FALSE
SYMMETRY Sym
INVARIANTS VisitExact NoGhosts OwnerKnown OneOwnEntity ViewAgrees NoStaleFilter
