CONSTANTS
  Root = root
  Map = {m1}
  List = {l1}
  Key = {a, b}
  Scalar = {s}
  allClientAttrs = {a}
  clientAttrs = {a, b}
  MaxItems = 2
  MaxDepth = 3
  NoNode = NoNode
  NoKey = NoKey
  Absent = Absent
  NoPath = NoPath
  Callback = {c1, c2}
  Delay = {0, 1}
  MaxTime = 3
  MaxTimerId = 2
  LateCallback = FALSE
  NilTimers = NilTimers
SPECIFICATION EntitySpec
INVARIANTS
  CopiesAgree
  NodesKnowTheirPlace
  TimersMatch
  OnceAndInTime
PROPERTY CallbacksRun
CHECK_DEADLOCK FALSE
