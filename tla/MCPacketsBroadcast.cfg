CONSTANTS
  p1 = p1
  p2 = p2
  b1 = b1
  b2 = b2
  b3 = b3
  b4 = b4
  c1 = c1
  c2 = c2
  Packet = {p1, p2}
  Buffer = {b1, b2, b3, b4}
  Conn = {c1, c2}
  Capacity <- MCCapacity
  Compressing = TRUE
  Broadcast = TRUE
  MaxPayloads = 2
  MaxHolds = 2
SPECIFICATION Spec
INVARIANT WrittenAsSent
SYMMETRY Symmetry
CHECK_DEADLOCK FALSE
