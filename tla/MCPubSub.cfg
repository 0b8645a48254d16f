CONSTANTS
  e1 = e1
  e2 = e2
  a = a
  b = b
  Subscriber = {e1, e2}
  Char = {a, b}
  Subject <- MCSubject
  MaxSubscriptions = 2
SPECIFICATION Spec
INVARIANT MapsAgree
PROPERTY BrokerSpec
CHECK_DEADLOCK FALSE
