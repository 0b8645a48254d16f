CONSTANTS
  Entity = {e1}
  Deployment <- MCDeployment
  MaxRequests = 3
  MaxFaults = 1
  MaxQueue = 2
SPECIFICATION Spec
INVARIANTS
  AnswersSeeEarlierRequests
  ExitLosesNothing
  ClaimOnce
PROPERTIES
  AnswersInOrder
  AllAnswered
CHECK_DEADLOCK FALSE
