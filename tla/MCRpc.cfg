CONSTANTS
  p1 = p1
  p2 = p2
  Peers = {p1, p2}
  MaxCalls = 3
  Requests <- MCRequests
  Strict = {p1}
  NULL = NULL
SPECIFICATION Spec
INVARIANTS
  CallsRight
  AnswerIsOwn
  WaitingAccounted
  ServedInOrder
  DeathHasCause
PROPERTIES
  EveryCallEnds
  ImplementsAbstract
CHECK_DEADLOCK FALSE
