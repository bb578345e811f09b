CONSTANT MaxCalls = 3
SPECIFICATION Spec
INVARIANTS
  CallsTracked
  AnswersRight
  AnswersInOrder
  DeathHasCause
PROPERTY CallsAnswered
CHECK_DEADLOCK FALSE
