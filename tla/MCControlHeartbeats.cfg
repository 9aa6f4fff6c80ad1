SPECIFICATION Spec
CONSTANTS
  MaxHeartbeats = 3
  None = none
INVARIANTS
  AnswersAreHeard
PROPERTIES
  HeartbeatsSettle
  LossIsCounted
CHECK_DEADLOCK FALSE
