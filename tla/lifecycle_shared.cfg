SPECIFICATION GateSpec
CONSTANTS
  Proc = {p1, p2}
  Exclusive = FALSE
  RevisionLimit = 1
  RetryLimit = 0
  MaxAttempts = 8
  MaxCommands = 2
  MaxCrashes = 0
  MaxRecoveries = 1
SYMMETRY Symmetry
INVARIANTS Inv GatesHold StagesInOrder
PROPERTIES StepsSequentially
CHECK_DEADLOCK FALSE
