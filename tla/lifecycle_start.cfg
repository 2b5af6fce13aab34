SPECIFICATION Spec
CONSTANTS
  Proc = {p1, p2}
  Exclusive = FALSE
  RevisionLimit = 1
  RetryLimit = 1
  MaxAttempts = 3
  MaxCommands = 1
  MaxCrashes = 1
  MaxRecoveries = 1
SYMMETRY Symmetry
INVARIANTS TypeOK OwnedAttempt
PROPERTIES CancelIsFinal ImplementsSequential
CHECK_DEADLOCK FALSE
