SPECIFICATION Spec
CONSTANTS
  Proc = {p1, p2}
  Exclusive = TRUE
  RevisionLimit = 1
  RetryLimit = 0
  MaxAttempts = 8
  MaxCommands = 1
  MaxCrashes = 0
  MaxRecoveries = 0
SYMMETRY Symmetry
INVARIANTS NewHasNoImports
CHECK_DEADLOCK FALSE
