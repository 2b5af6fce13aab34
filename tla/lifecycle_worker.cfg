SPECIFICATION GateSpec
CONSTANTS
  Proc = {p1, p2}
  Exclusive = TRUE
  RevisionLimit = 1
  RetryLimit = 0
  MaxAttempts = 12
  MaxCommands = 2
  MaxCrashes = 1
  MaxRecoveries = 0
SYMMETRY Symmetry
INVARIANTS WorkspaceFromAccepted StageFilesAccepted AcceptedNotRevoked
CHECK_DEADLOCK FALSE
