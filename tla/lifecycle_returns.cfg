SPECIFICATION FairSpec
CONSTANTS
  Proc = {p1, p2}
  Exclusive = TRUE
  RevisionLimit = 1
  RetryLimit = 1
  MaxAttempts = 15
  MaxCommands = 0
  MaxCrashes = 0
  MaxRecoveries = 0
PROPERTIES DriverReturns
CHECK_DEADLOCK FALSE
