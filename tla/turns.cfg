SPECIFICATION FairSpec
CONSTANTS
  MaxArg = 1
  MaxCalls = 2
  MaxAsked <- CallBound
  MaxSteps = 3
  MaxExternal = 1
  MaxCorrections = 1
  MaxFailures = 2
  MaxRounds = 2
  Stage = {"problem", "evidence", "schema_build", "extract", "structured_extract"}
INVARIANTS OneRunPerCall SaveSeesResearch DraftNotLost
PROPERTIES CircuitStaysOpen Answers
CHECK_DEADLOCK FALSE
