SPECIFICATION FairSpec
CONSTANTS
  Host = {h1}
  MaxJobs = 2
  MaxVersion = 2
  MaxCommands = 1
  MaxKills = 1
PROPERTIES WorkersEnd CallsEnd
CHECK_DEADLOCK FALSE
