SPECIFICATION Spec
CONSTANTS
  Host = {h1, h2}
  MaxJobs = 2
  MaxVersion = 1
  MaxCommands = 2
  MaxKills = 0
SYMMETRY Symmetry
INVARIANTS TypeOK
PROPERTIES HandedOver GatesKept TaskForward
CHECK_DEADLOCK FALSE
