SPECIFICATION Spec
CONSTANTS
  Host = {h1, h2}
  MaxJobs = 2
  MaxVersion = 2
  MaxCommands = 1
  MaxKills = 1
SYMMETRY Symmetry
PROPERTIES RefusedWhileAlive
CHECK_DEADLOCK FALSE
