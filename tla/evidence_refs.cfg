SPECIFICATION EvidenceSpec
CONSTANTS
  MaxStep = 2
  Page = {p1, p2}
  Chunk = {c1, c2}
  Step = {e1, e2}
  Saver = {s1}
  MaxPicks = 2
  MaxAttempts = 1
  MaxFollowUps = 1
  Name = {x, y}
  Id = {a, b}
  MaxUnits = 1
  Workers = 2
  FailureLimit = 2
  Writer = {w1, w2}
  MaxWrites = 1
  MaxPublications = 1
  MaxKills = 1
  MaxRaises = 1
  Type = {t1}
  Relation = {r}
  Field = {f}
  Spelling = {low, high}
  Designer = {d1}
  MaxCandidates = 2
  MaxBatch = 2
  MaxSaves = 2
  MaxEdits = 1
  Caller = {s1}
  Request = {a}
  MaxTasks = 1
  MaxChanges = 1
  MaxCalls = 1
  MaxLosses = 1
  Document = {a}
  Thing = {x}
  MaxUpdates = 1
SYMMETRY Symmetry
INVARIANT FactsResolve
CHECK_DEADLOCK FALSE
