SPECIFICATION PartsSpec
CONSTANTS
  MaxStep = 2
  Page = {a, b}
  Chunk = {c, d}
  Step = {e1}
  Saver = {s1, s2}
  MaxPicks = 2
  MaxAttempts = 1
  MaxFollowUps = 2
  Name = {a, b}
  Id = {c, d}
  MaxUnits = 3
  Workers = 2
  FailureLimit = 2
  Writer = {s1, s2}
  MaxWrites = 4
  MaxPublications = 2
  MaxKills = 2
  MaxRaises = 1
  Type = {a, b}
  Relation = {r}
  Field = {f}
  Spelling = {c, d}
  Designer = {s1, s2}
  MaxCandidates = 2
  MaxBatch = 1
  MaxSaves = 3
  MaxEdits = 2
  Caller = {s1, s2}
  Request = {a, b}
  MaxTasks = 3
  MaxChanges = 5
  MaxCalls = 4
  MaxLosses = 1
  Document = {a, b}
  Thing = {c, d}
  MaxUpdates = 2
SYMMETRY Symmetry
INVARIANTS RestartsForChanges SourcesRegistered FactsFromEvidence
           UnitsAccounted StopsInRow DraftFaithful
            BuildGone WorkspaceIsCurrent AdviceResolves
           CompletedMeansPublished OneFollowUpAtATime NothingWorksOn FilesAgree
PROPERTIES EvidenceKept FactsKept OnlyNamedChange
CHECK_DEADLOCK FALSE
