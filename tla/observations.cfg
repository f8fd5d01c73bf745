SPECIFICATION Spec
CONSTANTS
  None = None
  Train <- MCTrain
  Reported <- MCReported
  Budget = 2
  Shuffle = FALSE
  Kinds = {"pass", "raised"}
  StopAfterErrors = 1
  MaxRecoveries = 1
  MaxFaults = 1
  Recipes = {"gepa", "ahe", "aevolve"}
  MaxGen <- MCMaxGen
  Vectors <- MCVectors
  FirstVectors <- MCFirstVectors
  Manifests <- MCManifests
  MaxTasks = 2
  DebuggerRetries = 0
  Criterion = "strict"
  HistoryCycles = 2
  RecoveredIn = {"aevolve"}
INVARIANTS EvidenceIsMeasured TrialsAreKept AcceptedImproves ChangeIsJudged
CHECK_DEADLOCK FALSE
