SPECIFICATION FairSpec
CONSTANTS
  None = None
  MaxGen = 1
  Children = 1
  Scores <- MCScores
  Failures = {"infrastructure_failed"}
  GatePolicy = "hillclimb"
  Sealed = FALSE
  FinalAnchor = FALSE
  AuditJump = None
  Verbs = {}
  MaxFaults = 0
  MaxFailures = 0
  MaxRetries = 1
PROPERTIES GateRetained
CHECK_DEADLOCK TRUE
