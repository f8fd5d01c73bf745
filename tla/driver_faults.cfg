SPECIFICATION FairSpec
CONSTANTS
  None = None
  MaxGen = 2
  Children = 1
  Scores <- MCScores
  Failures = {"infrastructure_failed"}
  GatePolicy = "parent_eligible"
  Sealed = FALSE
  FinalAnchor = FALSE
  AuditJump = 0
  Verbs = {}
  MaxFaults = 1
  MaxFailures = 1
  MaxRetries = 0
INVARIANTS EvaluatedOnce RunSettles
PROPERTIES Lives ParentStays EventuallySettled
CHECK_DEADLOCK TRUE
