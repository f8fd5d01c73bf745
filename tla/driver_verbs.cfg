SPECIFICATION Spec
CONSTANTS
  None = None
  MaxGen = 1
  Children = 1
  Scores <- MCScores
  Failures = {"infrastructure_failed"}
  GatePolicy = "strict"
  Sealed = TRUE
  FinalAnchor = TRUE
  AuditJump = None
  Verbs = {"agent", "eval", "seal", "annotate"}
  MaxFaults = 0
  MaxFailures = 1
  MaxRetries = 2
INVARIANTS VerdictOnRecord SealedOnce
PROPERTIES LineageGrows
CHECK_DEADLOCK TRUE
