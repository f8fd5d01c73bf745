SPECIFICATION Spec
CONSTANTS
  None = None
  p0 = p0
  IsGenesis = FALSE
  Parents <- MCParents
  Scores <- MCScores
  Reasons <- MCReasons
  Failures <- MCFailures
  MaxAttempts = 2
  MaxLines = 5
CONSTRAINT LedgerBound
INVARIANTS TypeOK AdmittedByGate ParentEvidence
PROPERTIES CertifiedScoreStands SealedIsInert
CHECK_DEADLOCK FALSE
