SPECIFICATION FairSpec
CONSTANTS
  None = None
  Requests <- MCWork
  Initial = "initial"
  Costs = {1}
  MaxActions = 2
  MaxOperatorCalls = 1
  MaxEvaluations = 1
  MaxCost = 1
  Timed = TRUE
  Metered = TRUE
  Dirs = 2
  Modes = {"isolated", "shell"}
  MaxAttempts = 2
  MaxControllerCost = 2
  MaxCorrections = 2
  MaxKills = 1
  MaxEdits = 1
INVARIANTS AckedIsDone
PROPERTIES ImportIsSafe NothingPaidAfterStop ResearchRests
CHECK_DEADLOCK TRUE
