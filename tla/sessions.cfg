SPECIFICATION Spec
CONSTANTS
  None = None
  Requests <- MCRequests
  Initial = "initial"
  Costs = {1}
  MaxActions = 2
  MaxOperatorCalls = 1
  MaxEvaluations = 1
  MaxCost = 2
  Timed = FALSE
  Metered = TRUE
  Sealers = {a, b}
  MaxSeals = 2
  MaxFaults = 1
SYMMETRY Alike
INVARIANTS JournalIsTrue BudgetsHold SealedOnceAfterFinish ArmsStayApart
CHECK_DEADLOCK FALSE
