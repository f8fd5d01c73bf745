SPECIFICATION FairSpec
CONSTANTS
  None = None
  MaxAsks = 2
  Prices <- MCPrices
  MaxRequests = 2
  MaxCost = 1
  MaxFaults = 1
INVARIANTS BillIsTrue OutputIsComplete
PROPERTIES Contained IsolationEnds
CHECK_DEADLOCK FALSE
