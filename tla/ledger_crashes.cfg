SPECIFICATION LedgerSpec
CONSTANTS
  Evaluations = {"eval1", "eval2"}
  Notes = {"note"}
  Foreign = "foreign"
  Readers = {}
  MaxAppends = 3
  MaxOperators = 2
  MaxCrashes = 2
  MaxReads = 0
INVARIANTS ReceiptsSurviveKill OperatorLeavesNoLine
PROPERTIES AppendOnly
CHECK_DEADLOCK TRUE
