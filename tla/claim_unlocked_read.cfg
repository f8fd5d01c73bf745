SPECIFICATION LedgerSpec
CONSTANTS
  Evaluations = {"eval"}
  Notes = {"gate", "note"}
  Foreign = "foreign"
  Readers = {"status"}
  MaxAppends = 1
  MaxOperators = 0
  MaxCrashes = 0
  MaxReads = 1
INVARIANTS AckedStays
CHECK_DEADLOCK TRUE
