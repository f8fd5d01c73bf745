---------------------------- MODULE MCGeneration ----------------------------
(* One generation on its own, for TLC. *)
EXTENDS Generation, FiniteSets

CONSTANTS p0
MCParents == {p0}
MCFailures == {"infrastructure_failed", "timeout"}
MCScores == {0, 1}
MCReasons == {<<1, 0>>, <<0, 1>>}

\* Bound: lines of one generation's ledger.
CONSTANT MaxLines
LedgerBound == Cardinality(ledger.lines) <= MaxLines
=============================================================================
