------------------------------ MODULE MCDriver ------------------------------
(* Small instances of Driver for TLC. *)
EXTENDS DriverProps

MCScores == {0, 1}
=============================================================================
