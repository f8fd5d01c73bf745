---------------------------- MODULE MCProgression ----------------------------
(* Small instances of Progression. *)
EXTENDS ProgressionProps

Request(id, kind) == [id |-> id, kind |-> kind, expected |-> None, optimizer |-> None]

MCWork == {Request("work", "operator")}
==============================================================================
