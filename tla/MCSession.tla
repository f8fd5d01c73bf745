------------------------------ MODULE MCSession ------------------------------
(* A small instance of Session and what the host does around it. *)
EXTENDS Comparison, TLC

Request(id, kind) == [id |-> id, kind |-> kind, expected |-> None, optimizer |-> None]
Adopt(id, from, to) == [id |-> id, kind |-> "adopt_optimizer",
                        expected |-> from, optimizer |-> to]

MCRequests == {Request("eval", "evaluate"), Request("eval 2", "evaluate"),
               Request("pause", "pause_research"), Adopt("adopt", "initial", "better")}

\* The calls of seal_research are alike.
Alike == Permutations(Sealers)
==============================================================================
