---------------------------- MODULE MCEvaluation ----------------------------
(* Five tasks: one to train on, three to gate on, one sealed. *)
EXTENDS Evaluation

MCNameOrder == <<"a", "b", "c", "d", "e">>
MCSeedOrder == <<"c", "a", "e", "d", "b">>
MCRatios == [train |-> 1, gate |-> 7, sealed |-> 2]
Sound == [lock |-> "fresh", builds |-> TRUE, crashes |-> FALSE, meddles |-> FALSE]
MCSeeds == {Sound, [Sound EXCEPT !.lock = "stale"]}
MCCandidates == {[Sound EXCEPT !.crashes = TRUE], [Sound EXCEPT !.builds = FALSE],
                 [Sound EXCEPT !.lock = "stale"], [Sound EXCEPT !.meddles = TRUE]}
=============================================================================
