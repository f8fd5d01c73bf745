----------------------------- MODULE DriverProps -----------------------------
(***************************************************************************)
(* What the driver promises: the properties of Driver.                      *)
(***************************************************************************)
EXTENDS Driver

-----------------------------------------------------------------------------
(* Each generation's ledger lives as Generation says. *)

\* Bound: attempts per purpose; no behaviour within the budget reaches it.
AttemptBound == 3 + MaxFaults + MaxFailures + MaxRetries

Life(g) == INSTANCE Generation WITH
  IsGenesis <- g = Genesis,
  Parents <- Genid,
  Failures <- Failures \cup {"cancelled"},
  Reasons <- (Scores \cup {None, 0}) \X (Scores \cup {None}),
  MaxAttempts <- AttemptBound,
  ledger <- archive[g],
  attempts <- attempts[g],
  running <- IF drv.pc = "evaluating" /\ drv.gen = g THEN drv.purpose ELSE None,
  stamps <- stamps[g],
  gated <- gated[g]

\* Whatever verbs, kills and recoveries interleave, the lines of every
\* generation are appended only in an order Generation allows: the driver
\* implements one Generation per generation id.
Lives ==
  /\ \A g \in Genid : Life(g)!Init
  /\ [][\A g \in Genid : [Life(g)!Next]_(Life(g)!vars)]_vars

-----------------------------------------------------------------------------
(* Safety. *)

\* The lineage only grows, and only from certified parents: a tag is never
\* moved, and a new one descends from a generation that is a valid parent at
\* the very step that creates it, whichever of run, agent and user made the
\* worktree and whatever a retry has done to its parent since the fork.
LineageGrows ==
  [][\A g \in DOMAIN commits \cup DOMAIN commits' :
       IF Tagged(g) THEN g \in DOMAIN commits' /\ commits'[g] = commits[g]
                    ELSE IsParent(commits'[g])]_vars

\* Without a retry nothing unmakes a parent: no later evaluation, sealed
\* anchor, failing operator, annotation, kill or resume costs an admitted
\* generation its place in the population.
ParentStays == [][\A g \in ValidParents : IsParent(g)']_vars

\* The verdict on record judged the score on record: an admitted candidate's
\* reason names the score its row shows, and that score meets the gate's rule.
\* A verdict on one evaluation never admits the score of another.
VerdictOnRecord ==
  GatePolicy # "parent_eligible" =>
    \A g \in ValidParents \ {Genesis} : \E score, against \in Scores :
      /\ Get(Row(g), "reason") = <<score, against>>
      /\ score = Row(g)["score"]
      /\ IF GatePolicy = "strict" THEN score > against ELSE score >= against

\* The sealed tasks are spent once: whichever of seal, the genesis anchor and
\* the final anchor ask for it, a generation has at most one complete sealed
\* evaluation, so nothing can be selected by repeating it.
SealedOnce ==
  \A g \in Genid :
    Cardinality({e \in archive[g].lines :
      Get(e, "purpose") = "anchor" /\ e["outcome"] = "benchmark_complete"}) <= 1

\* A resume never repeats what was already paid for: without a retry, the
\* ledger of a candidate holds at most one evaluation of it.
EvaluatedOnce ==
  \A g \in Candidates :
    Cardinality({e \in archive[g].lines : Get(e, "purpose") = "candidate"}) <= 1

\* A run that reaches its end has dealt with every generation: what is still
\* pending was evaluated, and only its gate failed.  And a run summary that
\* passes leaves nothing for a resume to do and names as kept exactly the
\* generations a later select may take: it reads the rows, a resume scans the
\* raw lines and select asks the population, and the three agree.
RunSettles ==
  /\ At("final") => \A g \in Candidates :
       Pending(g) => archive[g].awaiting /\ Get(Row(g), "status") = "operator_failed"
  /\ RunPassed => \A g \in Genid :
       ~Pending(g) /\ (Get(Row(g), "verdict") = "keep" <=> IsParent(g))

-----------------------------------------------------------------------------
(* Progress. *)

\* A user who follows the messages: a refused run is answered with repair, an
\* edited worktree is preserved and reset, a worktree repair will not touch is
\* deleted by hand, and run is called again.
FairSpec ==
  /\ Spec
  /\ WF_vars(RunStep) /\ WF_vars(StartRun)
  /\ WF_vars(Repair) /\ WF_vars(UserDeletesStrays)
  /\ \A g \in Candidates : WF_vars(UserResetsTree(g))

\* Resuming converges: whatever was interrupted or failed (a bounded number
\* of times), calling run again ends with every generation settled, unless
\* the baseline itself failed for good.
EventuallySettled ==
  <>[](\/ Status(Genesis) \in FailureOutcomes
       \/ \A g \in Candidates : ~Pending(g))

-----------------------------------------------------------------------------
(* What a document or comment of the repository says and the code does not do. *)

\* The gate's decision is retained: a generation that awaits its gate does not
\* wait for ever under runs that are resumed again and again.  (A verdict that
\* repeats an earlier one word for word, after a retry, is dropped as a
\* duplicate line.)
GateRetained == \A g \in Candidates : archive[g].awaiting ~> ~archive[g].awaiting

=============================================================================
