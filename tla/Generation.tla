------------------------------ MODULE Generation ------------------------------
(***************************************************************************)
(* The life of one generation in the ledger: which lines the mechanism may  *)
(* append to it, in which order, and what it becomes.  Every action is one  *)
(* call that appends (or one allocation of an evaluation attempt); the      *)
(* workspace lock makes them atomic with respect to each other, and a kill  *)
(* can fall between any two of them, or inside FinishEvaluation between the  *)
(* ledger line and the receipt that certifies it.                           *)
(*                                                                         *)
(* Driver composes one of these per generation (Driver!Lives); here the     *)
(* order of the calls is as free as the guards of the code leave it.        *)
(***************************************************************************)
EXTENDS Archive

CONSTANTS IsGenesis,    \* this generation is generation zero
          Parents,      \* the generation ids a line may name as parent
          Scores,       \* the scores of complete evaluations
          Reasons,      \* the reasons a gate may print
          Failures,     \* the outcomes of evaluations that do not complete
          MaxAttempts   \* bound: evaluation attempts per purpose

ASSUME GenerationAssumption ==
  /\ IsGenesis \in BOOLEAN
  /\ Failures \subseteq Outcomes \ {"benchmark_complete"}
  /\ None \notin Parents /\ None \notin Scores
  /\ MaxAttempts \in Nat

VARIABLES ledger,    \* the generation's lines, merged (Archive)
          attempts,  \* attempts[p]: the attempt directories of purpose p
          running,   \* purpose of the attempt in progress, or None
          stamps,    \* history: certified complete selection evaluations
          gated      \* history: the gate's decision since the last of them

vars == <<ledger, attempts, running, stamps, gated>>

Purposes == {"genesis", "candidate", "anchor"}
FailureOutcomes == Outcomes \ {"benchmark_complete"}

\* driver.TERMINAL_STATUSES and UNRETRYABLE_STATUSES.
Rejections == {"no_proposal", "invalid_proposal", "rejected_validation",
               "rejected_duplicate"}
Unretryable == Rejections \cup {"operator_failed"} \cup FailureOutcomes
Terminal == Unretryable \cup {"complete"}

\* driver._generation_is_pending
Pending(m) == EvaluationStatus(m.row) \notin Terminal \/ m.awaiting

-----------------------------------------------------------------------------
Init ==
  /\ ledger = IF IsGenesis THEN Record(Empty, IsGenesis, Scaffold, FALSE) ELSE Empty
  /\ attempts = [p \in Purposes |-> 0]
  /\ running = None
  /\ stamps = {}
  /\ gated = "none"

\* The lock holder that runs an evaluation appends nothing else meanwhile.
AppendEvent(e) ==
  /\ running = None
  /\ ledger' = Record(ledger, IsGenesis, e, FALSE)

\* commit_child, after the tag.
Commit(p) ==
  /\ ~IsGenesis /\ ledger.lines = {}
  /\ AppendEvent(CommitEvent(p))
  /\ UNCHANGED <<attempts, running, stamps, gated>>

\* A proposal that is never committed, or whose committed diff is rejected.
Reject(p, status) ==
  /\ ~IsGenesis /\ Get(ledger.row, "outcome") \notin Outcomes
  /\ AppendEvent(Discarded(p, status))
  /\ UNCHANGED <<attempts, running, stamps, gated>>

\* An operator (select, a proposal stage, the gate) failed on a pending generation.
Fail(p) ==
  /\ ~IsGenesis /\ Pending(ledger)
  /\ AppendEvent(OperatorFailed(p))
  /\ UNCHANGED <<attempts, running, stamps, gated>>

\* evaluate() allocates the attempt directory before it runs anything.
StartEvaluation(purpose, force) ==
  /\ running = None /\ attempts[purpose] < MaxAttempts
  /\ CASE purpose = "genesis" ->
            /\ IsGenesis /\ ~force
            /\ EvaluationStatus(ledger.row) \notin FailureOutcomes
            /\ ~(/\ EvaluationStatus(ledger.row) = "complete"
                 /\ Get(ledger.row, "selection_eligible") = TRUE)
       [] purpose = "candidate" ->
            \/ force
            \/ /\ Get(ledger.row, "outcome") \notin Outcomes
               /\ EvaluationStatus(ledger.row) \notin Unretryable
       [] purpose = "anchor" ->
            /\ ~force /\ ~HasCompleteAnchor(ledger)
            /\ IsGenesis \/ IsParentRecord(ledger.row)
  /\ attempts' = [attempts EXCEPT ![purpose] = @ + 1]
  /\ running' = purpose
  /\ UNCHANGED <<ledger, stamps, gated>>

Evaluation(purpose, p, outcome, score, attempt) ==
  CASE purpose = "genesis" -> GenesisEvaluation(p, outcome, score, attempt)
    [] purpose = "candidate" ->
         CandidateEvaluation(IsGenesis, p, outcome, score, attempt)
    [] purpose = "anchor" -> AnchorEvaluation(p, outcome, score, attempt)

\* The attempt ends: its line is appended and, unless a kill falls between
\* the two writes (receipt = FALSE), so is its receipt.
FinishEvaluation(p, outcome, score, receipt) ==
  LET attempt == attempts[running]
      certified == /\ receipt /\ running # "anchor"
                   /\ outcome = "benchmark_complete"
  IN  /\ running # None
      /\ score # None <=> outcome = "benchmark_complete"
      /\ ledger' = Record(ledger, IsGenesis,
                          Evaluation(running, p, outcome, score, attempt), receipt)
      /\ stamps' = IF certified THEN stamps \cup {<<score, attempt, running>>}
                                ELSE stamps
      /\ gated' = IF certified THEN "none" ELSE gated
      /\ running' = None
      /\ UNCHANGED attempts

\* A kill while the evaluation runs: the attempt directory stays, no line.
Killed ==
  /\ running # None
  /\ running' = None
  /\ UNCHANGED <<ledger, attempts, stamps, gated>>

Gate(accept, reason) ==
  LET e == GateEvent(accept, reason)
  IN  /\ ledger.awaiting
      /\ AppendEvent(e)
      /\ gated' = IF e \in ledger.lines THEN gated
                  ELSE IF accept THEN "accept" ELSE "reject"
      /\ UNCHANGED <<attempts, running, stamps>>

\* The record operator's terminal fields, or its failure.
RecordTerminal(e) ==
  /\ e \in {RecordEvent, RecordError}
  /\ ~ledger.attempted
  /\ AppendEvent(e)
  /\ UNCHANGED <<attempts, running, stamps, gated>>

\* record_fields: the score audit, or an agent's annotation.
Annotate ==
  /\ ledger.lines # {}
  /\ AppendEvent(AuditEvent)
  /\ UNCHANGED <<attempts, running, stamps, gated>>

\* eval_child names the best row when the generation's own parent is unknown.
EvaluationParents ==
  IF running = "candidate" /\ Get(ledger.row, "parent") = None
    THEN Parents ELSE {Get(ledger.row, "parent")}

Next ==
  \/ \E p \in Parents : Commit(p)
  \/ \E p \in Parents, s \in Rejections : Reject(p, s)
  \/ \E p \in Parents \cup {None} : Fail(p)
  \/ \E purpose \in Purposes, force \in BOOLEAN : StartEvaluation(purpose, force)
  \/ \E p \in EvaluationParents, score \in Scores \cup {None},
        outcome \in Failures \cup {"benchmark_complete"}, receipt \in BOOLEAN :
       FinishEvaluation(p, outcome, score, receipt)
  \/ Killed
  \/ \E accept \in BOOLEAN, reason \in Reasons : Gate(accept, reason)
  \/ \E e \in {RecordEvent, RecordError} : RecordTerminal(e)
  \/ Annotate

Spec == Init /\ [][Next]_vars

-----------------------------------------------------------------------------
(* Properties. *)

LineFields ==
  EvaluationFields \cup {"mechanism_eval", "record_attempted", "record_error", "audit"}

TypeOK ==
  /\ DOMAIN ledger.row \subseteq LineFields \ Reserved
  /\ ledger.top \in {None, "dev", "sealed"}
  /\ ledger.awaiting \in BOOLEAN /\ ledger.attempted \in BOOLEAN
  /\ attempts \in [Purposes -> 0..MaxAttempts]
  /\ running \in Purposes \cup {None}
  /\ stamps \subseteq Scores \X (1..MaxAttempts) \X {"genesis", "candidate"}
  /\ gated \in {"none", "accept", "reject"}

\* A generation other than zero is a valid parent only while the latest word
\* on it since its last certified evaluation is a gate's accept: no retry,
\* failed attempt, sealed anchor, operator failure, annotation or kill admits
\* it (population.is_parent_record over archive.merge_events).
AdmittedByGate ==
  ~IsGenesis /\ IsParentRecord(ledger.row) => gated = "accept"

\* The score, attempt and purpose a parent shows come from one and the same
\* certified complete evaluation, never a mixture of attempts, an uncertified
\* line or a sealed anchor, whatever was merged into the row since.
ParentEvidence ==
  IsParentRecord(ledger.row) =>
    <<ledger.row["score"], ledger.row["attempt"], ledger.row["purpose"]>> \in stamps

\* A row the driver still owes a gate decision is one that was evaluated:
\* awaiting implies a canonical outcome in the merged row, which is what
\* finalize demands before it looks at the pending set.
AwaitingIsEvaluated ==
  ledger.awaiting => Get(ledger.row, "outcome") \in Outcomes

\* Once certified and complete, a generation's score is never replaced by
\* another attempt's: a later line either keeps it or (operator_failed on a
\* pending row) erases it.  Generation zero is the exception: its row keeps the
\* scaffold's note, so a complete re-evaluation of it replaces the stamp.
CertifiedScoreStands ==
  [][(/\ ~IsGenesis
      /\ Get(ledger.row, "receipt_certified") = TRUE
      /\ Get(ledger.row, "outcome") = "benchmark_complete")
     => Get(ledger'.row, "score") \in {Get(ledger.row, "score"), None}]_vars

\* A sealed evaluation leaves everything selection and gating read as it was:
\* its score stays out of the row and out of the pending set.
SealedIsInert ==
  [][running = "anchor" =>
       /\ ledger'.row = ledger.row
       /\ ledger'.top = ledger.top
       /\ ledger'.awaiting = ledger.awaiting]_vars

=============================================================================
