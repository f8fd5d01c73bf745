------------------------------- MODULE Archive -------------------------------
(***************************************************************************)
(* The lineage ledger of one generation, as src/src/evolve/archive.py      *)
(* reads it.  archive.jsonl is append-only; the state of a generation, its  *)
(* "row", is what merge_events computes from the generation's lines in      *)
(* file order.  merge_events folds the lines one by one and never looks at   *)
(* the lines of another generation, so the row is kept here incrementally:  *)
(* Record(m, e, ...) is the ledger after one more line.                     *)
(*                                                                         *)
(* A row and an event are Python dictionaries; here they are functions on   *)
(* the (string) names of the fields the control flow reads.  Fields that    *)
(* always agree for one generation (genid, tag, generation,                 *)
(* candidate_commit: tags never move) and fields nothing branches on (cost, *)
(* fingerprints, artefact references, diagnostics) are left out.            *)
(*                                                                         *)
(* In every module of this project a definition X_Words is a mutant of X: X  *)
(* with a plausible bug.  No specification uses one; PROJECT.json says which *)
(* property catches it.                                                     *)
(***************************************************************************)
EXTENDS Naturals

CONSTANT None   \* Python's None, and the value of an absent key under .get

ASSUME NoneAssumption ==
  /\ None \notin BOOLEAN
  /\ None \notin {"benchmark_complete", "candidate_invalid", "infrastructure_failed",
                  "timeout", "cancelled", "missing", "complete"}
  /\ None \notin {"dev", "sealed", "baseline", "genesis_eval",
                  "genesis", "candidate", "anchor",
                  "recorded before gate"}
  /\ None \notin {"pending", "keep", "operator_failed", "no_proposal",
                  "invalid_proposal", "rejected_validation", "rejected_duplicate"}

Get(d, k) == IF k \in DOMAIN d THEN d[k] ELSE None

Overlay(d, e) ==
  [k \in DOMAIN d \cup DOMAIN e |-> IF k \in DOMAIN e THEN e[k] ELSE d[k]]

Only(d, ks) == [k \in DOMAIN d \cap ks |-> d[k]]

-----------------------------------------------------------------------------
(* Vocabulary of the ledger. *)

Outcomes == {"benchmark_complete", "candidate_invalid",
             "infrastructure_failed", "timeout", "cancelled", "missing"}

Stamped_WithoutAttempt == {"score", "status", "outcome", "task_set_hash",
                           "purpose", "selection_eligible"}

Stamped == {"score", "status", "outcome", "task_set_hash", "attempt",
            "purpose", "selection_eligible"}

Reserved == {"kind", "mechanism_eval", "record_attempted"}

EvaluationFields ==
  Stamped \cup {"parent", "valid_parent", "verdict", "reason", "mutated",
                "note", "kind", "pending_gate_record", "receipt_certified"}

ScaffoldNote == "initial scaffold"
PendingNote  == "recorded before gate"

EvaluationStatus(d) ==
  IF Get(d, "outcome") \in Outcomes
    THEN IF d["outcome"] = "benchmark_complete" THEN "complete" ELSE d["outcome"]
    ELSE Get(d, "status")

-----------------------------------------------------------------------------
(* The lines the mechanism writes. *)

\* Generation zero's first line (workspace creation).
Scaffold ==
  [parent |-> None, score |-> None, status |-> "pending",
   valid_parent |-> FALSE, verdict |-> "pending", mutated |-> TRUE,
   note |-> ScaffoldNote]

\* commit_child's line; mutated stands for the presence of both path lists.
CommitEvent(p) == [parent |-> p, mutated |-> TRUE]

\* A generation that ends without (or in spite of) an evaluation:
\* operator_failed, no_proposal, invalid_proposal, rejected_*.
Discarded(p, status) ==
  [parent |-> p, score |-> None, status |-> status, task_set_hash |-> None,
   valid_parent |-> FALSE, verdict |-> "discard", mutated |-> TRUE,
   note |-> status]

OperatorFailed(p) == Discarded(p, "operator_failed")

\* append_evaluation_record: metadata under the record's own fields.
EvaluationEvent(purpose, outcome, score, attempt, pending, metadata) ==
  LET complete == outcome = "benchmark_complete"
      eligible == complete /\ purpose \in {"candidate", "genesis"}
  IN  Overlay(metadata,
        [score |-> score,
         status |-> IF complete THEN "complete" ELSE outcome,
         outcome |-> outcome,
         task_set_hash |-> IF purpose = "anchor" THEN "sealed" ELSE "dev",
         attempt |-> attempt, purpose |-> purpose,
         selection_eligible |-> eligible, pending_gate_record |-> pending,
         valid_parent |-> eligible /\ ~pending,
         verdict |-> IF eligible /\ ~pending THEN "keep" ELSE "discard",
         mechanism_eval |-> TRUE])

\* _append_lifecycle_evaluation, for each of its callers: the run's genesis
\* evaluation, eval_child (a candidate waits for its gate, a re-evaluated
\* generation zero does not), and the sealed anchors.
GenesisEvaluation(p, outcome, score, attempt) ==
  EvaluationEvent("genesis", outcome, score, attempt, FALSE,
    [parent |-> p, mutated |-> TRUE, note |-> "genesis evaluated",
     kind |-> "genesis_eval"])

CandidateEvaluation_SkipsGate(genesis, p, outcome, score, attempt) ==
  EvaluationEvent("candidate", outcome, score, attempt, FALSE,
    [parent |-> p, mutated |-> TRUE])

CandidateEvaluation_GatedOnce(genesis, p, outcome, score, attempt) ==
  LET pending == ~genesis /\ outcome = "benchmark_complete" /\ attempt = 1
  IN  EvaluationEvent("candidate", outcome, score, attempt, pending,
        [parent |-> p, mutated |-> TRUE])

CandidateEvaluation(genesis, p, outcome, score, attempt) ==
  LET pending == ~genesis /\ outcome = "benchmark_complete"
      metadata == [parent |-> p, mutated |-> TRUE]
  IN  EvaluationEvent("candidate", outcome, score, attempt, pending,
        IF genesis THEN metadata
        ELSE Overlay(metadata,
          [note |-> IF pending THEN PendingNote ELSE outcome]))

AnchorEvaluation_WithoutKind(p, outcome, score, attempt) ==
  EvaluationEvent("anchor", outcome, score, attempt, FALSE,
    [parent |-> p, mutated |-> TRUE, note |-> "sealed anchor"])

AnchorEvaluation(p, outcome, score, attempt) ==
  EvaluationEvent("anchor", outcome, score, attempt, FALSE,
    [parent |-> p, mutated |-> TRUE, note |-> "sealed anchor",
     kind |-> "anchor"])

\* The gate's validated verdict; reason is the text the gate prints, which
\* names the two scores it compared.
GateEvent(accept, reason) ==
  [pending_gate_record |-> FALSE, valid_parent |-> accept,
   verdict |-> IF accept THEN "keep" ELSE "discard", reason |-> reason]

RecordEvent == [record_attempted |-> TRUE]
RecordError == [record_error |-> TRUE]

AuditEvent == [audit |-> "pending"]

-----------------------------------------------------------------------------
(* How a line changes the row. *)

IsRetryOfFailure_AnyRetry(current, event) ==
  /\ Get(event, "outcome") \in Outcomes
  /\ Get(event, "purpose") = Get(current, "purpose")
  /\ Get(current, "attempt") # None
  /\ event["attempt"] > current["attempt"]

IsRetryOfFailure(current, event) ==
  /\ EvaluationStatus(current) = "infrastructure_failed"
  /\ Get(event, "outcome") \in Outcomes
  /\ Get(event, "purpose") = Get(current, "purpose")
  /\ Get(current, "attempt") # None
  /\ event["attempt"] > current["attempt"]

CanReplaceStamped(current, event) ==
  /\ Get(event, "mechanism_eval") = TRUE
  /\ \/ Get(event, "kind") = "baseline"
     \/ /\ \/ Get(current, "note") \in {ScaffoldNote, PendingNote}
           \/ Get(current, "pending_gate_record") = TRUE
        /\ Get(event, "outcome") = "benchmark_complete"
        /\ Get(event, "selection_eligible") = TRUE
        /\ Get(event, "score") # None
        /\ Get(event, "valid_parent") = TRUE
     \/ IsRetryOfFailure(current, event)

\* Stamped fields are written once; a gate or operator failure of a pending
\* generation still overrides its status and score; valid_parent never
\* becomes true on a row whose evaluation is not selection-eligible.
MergeEventFields(row, event) ==
  LET replace == CanReplaceStamped(row, event)
      override == /\ Get(row, "pending_gate_record") = TRUE
                  /\ Get(event, "status") = "operator_failed"
      Protected(k) == /\ k \in Stamped \cap DOMAIN row
                      /\ ~replace
                      /\ ~(override /\ k \in {"status", "score"})
      eligible == IF "selection_eligible" \in DOMAIN event
                        /\ ~Protected("selection_eligible")
                    THEN event["selection_eligible"]
                    ELSE Get(row, "selection_eligible")
      Refused(k) == /\ k = "valid_parent"
                    /\ event[k] = TRUE
                    /\ eligible \notin {None, TRUE}
  IN  Overlay(row, Only(event, {k \in DOMAIN event \ Reserved :
                                  ~Protected(k) /\ ~Refused(k)}))

ReplaceTop_KeepsMarkers(row, event) == Overlay(row, event)

ReplaceTop(row, event) ==
  Overlay(row, Only(event, DOMAIN event \ Reserved))

\* An auxiliary evaluation leaves the row alone but for its note.
MergeNote(row, event) == Overlay(row, Only(event, {"note"}))

IsGenesisReplacement(row, genesis, event) ==
  /\ genesis
  /\ EvaluationStatus(row) = "pending"
  /\ Get(row, "score") = None
  /\ Get(row, "valid_parent") = FALSE
  /\ Get(event, "kind") = "genesis_eval"
  /\ Get(event, "mechanism_eval") = TRUE

EvaluationEntry(event) == Only(event, EvaluationFields)

MergeEntry(entry, event) ==
  LET replace == CanReplaceStamped(entry, event)
  IN  Overlay(entry, Only(EvaluationEntry(event),
        {k \in DOMAIN event : k \in Stamped \cap DOMAIN entry => replace}))

-----------------------------------------------------------------------------
(* The ledger of one generation: the row, the task set of its top-level      *)
(* evaluation, the auxiliary evaluations, the lines already present, and     *)
(* two facts the driver reads off the raw lines: whether an evaluation       *)
(* still awaits its gate, and whether the record operator was tried.         *)

Empty == [row |-> << >>, top |-> None, evals |-> << >>, lines |-> {},
          awaiting |-> FALSE, attempted |-> FALSE]

IsKeyedEvaluation(e) == Get(e, "task_set_hash") # None

MergeKeyedEvaluation(m, genesis, event) ==
  LET certified == Get(event, "receipt_certified") = TRUE
      hash == event["task_set_hash"]
      key == <<"eval", hash>>
      stale == certified /\ Get(m.row, "receipt_certified") # TRUE
  IN  IF IsGenesisReplacement(m.row, genesis, event)
        THEN [m EXCEPT !.top = hash, !.row = ReplaceTop(m.row, event)]
      ELSE IF m.top = None
        THEN [m EXCEPT !.top = hash, !.row = MergeEventFields(m.row, event)]
      ELSE IF m.top = hash
        THEN [m EXCEPT !.row = IF stale
                                 THEN ReplaceTop(Only(m.row, {"note"}), event)
                                 ELSE MergeEventFields(m.row, event)]
        ELSE [m EXCEPT !.row = MergeNote(m.row, event),
                        !.evals = Overlay(m.evals,
                          [k \in {key} |-> IF key \in DOMAIN m.evals
                             THEN MergeEntry(m.evals[key], event)
                             ELSE EvaluationEntry(event)])]

IsUncertifiedRepeat(m, certified) == m.top # None /\ ~certified

\* A line's merge; a mechanism evaluation is certified by its receipt.
Merge(m, genesis, e, receipt) ==
  LET certified == receipt /\ Get(e, "mechanism_eval") = TRUE
      event == IF certified THEN Overlay(e, [receipt_certified |-> TRUE]) ELSE e
      kind == Get(e, "kind")
  IN  IF ~IsKeyedEvaluation(e)
        THEN [m EXCEPT !.row = MergeEventFields(m.row, event)]
        ELSE IF kind = "anchor" \/ (kind = "genesis_eval" /\ ~genesis)
        THEN [m EXCEPT !.evals = Overlay(m.evals,
                [k \in {<<kind, e["task_set_hash"]>>} |-> EvaluationEntry(event)])]
        ELSE IF IsUncertifiedRepeat(m, certified)
        THEN [m EXCEPT !.row = MergeNote(m.row, event)]
        ELSE MergeKeyedEvaluation(m, genesis, event)

\* The two kinds of line the driver's own scan of the ledger looks for.
IsEvaluationStamp(e) ==
  /\ Get(e, "outcome") \in Outcomes
  /\ Get(e, "pending_gate_record") = TRUE \/ Get(e, "note") = PendingNote

IsGateRecord_ErrorsOnly(e) ==
  Stamped \cap DOMAIN e = {} /\ "record_error" \in DOMAIN e

IsGateRecord(e) ==
  /\ Stamped \cap DOMAIN e = {}
  /\ \/ "record_error" \in DOMAIN e
     \/ {"valid_parent", "verdict", "reason"} \subseteq DOMAIN e

\* One more line.  ensure_local_archive keeps the first of several identical
\* lines, and every reader that decides anything runs after it: a line that
\* is already there changes nothing.
Record(m, genesis, e, receipt) ==
  IF e \in m.lines
    THEN m
    ELSE [Merge(m, genesis, e, receipt) EXCEPT
            !.lines = @ \cup {e},
            !.awaiting = IsEvaluationStamp(e) \/ (@ /\ ~IsGateRecord(e)),
            !.attempted = @ \/ DOMAIN e \cap {"record_attempted", "record_error"} # {}]

-----------------------------------------------------------------------------
(* What the rest of the system reads off a generation's ledger. *)

\* population.is_parent_record, for a generation whose tag exists.
IsParentRecord(row) ==
  /\ Get(row, "outcome") = "benchmark_complete"
  /\ Get(row, "purpose") \in {"candidate", "genesis"}
  /\ Get(row, "selection_eligible") = TRUE
  /\ Get(row, "pending_gate_record") = FALSE
  /\ Get(row, "valid_parent") = TRUE
  /\ Get(row, "verdict") = "keep"
  /\ Get(row, "receipt_certified") = TRUE
  /\ Get(row, "task_set_hash") = "dev"
  /\ Get(row, "score") # None

HasCompleteAnchor_WrongKey(m) == <<"eval", "sealed">> \in DOMAIN m.evals

HasCompleteAnchor(m) ==
  \E k \in DOMAIN m.evals :
    /\ Get(m.evals[k], "kind") = "anchor"
    /\ Get(m.evals[k], "purpose") = "anchor"
    /\ Get(m.evals[k], "outcome") = "benchmark_complete"

=============================================================================
