---------------------------- MODULE Archive_proofs ----------------------------
(***************************************************************************)
(* What merge_events makes of one more line, whatever the row and the line:  *)
(* lemmas about the operators of Archive, for the proofs about Generation    *)
(* and Driver.                                                               *)
(***************************************************************************)
EXTENDS Archive, TLAPS

-----------------------------------------------------------------------------
(* The shape of rows and ledgers. *)

\* The fields of the lines of a ledger.
RecordedFields ==
  EvaluationFields \cup {"mechanism_eval", "record_attempted", "record_error", "audit"}

AnyPurpose == {"genesis", "candidate", "anchor"}

\* The fields only an evaluation writes.
EvaluatedFields == {"outcome", "attempt", "purpose", "selection_eligible", "receipt_certified"}

\* A row without a top-level evaluation has none of them, no score, and a status
\* that is none of an evaluation; a row with one has every stamped field, so that
\* nothing is ever half filled in.
Shape(row, top) ==
  /\ DOMAIN row \subseteq RecordedFields \ Reserved
  /\ top \in {None, "dev"}
  /\ top = None => /\ DOMAIN row \cap EvaluatedFields = {}
                   /\ Get(row, "score") = None
                   /\ Get(row, "status") # "complete"
  /\ top = "dev" => /\ Stamped \cup {"mutated"} \subseteq DOMAIN row
                    /\ row["outcome"] \in Outcomes

LedgerFields == {"row", "top", "evals", "lines", "awaiting", "attempted"}

\* What is certified and complete shows one of the certified evaluations.
Certified(row) ==
  /\ Get(row, "receipt_certified") = TRUE
  /\ Get(row, "outcome") = "benchmark_complete"
  /\ Get(row, "score") # None

Evidence(row) == <<Get(row, "score"), Get(row, "attempt"), Get(row, "purpose")>>

-----------------------------------------------------------------------------
(* Dictionaries. *)

LEMMA UpdateDomain ==
  ASSUME NEW d, NEW e, NEW ks, ks \subseteq DOMAIN e
  PROVE  DOMAIN Overlay(d, Only(e, ks)) = DOMAIN d \cup ks
<1>1. DOMAIN Only(e, ks) = ks
  <2>1. DOMAIN e \cap ks = ks
    OBVIOUS
  <2> QED BY <2>1 DEF Only
<1>2. DOMAIN Overlay(d, Only(e, ks)) = DOMAIN d \cup DOMAIN Only(e, ks)
  BY DEF Overlay
<1> QED BY <1>1, <1>2

\* What a row shows after some fields of an event were written to it.
LEMMA UpdateGet ==
  ASSUME NEW d, NEW e, NEW ks, ks \subseteq DOMAIN e
  PROVE  /\ \A k \in ks : Get(Overlay(d, Only(e, ks)), k) = e[k]
         /\ \A k : k \notin ks => Get(Overlay(d, Only(e, ks)), k) = Get(d, k)
<1> DEFINE u == Only(e, ks)
<1>1. DOMAIN u = ks /\ \A k \in ks : u[k] = e[k]
  <2>1. DOMAIN e \cap ks = ks
    OBVIOUS
  <2> QED BY <2>1 DEF Only
<1>2. /\ \A k \in DOMAIN u : Get(Overlay(d, u), k) = u[k]
      /\ \A k : k \notin DOMAIN u => Get(Overlay(d, u), k) = Get(d, k)
  <2> HIDE DEF u
  <2> QED BY DEF Overlay, Get
<1> QED BY <1>1, <1>2

-----------------------------------------------------------------------------
(* Lines that are not evaluations: commits, rejections, failures, gate        *)
(* verdicts, records and annotations.                                       *)

Plain(e) ==
  /\ DOMAIN e \subseteq RecordedFields
  /\ DOMAIN e \cap (EvaluatedFields \cup {"mechanism_eval"}) = {}
  /\ Get(e, "score") = None
  /\ Get(e, "status") # "complete"
  /\ Get(e, "task_set_hash") = None

LEMMA PlainLines ==
  /\ Plain(Scaffold) /\ Plain(RecordEvent) /\ Plain(RecordError) /\ Plain(AuditEvent)
  /\ \A p : Plain(CommitEvent(p))
  /\ \A p, s : Discarded(p, s)["valid_parent"] = FALSE
  /\ \A p, s : s # "complete" => Plain(Discarded(p, s))
  /\ \A a, r : Plain(GateEvent(a, r)) /\ GateEvent(a, r)["valid_parent"] = a
<1>1. Plain(Scaffold)
  BY DEF Plain, Scaffold, Get, RecordedFields, EvaluationFields, Stamped, EvaluatedFields
<1>2. Plain(RecordEvent) /\ Plain(RecordError) /\ Plain(AuditEvent)
  BY NoneAssumption DEF Plain, RecordEvent, RecordError, AuditEvent, Get, RecordedFields,
         EvaluationFields, Stamped, EvaluatedFields
<1>3. \A p : Plain(CommitEvent(p))
  BY NoneAssumption DEF Plain, CommitEvent, Get, RecordedFields, EvaluationFields, Stamped, EvaluatedFields
<1>4. /\ \A p, s : Discarded(p, s)["valid_parent"] = FALSE
      /\ \A p, s : s # "complete" => Plain(Discarded(p, s))
  BY DEF Plain, Discarded, Get, RecordedFields, EvaluationFields, Stamped, EvaluatedFields
<1>5. \A a, r : Plain(GateEvent(a, r)) /\ GateEvent(a, r)["valid_parent"] = a
  BY NoneAssumption, ZenonT(60) DEF Plain, GateEvent, Get, RecordedFields, EvaluationFields, Stamped, EvaluatedFields
<1> QED BY <1>1, <1>2, <1>3, <1>4, <1>5

\* The fields no rule protects are the line's when it has them.
Unprotected == RecordedFields \ (Stamped \cup Reserved \cup {"valid_parent"})

FreeFields(row, r, e) ==
  \A k \in Unprotected :
    /\ k \in DOMAIN e => Get(r, k) = e[k] /\ k \in DOMAIN r
    /\ k \notin DOMAIN e => Get(r, k) = Get(row, k)

\* A plain line leaves the evaluation on record alone: it can erase the score
\* or withdraw the parent, and only its own verdict can make one.
MergesPlain(row, r, e) ==
  /\ DOMAIN row \subseteq DOMAIN r /\ DOMAIN r \subseteq RecordedFields \ Reserved
  /\ FreeFields(row, r, e)
  /\ Get(r, "status") \in {Get(row, "status"), Get(e, "status")}
  /\ DOMAIN r \cap EvaluatedFields = DOMAIN row \cap EvaluatedFields
  /\ \A k \in EvaluatedFields : Get(r, k) = Get(row, k)
  /\ Get(r, "score") \in {Get(row, "score"), None}
  /\ Get(r, "valid_parent") = TRUE =>
       \/ Get(row, "valid_parent") = TRUE
       \/ Get(e, "valid_parent") = TRUE
  /\ Get(e, "valid_parent") = FALSE => Get(r, "valid_parent") = FALSE

LEMMA PlainMergeFields ==
  ASSUME NEW row, NEW e, Plain(e), DOMAIN row \subseteq RecordedFields \ Reserved
  PROVE  MergesPlain(row, MergeEventFields(row, e), e)
<1> DEFINE replace == CanReplaceStamped(row, e)
           override == /\ Get(row, "pending_gate_record") = TRUE
                       /\ Get(e, "status") = "operator_failed"
           Protected(k) == /\ k \in Stamped \cap DOMAIN row
                           /\ ~replace
                           /\ ~(override /\ k \in {"status", "score"})
           eligible == IF "selection_eligible" \in DOMAIN e /\ ~Protected("selection_eligible")
                         THEN e["selection_eligible"] ELSE Get(row, "selection_eligible")
           Refused(k) == k = "valid_parent" /\ e[k] = TRUE /\ eligible \notin {None, TRUE}
           ks == {k \in DOMAIN e \ Reserved : ~Protected(k) /\ ~Refused(k)}
<1>1. MergeEventFields(row, e) = Overlay(row, Only(e, ks))
  BY DEF MergeEventFields
<1>2. ~replace
  BY NoneAssumption DEF CanReplaceStamped, Plain, Get
<1>3. ks \subseteq DOMAIN e /\ ks \cap Reserved = {} /\ ks \cap EvaluatedFields = {}
  BY DEF Plain
<1>4. /\ "valid_parent" \in ks => e["valid_parent"] = Get(e, "valid_parent")
      /\ Get(e, "valid_parent") = FALSE => "valid_parent" \in ks
  BY NoneAssumption DEF Get, Reserved, Stamped
<1>5. "score" \in ks => e["score"] = None
  BY DEF Plain, Get
<1>13. /\ Unprotected \cap DOMAIN e \subseteq ks
       /\ "status" \in ks => e["status"] = Get(e, "status")
  BY DEF Unprotected, Get
<1>6. PICK S : S = ks
  OBVIOUS
<1>7. S \subseteq DOMAIN e
  BY <1>3, <1>6
<1>8. DOMAIN Overlay(row, Only(e, S)) = DOMAIN row \cup S
  BY <1>7, UpdateDomain
<1>10. /\ \A k \in S : Get(Overlay(row, Only(e, S)), k) = e[k]
       /\ \A k : k \notin S => Get(Overlay(row, Only(e, S)), k) = Get(row, k)
  BY <1>7, UpdateGet
<1>9. MergeEventFields(row, e) = Overlay(row, Only(e, S))
  BY <1>1, <1>6
<1>11. PICK r : r = Overlay(row, Only(e, S))
  OBVIOUS
<1> HIDE DEF ks
<1>14. DOMAIN r = DOMAIN row \cup S
  BY <1>8, <1>11
<1>15. /\ \A k \in S : Get(r, k) = e[k]
       /\ \A k : k \notin S => Get(r, k) = Get(row, k)
  BY <1>10, <1>11
<1>16. FreeFields(row, r, e)
  BY <1>6, <1>7, <1>13, <1>14, <1>15 DEF FreeFields
<1>12. MergesPlain(row, r, e)
  BY <1>3, <1>4, <1>5, <1>6, <1>13, <1>14, <1>15, <1>16 DEF Plain, MergesPlain
<1> QED BY <1>9, <1>11, <1>12

-----------------------------------------------------------------------------
(* Evaluation lines. *)

EvaluationShape(e) ==
  /\ Stamped \cup {"valid_parent", "mechanism_eval", "parent", "mutated"} \subseteq DOMAIN e
  /\ DOMAIN e \subseteq RecordedFields \ {"reason"}
  /\ e["mechanism_eval"] = TRUE
  /\ e["outcome"] \in Outcomes
  /\ e["valid_parent"] \in BOOLEAN
  /\ e["status"] # "operator_failed"

\* What a merged row takes from an evaluation, field by field.
TakesStamped(r, e) == \A k \in Stamped : Get(r, k) = e[k]

TakesReceipt(r, row, e) ==
  Get(r, "receipt_certified") = IF "receipt_certified" \in DOMAIN e
                                  THEN e["receipt_certified"]
                                  ELSE Get(row, "receipt_certified")

LEMMA ReplaceTopFacts ==
  ASSUME NEW row, NEW e, EvaluationShape(e), DOMAIN row \subseteq RecordedFields \ Reserved
  PROVE  LET r == ReplaceTop(row, e)
         IN  /\ DOMAIN row \cup Stamped \subseteq DOMAIN r
             /\ DOMAIN r \subseteq RecordedFields \ Reserved
             /\ TakesStamped(r, e) /\ FreeFields(row, r, e)
             /\ Get(r, "valid_parent") = e["valid_parent"]
             /\ TakesReceipt(r, row, e)
<1>1. PICK S : S = DOMAIN e \ Reserved
  OBVIOUS
<1>2. /\ S \subseteq DOMAIN e /\ S \subseteq RecordedFields \ Reserved
      /\ Stamped \subseteq S /\ "valid_parent" \in S
      /\ Unprotected \cap DOMAIN e = Unprotected \cap S
      /\ "receipt_certified" \in S <=> "receipt_certified" \in DOMAIN e
  BY <1>1 DEF EvaluationShape, Stamped, Reserved, Unprotected
<1>3. DOMAIN Overlay(row, Only(e, S)) = DOMAIN row \cup S
  BY <1>2, UpdateDomain
<1>4. /\ \A k \in S : Get(Overlay(row, Only(e, S)), k) = e[k]
      /\ \A k : k \notin S => Get(Overlay(row, Only(e, S)), k) = Get(row, k)
  BY <1>2, UpdateGet
<1>5. ReplaceTop(row, e) = Overlay(row, Only(e, S))
  BY <1>1 DEF ReplaceTop
<1>6. PICK r : r = Overlay(row, Only(e, S))
  OBVIOUS
<1>7. /\ DOMAIN r = DOMAIN row \cup S
      /\ \A k \in S : Get(r, k) = e[k]
      /\ \A k : k \notin S => Get(r, k) = Get(row, k)
  BY <1>3, <1>4, <1>6
<1>8. FreeFields(row, r, e)
  BY <1>2, <1>7 DEF FreeFields
<1>9. TakesStamped(r, e) /\ TakesReceipt(r, row, e)
  BY <1>2, <1>7 DEF TakesStamped, TakesReceipt
<1> QED BY <1>2, <1>5, <1>6, <1>7, <1>8, <1>9

\* A field already stamped is either kept, with all the others, or replaced,
\* with all the others.
MergesEvaluation(row, r, e) ==
  /\ DOMAIN row \cup Stamped \subseteq DOMAIN r
  /\ FreeFields(row, r, e)
  /\ DOMAIN r \subseteq RecordedFields \ Reserved
  /\ \/ TakesStamped(r, e)
     \/ /\ \A k \in Stamped \cap DOMAIN row : Get(r, k) = Get(row, k)
        /\ \A k \in Stamped \ DOMAIN row : Get(r, k) = e[k]
  /\ Get(r, "valid_parent") = TRUE =>
       Get(row, "valid_parent") = TRUE \/ e["valid_parent"] = TRUE
  /\ e["valid_parent"] = FALSE => Get(r, "valid_parent") = FALSE
  /\ TakesReceipt(r, row, e)

LEMMA EvaluationMergeFields ==
  ASSUME NEW row, NEW e, EvaluationShape(e), DOMAIN row \subseteq RecordedFields \ Reserved
  PROVE  MergesEvaluation(row, MergeEventFields(row, e), e)
<1> DEFINE replace == CanReplaceStamped(row, e)
           override == /\ Get(row, "pending_gate_record") = TRUE
                       /\ Get(e, "status") = "operator_failed"
           Protected(k) == /\ k \in Stamped \cap DOMAIN row
                           /\ ~replace
                           /\ ~(override /\ k \in {"status", "score"})
           eligible == IF "selection_eligible" \in DOMAIN e /\ ~Protected("selection_eligible")
                         THEN e["selection_eligible"] ELSE Get(row, "selection_eligible")
           Refused(k) == k = "valid_parent" /\ e[k] = TRUE /\ eligible \notin {None, TRUE}
           ks == {k \in DOMAIN e \ Reserved : ~Protected(k) /\ ~Refused(k)}
<1>1. MergeEventFields(row, e) = Overlay(row, Only(e, ks))
  BY DEF MergeEventFields
<1>2. ~override
  BY DEF EvaluationShape, Get, Stamped
<1>3. /\ ks \subseteq DOMAIN e /\ ks \subseteq RecordedFields \ Reserved
      /\ "receipt_certified" \in ks <=> "receipt_certified" \in DOMAIN e
      /\ Stamped \ DOMAIN row \subseteq ks
      /\ Unprotected \cap DOMAIN e = Unprotected \cap ks
  BY DEF EvaluationShape, Stamped, Reserved, Unprotected
<1>5. \/ Stamped \subseteq ks
      \/ ks \cap Stamped = Stamped \ DOMAIN row
  BY <1>2 DEF EvaluationShape, Stamped, Reserved
<1>6. e["valid_parent"] = FALSE => "valid_parent" \in ks
  BY DEF EvaluationShape, Stamped, Reserved
<1>7. PICK S : S = ks
  OBVIOUS
<1>8. MergeEventFields(row, e) = Overlay(row, Only(e, S))
  BY <1>1, <1>7
<1> HIDE DEF ks
<1>9. DOMAIN Overlay(row, Only(e, S)) = DOMAIN row \cup S
  BY <1>3, <1>7, UpdateDomain
<1>10. /\ \A k \in S : Get(Overlay(row, Only(e, S)), k) = e[k]
       /\ \A k : k \notin S => Get(Overlay(row, Only(e, S)), k) = Get(row, k)
  BY <1>3, <1>7, UpdateGet
<1> DEFINE r == Overlay(row, Only(e, S))
<1> HIDE DEF r
<1>11. /\ DOMAIN r = DOMAIN row \cup S
       /\ \A k \in S : Get(r, k) = e[k]
       /\ \A k : k \notin S => Get(r, k) = Get(row, k)
  BY <1>9, <1>10 DEF r
<1>12. /\ DOMAIN row \cup Stamped \subseteq DOMAIN r
       /\ DOMAIN r \subseteq RecordedFields \ Reserved
  BY <1>3, <1>7, <1>11
<1>13. \/ TakesStamped(r, e)
       \/ /\ \A k \in Stamped \cap DOMAIN row : Get(r, k) = Get(row, k)
          /\ \A k \in Stamped \ DOMAIN row : Get(r, k) = e[k]
  <2>1. CASE Stamped \subseteq S
    BY <2>1, <1>11 DEF TakesStamped
  <2>2. CASE S \cap Stamped = Stamped \ DOMAIN row
    BY <2>2, <1>11
  <2> QED BY <2>1, <2>2, <1>5, <1>7
<1>14. /\ Get(r, "valid_parent") = TRUE =>
            Get(row, "valid_parent") = TRUE \/ e["valid_parent"] = TRUE
       /\ e["valid_parent"] = FALSE => Get(r, "valid_parent") = FALSE
  BY <1>6, <1>7, <1>11
<1>15. TakesReceipt(r, row, e)
  BY <1>3, <1>7, <1>11 DEF TakesReceipt
<1>17. FreeFields(row, r, e)
  BY <1>3, <1>7, <1>11 DEF FreeFields
<1>16. MergesEvaluation(row, r, e)
  BY <1>12, <1>13, <1>14, <1>15, <1>17 DEF MergesEvaluation
<1> QED BY <1>8, <1>16 DEF r

-----------------------------------------------------------------------------
(* What merging an evaluation makes of a row. *)

\* r is what a row becomes when evaluation e, with its receipt or without it,
\* is its top-level evaluation: what r certifies was certified before or is
\* certified by e, all of it, without a receipt nothing certified changes, and e
\* withdraws the parent or makes it.
Becomes(row, r, e, receipt) ==
  /\ DOMAIN r \subseteq RecordedFields \ Reserved
  /\ Stamped \cup {"mutated"} \subseteq DOMAIN r /\ r["outcome"] \in Outcomes
  /\ Get(r, "score") \in {Get(row, "score"), e["score"]}
  /\ Get(r, "parent") \in {Get(row, "parent"), e["parent"]}
  /\ \/ /\ Get(r, "outcome") = e["outcome"]
        /\ Get(r, "selection_eligible") = e["selection_eligible"]
     \/ /\ Get(r, "outcome") = Get(row, "outcome")
        /\ Get(r, "selection_eligible") = Get(row, "selection_eligible")
  /\ ~receipt /\ Get(r, "receipt_certified") = TRUE =>
       \A k \in RecordedFields \ {"note"} : Get(r, k) = Get(row, k)
  /\ Certified(r) =>
       \/ /\ receipt /\ e["outcome"] = "benchmark_complete"
          /\ Evidence(r) = <<e["score"], e["attempt"], e["purpose"]>>
       \/ Certified(row) /\ Evidence(r) = Evidence(row)
  /\ Get(r, "valid_parent") = TRUE =>
       Get(row, "valid_parent") = TRUE \/ e["valid_parent"] = TRUE
  /\ receipt /\ e["valid_parent"] = FALSE => Get(r, "valid_parent") = FALSE

LEMMA FreeOfEvaluation ==
  ASSUME NEW row, NEW r, NEW e, NEW v, FreeFields(row, r, v), EvaluationShape(e),
         \A k \in DOMAIN e : v[k] = e[k], DOMAIN e \subseteq DOMAIN v
  PROVE  "mutated" \in DOMAIN r /\ Get(r, "parent") = e["parent"]
<1>1. {"mutated", "parent"} \subseteq DOMAIN e
  BY DEF EvaluationShape
<1>2. {"mutated", "parent"} \subseteq Unprotected
  BY DEF Unprotected, RecordedFields, EvaluationFields, Stamped, Reserved
<1> QED BY <1>1, <1>2 DEF FreeFields

\* The event append_event and merge_events hand to the merge of a line.
Event(e, receipt) == IF receipt THEN Overlay(e, [receipt_certified |-> TRUE]) ELSE e

LEMMA EventFacts ==
  ASSUME NEW e, NEW receipt \in BOOLEAN, EvaluationShape(e),
         "receipt_certified" \notin DOMAIN e
  PROVE  LET v == Event(e, receipt)
         IN  /\ EvaluationShape(v)
             /\ \A k \in DOMAIN e : v[k] = e[k]
             /\ DOMAIN v = IF receipt THEN DOMAIN e \cup {"receipt_certified"} ELSE DOMAIN e
             /\ receipt => v["receipt_certified"] = TRUE
<1>1. CASE receipt
  <2>1. DOMAIN [receipt_certified |-> TRUE] = {"receipt_certified"}
    OBVIOUS
  <2>2. PICK v : v = Event(e, receipt)
    OBVIOUS
  <2>3. /\ DOMAIN v = DOMAIN e \cup {"receipt_certified"}
        /\ \A k \in DOMAIN e : v[k] = e[k]
        /\ v["receipt_certified"] = TRUE
    BY <1>1, <2>1, <2>2 DEF Event, Overlay
  <2>4. "receipt_certified" \in RecordedFields
    BY DEF RecordedFields, EvaluationFields
  <2>5. EvaluationShape(v)
    BY <2>3, <2>4 DEF EvaluationShape, Stamped
  <2> QED BY <1>1, <2>2, <2>3, <2>5
<1>2. CASE ~receipt
  BY <1>2 DEF Event
<1> QED BY <1>1, <1>2

LEMMA CertifiedIsEvaluated ==
  ASSUME NEW row, NEW top, Shape(row, top), Get(row, "receipt_certified") = TRUE
  PROVE  top = "dev" /\ EvaluationStatus(row) # "pending"
<1>1. "receipt_certified" \in DOMAIN row
  BY NoneAssumption DEF Get
<1>2. top = "dev"
  BY <1>1 DEF Shape, EvaluatedFields
<1>3. Get(row, "outcome") \in Outcomes /\ Get(row, "outcome") = row["outcome"]
  BY <1>2, NoneAssumption DEF Shape, Get, Stamped
<1> QED BY <1>2, <1>3 DEF EvaluationStatus, Outcomes

LEMMA GenesisReplacementBecomes ==
  ASSUME NEW row, NEW top, NEW g, NEW e, NEW receipt \in BOOLEAN,
         EvaluationShape(e), "receipt_certified" \notin DOMAIN e, Shape(row, top),
         EvaluationStatus(row) = "pending"
  PROVE  Becomes(row, ReplaceTop(row, Event(e, receipt)), e, receipt)
<1>1. PICK v : v = Event(e, receipt)
  OBVIOUS
<1>2. /\ EvaluationShape(v)
      /\ \A k \in DOMAIN e : v[k] = e[k]
      /\ DOMAIN v = IF receipt THEN DOMAIN e \cup {"receipt_certified"} ELSE DOMAIN e
      /\ receipt => v["receipt_certified"] = TRUE
  BY <1>1, EventFacts
<1>3. PICK r : r = ReplaceTop(row, v)
  OBVIOUS
<1>4. /\ DOMAIN row \cup Stamped \subseteq DOMAIN r
      /\ DOMAIN r \subseteq RecordedFields \ Reserved
      /\ TakesStamped(r, v) /\ FreeFields(row, r, v)
      /\ Get(r, "valid_parent") = v["valid_parent"]
      /\ TakesReceipt(r, row, v)
  BY <1>2, <1>3, ReplaceTopFacts DEF Shape
<1>5. Get(row, "receipt_certified") # TRUE
  BY CertifiedIsEvaluated
<1>6. Get(r, "receipt_certified") = TRUE => receipt
  BY <1>2, <1>4, <1>5 DEF TakesReceipt
<1>10. "mutated" \in DOMAIN r /\ Get(r, "parent") = e["parent"]
  BY <1>2, <1>4, FreeOfEvaluation
<1>7. \A k \in Stamped : Get(r, k) = e[k] /\ r[k] = e[k]
  BY <1>2, <1>4 DEF TakesStamped, EvaluationShape, Get
<1>8. {"outcome", "score", "attempt", "purpose"} \subseteq Stamped
  BY DEF Stamped
<1>9. "valid_parent" \in DOMAIN e /\ e["outcome"] \in Outcomes
  BY DEF EvaluationShape
<1>11. Get(r, "outcome") = e["outcome"] /\ Get(r, "selection_eligible") = e["selection_eligible"]
  BY <1>7 DEF Stamped
<1> QED BY <1>1, <1>2, <1>3, <1>4, <1>6, <1>7, <1>8, <1>9, <1>10, <1>11
        DEF Becomes, Certified, Evidence

LEMMA FirstEvaluationBecomes ==
  ASSUME NEW row, NEW e, NEW receipt \in BOOLEAN,
         EvaluationShape(e), "receipt_certified" \notin DOMAIN e, Shape(row, None)
  PROVE  Becomes(row, MergeEventFields(row, Event(e, receipt)), e, receipt)
<1>1. PICK v : v = Event(e, receipt)
  OBVIOUS
<1>2. /\ EvaluationShape(v)
      /\ \A k \in DOMAIN e : v[k] = e[k]
      /\ DOMAIN v = IF receipt THEN DOMAIN e \cup {"receipt_certified"} ELSE DOMAIN e
      /\ receipt => v["receipt_certified"] = TRUE
  BY <1>1, EventFacts
<1>3. PICK r : r = MergeEventFields(row, v)
  OBVIOUS
<1>0. DOMAIN row \subseteq RecordedFields \ Reserved
  BY DEF Shape
<1>a. MergesEvaluation(row, r, v)
  BY <1>0, <1>2, <1>3, EvaluationMergeFields
<1>4. /\ DOMAIN row \cup Stamped \subseteq DOMAIN r
      /\ DOMAIN r \subseteq RecordedFields \ Reserved
      /\ \/ TakesStamped(r, v)
         \/ /\ \A k \in Stamped \cap DOMAIN row : Get(r, k) = Get(row, k)
            /\ \A k \in Stamped \ DOMAIN row : Get(r, k) = v[k]
      /\ Get(r, "valid_parent") = TRUE =>
           Get(row, "valid_parent") = TRUE \/ v["valid_parent"] = TRUE
      /\ v["valid_parent"] = FALSE => Get(r, "valid_parent") = FALSE
      /\ TakesReceipt(r, row, v)
  BY <1>a DEF MergesEvaluation
<1>5. DOMAIN row \cap EvaluatedFields = {} /\ Get(row, "score") = None
  BY DEF Shape
<1>6. Get(r, "receipt_certified") = TRUE => receipt
  <2>1. Get(row, "receipt_certified") # TRUE
    BY <1>5, NoneAssumption DEF Get, EvaluatedFields
  <2> QED BY <2>1, <1>2, <1>4 DEF TakesReceipt
<1>10. "mutated" \in DOMAIN r /\ Get(r, "parent") = e["parent"]
  BY <1>2, <1>a, FreeOfEvaluation DEF MergesEvaluation
<1>7. \A k \in Stamped \ {"score", "status", "task_set_hash"} : Get(r, k) = e[k] /\ r[k] = e[k]
  BY <1>2, <1>4, <1>5 DEF TakesStamped, EvaluationShape, Get, Stamped, EvaluatedFields
<1>8. Get(r, "score") \in {e["score"], None}
  BY <1>2, <1>4, <1>5 DEF TakesStamped, EvaluationShape, Stamped
<1>9. "valid_parent" \in DOMAIN e /\ e["outcome"] \in Outcomes
  BY DEF EvaluationShape
<1> QED BY <1>1, <1>2, <1>3, <1>4, <1>5, <1>6, <1>7, <1>8, <1>9, <1>10
        DEF Becomes, Certified, Evidence, Stamped

LEMMA StaleReplacementBecomes ==
  ASSUME NEW row, NEW e,
         EvaluationShape(e), "receipt_certified" \notin DOMAIN e, Shape(row, "dev")
  PROVE  Becomes(row, ReplaceTop(Only(row, {"note"}), Event(e, TRUE)), e, TRUE)
<1>1. PICK v : v = Event(e, TRUE)
  OBVIOUS
<1>2. /\ EvaluationShape(v)
      /\ \A k \in DOMAIN e : v[k] = e[k]
      /\ DOMAIN v = DOMAIN e \cup {"receipt_certified"}
  BY <1>1, EventFacts
<1>3. PICK n : n = Only(row, {"note"})
  OBVIOUS
<1>4. DOMAIN n \subseteq RecordedFields \ Reserved
  BY <1>3 DEF Only, Shape
<1>5. PICK r : r = ReplaceTop(n, v)
  OBVIOUS
<1>6. /\ Stamped \subseteq DOMAIN r
      /\ DOMAIN r \subseteq RecordedFields \ Reserved
      /\ TakesStamped(r, v) /\ FreeFields(n, r, v)
      /\ Get(r, "valid_parent") = v["valid_parent"]
  BY <1>2, <1>4, <1>5, ReplaceTopFacts
<1>9. "mutated" \in DOMAIN r /\ Get(r, "parent") = e["parent"]
  BY <1>2, <1>6, FreeOfEvaluation
<1>7. \A k \in Stamped : Get(r, k) = e[k] /\ r[k] = e[k]
  BY <1>2, <1>6 DEF TakesStamped, EvaluationShape, Get
<1>8. "valid_parent" \in DOMAIN e /\ e["outcome"] \in Outcomes
  BY DEF EvaluationShape
<1> QED BY <1>1, <1>2, <1>3, <1>5, <1>6, <1>7, <1>8, <1>9
        DEF Becomes, Certified, Evidence, Stamped

LEMMA ReevaluationBecomes ==
  ASSUME NEW row, NEW e,
         EvaluationShape(e), "receipt_certified" \notin DOMAIN e, Shape(row, "dev"),
         Get(row, "receipt_certified") = TRUE
  PROVE  Becomes(row, MergeEventFields(row, Event(e, TRUE)), e, TRUE)
<1>1. PICK v : v = Event(e, TRUE)
  OBVIOUS
<1>2. /\ EvaluationShape(v)
      /\ \A k \in DOMAIN e : v[k] = e[k]
      /\ DOMAIN v = DOMAIN e \cup {"receipt_certified"}
  BY <1>1, EventFacts
<1>3. PICK r : r = MergeEventFields(row, v)
  OBVIOUS
<1>0. DOMAIN row \subseteq RecordedFields \ Reserved
  BY DEF Shape
<1>a. MergesEvaluation(row, r, v)
  BY <1>0, <1>2, <1>3, EvaluationMergeFields
<1>4. /\ DOMAIN row \cup Stamped \subseteq DOMAIN r
      /\ DOMAIN r \subseteq RecordedFields \ Reserved
      /\ \/ TakesStamped(r, v)
         \/ /\ \A k \in Stamped \cap DOMAIN row : Get(r, k) = Get(row, k)
            /\ \A k \in Stamped \ DOMAIN row : Get(r, k) = v[k]
      /\ Get(r, "valid_parent") = TRUE =>
           Get(row, "valid_parent") = TRUE \/ v["valid_parent"] = TRUE
      /\ v["valid_parent"] = FALSE => Get(r, "valid_parent") = FALSE
  BY <1>a DEF MergesEvaluation
<1>5. Stamped \subseteq DOMAIN row /\ row["outcome"] \in Outcomes
  BY DEF Shape
<1>6. "valid_parent" \in DOMAIN e /\ e["outcome"] \in Outcomes
  BY DEF EvaluationShape
<1>9. "mutated" \in DOMAIN r /\ Get(r, "parent") = e["parent"]
  BY <1>2, <1>a, FreeOfEvaluation DEF MergesEvaluation
<1>7. CASE TakesStamped(r, v)
  <2>1. \A k \in Stamped : Get(r, k) = e[k] /\ r[k] = e[k]
    BY <1>2, <1>4, <1>7 DEF TakesStamped, EvaluationShape, Get
  <2> QED BY <1>1, <1>2, <1>3, <1>4, <1>6, <1>9, <2>1
          DEF Becomes, Certified, Evidence, Stamped
<1>8. CASE \A k \in Stamped \cap DOMAIN row : Get(r, k) = Get(row, k)
  <2>1. \A k \in Stamped : Get(r, k) = Get(row, k) /\ r[k] = row[k]
    BY <1>4, <1>5, <1>8 DEF Get
  <2> QED BY <1>1, <1>2, <1>3, <1>4, <1>5, <1>6, <1>9, <2>1
          DEF Becomes, Certified, Evidence, Stamped
<1> QED BY <1>4, <1>7, <1>8

LEMMA NoteBecomes ==
  ASSUME NEW row, NEW e, NEW v, Shape(row, "dev")
  PROVE  Becomes(row, MergeNote(row, v), e, FALSE)
<1>1. PICK S : S = DOMAIN v \cap {"note"}
  OBVIOUS
<1>2. Only(v, {"note"}) = Only(v, S)
  <2>1. DOMAIN v \cap {"note"} = DOMAIN v \cap S
    BY <1>1
  <2> QED BY <2>1 DEF Only
<1>3. PICK r : r = Overlay(row, Only(v, S))
  OBVIOUS
<1>4. DOMAIN r = DOMAIN row \cup S
  BY <1>1, <1>3, UpdateDomain
<1>5. \A k : k \notin S => Get(r, k) = Get(row, k)
  BY <1>1, <1>3, UpdateGet
<1>6. S \subseteq RecordedFields \ Reserved
  BY <1>1 DEF RecordedFields, EvaluationFields, Reserved
<1>7. \A k \in Stamped \cup {"receipt_certified", "valid_parent"} : Get(r, k) = Get(row, k)
  BY <1>1, <1>5 DEF Stamped
<1>8. Stamped \subseteq DOMAIN r /\ r["outcome"] = row["outcome"] /\ r["outcome"] \in Outcomes
  BY <1>4, <1>7 DEF Shape, Get, Stamped
<1>9. /\ DOMAIN r \subseteq RecordedFields \ Reserved /\ "mutated" \in DOMAIN r
      /\ \A k : k # "note" => Get(r, k) = Get(row, k)
  BY <1>1, <1>4, <1>5, <1>6 DEF Shape
<1>10. MergeNote(row, v) = r
  BY <1>2, <1>3 DEF MergeNote
<1> QED BY <1>7, <1>8, <1>9, <1>10 DEF Becomes, Certified, Evidence, Stamped

-----------------------------------------------------------------------------
(* The evaluation lines the mechanism writes. *)

LineOf(e, purpose, outcome, score, attempt) ==
  /\ EvaluationShape(e)
  /\ DOMAIN e \cap {"receipt_certified", "record_error", "record_attempted"} = {}
  /\ e["outcome"] = outcome /\ e["score"] = score
  /\ e["attempt"] = attempt /\ e["purpose"] = purpose
  /\ e["task_set_hash"] = IF purpose = "anchor" THEN "sealed" ELSE "dev"
  /\ Get(e, "kind") \in {None, "genesis_eval", "anchor"}
  /\ Get(e, "kind") = "genesis_eval" <=> purpose = "genesis"
  /\ Get(e, "kind") = "anchor" <=> purpose = "anchor"
  /\ purpose # "candidate" => ~IsEvaluationStamp(e)

\* _append_lifecycle_evaluation for a generation (g: generation zero).
LineFor(g, purpose, p, outcome, score, attempt) ==
  CASE purpose = "genesis" -> GenesisEvaluation(p, outcome, score, attempt)
    [] purpose = "candidate" -> CandidateEvaluation(g, p, outcome, score, attempt)
    [] purpose = "anchor" -> AnchorEvaluation(p, outcome, score, attempt)

EventOf(e, purpose, outcome, score, attempt, pending, metadata) ==
  /\ EvaluationShape(e)
  /\ DOMAIN e \cap {"receipt_certified", "record_error", "record_attempted"} = {}
  /\ e["outcome"] = outcome /\ e["score"] = score
  /\ e["attempt"] = attempt /\ e["purpose"] = purpose
  /\ e["task_set_hash"] = IF purpose = "anchor" THEN "sealed" ELSE "dev"
  /\ Get(e, "pending_gate_record") = pending
  /\ e["valid_parent"] = TRUE => /\ outcome = "benchmark_complete" /\ ~pending
                                 /\ purpose \in {"candidate", "genesis"}
  /\ Get(e, "kind") = Get(metadata, "kind")
  /\ Get(e, "note") = Get(metadata, "note")
  /\ e["parent"] = metadata["parent"]

LEMMA EvaluationEventFacts ==
  ASSUME NEW purpose \in AnyPurpose, NEW outcome \in Outcomes, NEW score, NEW attempt,
         NEW pending \in BOOLEAN, NEW metadata,
         {"parent", "mutated"} \subseteq DOMAIN metadata,
         DOMAIN metadata \subseteq {"parent", "mutated", "note", "kind"}
  PROVE  EventOf(EvaluationEvent(purpose, outcome, score, attempt, pending, metadata),
                 purpose, outcome, score, attempt, pending, metadata)
<1> DEFINE complete == outcome = "benchmark_complete"
           eligible == complete /\ purpose \in {"candidate", "genesis"}
           own == [score |-> score,
                   status |-> IF complete THEN "complete" ELSE outcome,
                   outcome |-> outcome,
                   task_set_hash |-> IF purpose = "anchor" THEN "sealed" ELSE "dev",
                   attempt |-> attempt, purpose |-> purpose,
                   selection_eligible |-> eligible, pending_gate_record |-> pending,
                   valid_parent |-> eligible /\ ~pending,
                   verdict |-> IF eligible /\ ~pending THEN "keep" ELSE "discard",
                   mechanism_eval |-> TRUE]
<1>1. EvaluationEvent(purpose, outcome, score, attempt, pending, metadata)
        = Overlay(metadata, own)
  BY DEF EvaluationEvent
<1>2. PICK o : o = own
  OBVIOUS
<1>3. DOMAIN o = Stamped \cup
                   {"pending_gate_record", "valid_parent", "verdict", "mechanism_eval"}
  BY <1>2 DEF Stamped
<1>4. /\ o["outcome"] = outcome /\ o["score"] = score
      /\ o["attempt"] = attempt /\ o["purpose"] = purpose
      /\ o["task_set_hash"] = IF purpose = "anchor" THEN "sealed" ELSE "dev"
      /\ o["pending_gate_record"] = pending
      /\ o["mechanism_eval"] = TRUE
      /\ o["status"] = IF complete THEN "complete" ELSE outcome
      /\ o["valid_parent"] = (eligible /\ ~pending)
  BY <1>2
<1>5. /\ o["status"] # "operator_failed" /\ o["valid_parent"] \in BOOLEAN
      /\ o["valid_parent"] = TRUE => /\ outcome = "benchmark_complete" /\ ~pending
                                     /\ purpose \in {"candidate", "genesis"}
  BY <1>4 DEF Outcomes
<1>6. PICK e : e = Overlay(metadata, o)
  OBVIOUS
<1> HIDE DEF own
<1>7. /\ DOMAIN e = DOMAIN metadata \cup DOMAIN o
      /\ \A k \in DOMAIN o : e[k] = o[k]
      /\ \A k \in DOMAIN metadata \ DOMAIN o : e[k] = metadata[k]
  BY <1>6 DEF Overlay
<1>8. EvaluationShape(e)
  BY <1>3, <1>4, <1>5, <1>7
     DEF EvaluationShape, Stamped, RecordedFields, EvaluationFields
<1>13. e["parent"] = metadata["parent"]
  BY <1>3, <1>7 DEF Stamped
<1>9. /\ DOMAIN e \cap {"receipt_certified", "record_error", "record_attempted"} = {}
      /\ Get(e, "kind") = Get(metadata, "kind") /\ Get(e, "note") = Get(metadata, "note")
  BY <1>3, <1>7 DEF Stamped, Get
<1>10. /\ e["outcome"] = outcome /\ e["score"] = score
       /\ e["attempt"] = attempt /\ e["purpose"] = purpose
       /\ e["task_set_hash"] = IF purpose = "anchor" THEN "sealed" ELSE "dev"
       /\ Get(e, "pending_gate_record") = pending
       /\ e["valid_parent"] = TRUE => /\ outcome = "benchmark_complete" /\ ~pending
                                      /\ purpose \in {"candidate", "genesis"}
  BY <1>3, <1>4, <1>5, <1>7 DEF Stamped, Get
<1>11. EventOf(e, purpose, outcome, score, attempt, pending, metadata)
  BY <1>8, <1>9, <1>10, <1>13 DEF EventOf
<1>12. EvaluationEvent(purpose, outcome, score, attempt, pending, metadata) = e
  BY <1>1, <1>2, <1>6
<1> QED BY <1>11, <1>12

\* What a line says of its gate: a candidate's awaits it.
GatedLine(g, purpose, outcome, e) ==
  /\ purpose = "candidate" /\ ~g => e["valid_parent"] = FALSE
  /\ purpose = "anchor" => e["valid_parent"] = FALSE
  /\ purpose = "candidate" =>
       (IsEvaluationStamp(e) <=> ~g /\ outcome = "benchmark_complete")

LEMMA EvaluationLines ==
  ASSUME NEW g, g \in BOOLEAN, NEW purpose \in AnyPurpose, NEW p, NEW outcome \in Outcomes,
         NEW score, NEW attempt,
         NEW l, l = LineFor(g, purpose, p, outcome, score, attempt)
  PROVE  /\ LineOf(l, purpose, outcome, score, attempt) /\ l["parent"] = p
         /\ GatedLine(g, purpose, outcome, l)
<1>1. CASE purpose = "genesis"
  <2> DEFINE d == [parent |-> p, mutated |-> TRUE, note |-> "genesis evaluated",
                   kind |-> "genesis_eval"]
  <2>1. PICK metadata : metadata = d
    OBVIOUS
  <2>2. /\ {"parent", "mutated"} \subseteq DOMAIN metadata /\ metadata["parent"] = p
        /\ DOMAIN metadata \subseteq {"parent", "mutated", "note", "kind"}
        /\ Get(metadata, "kind") = "genesis_eval"
        /\ Get(metadata, "note") # PendingNote
    BY <2>1 DEF Get, PendingNote
  <2> HIDE DEF d
  <2>3. PICK e : e = EvaluationEvent("genesis", outcome, score, attempt, FALSE, metadata)
    OBVIOUS
  <2>4. LineFor(g, purpose, p, outcome, score, attempt) = e
    BY <1>1, <2>1, <2>3 DEF LineFor, GenesisEvaluation, d
  <2>5. EventOf(e, "genesis", outcome, score, attempt, FALSE, metadata)
    BY <2>2, <2>3, EvaluationEventFacts DEF AnyPurpose
  <2>6. ~IsEvaluationStamp(e)
    BY <2>2, <2>5 DEF EventOf, IsEvaluationStamp
  <2>7. LineOf(e, purpose, outcome, score, attempt) /\ e["parent"] = p
    BY <1>1, <2>2, <2>5, <2>6 DEF LineOf, EventOf
  <2> QED BY <1>1, <2>4, <2>7 DEF GatedLine
<1>2. CASE purpose = "candidate"
  <2> DEFINE pending == ~g /\ outcome = "benchmark_complete"
             d == [parent |-> p, mutated |-> TRUE]
             n == [note |-> IF pending THEN PendingNote ELSE outcome]
             dd == IF g THEN d ELSE Overlay(d, n)
  <2>1. PICK metadata : metadata = dd
    OBVIOUS
  <2>2. /\ {"parent", "mutated"} \subseteq DOMAIN metadata /\ metadata["parent"] = p
        /\ DOMAIN metadata \subseteq {"parent", "mutated", "note", "kind"}
        /\ Get(metadata, "kind") = None
    BY <2>1, NoneAssumption DEF Get, Overlay
  <2>10. Get(metadata, "note") = PendingNote => pending
    <3>1. outcome # PendingNote
      BY DEF Outcomes, PendingNote
    <3>2. CASE g
      BY <2>1, <3>2, NoneAssumption DEF Get, PendingNote
    <3>3. CASE ~g
      BY <2>1, <3>1, <3>3 DEF Get, Overlay
    <3> QED BY <3>2, <3>3
  <2> HIDE DEF dd
  <2>3. PICK e : e = EvaluationEvent("candidate", outcome, score, attempt, pending, metadata)
    OBVIOUS
  <2>4. LineFor(g, purpose, p, outcome, score, attempt) = e
    BY <1>2, <2>1, <2>3 DEF LineFor, CandidateEvaluation, dd
  <2>5. PICK pend \in BOOLEAN : pend = pending
    OBVIOUS
  <2> HIDE DEF pending
  <2>6. EventOf(e, "candidate", outcome, score, attempt, pend, metadata)
    BY <2>2, <2>3, <2>5, EvaluationEventFacts DEF AnyPurpose
  <2>7. LineOf(e, purpose, outcome, score, attempt) /\ e["parent"] = p
    BY <1>2, <2>2, <2>6, NoneAssumption DEF LineOf, EventOf
  <2>8. ~g => e["valid_parent"] = FALSE
    BY <2>5, <2>6 DEF EventOf, EvaluationShape, pending
  <2>9. IsEvaluationStamp(e) <=> ~g /\ outcome = "benchmark_complete"
    <3>1. Get(e, "pending_gate_record") = pend /\ Get(e, "note") = Get(metadata, "note")
          /\ Get(e, "outcome") \in Outcomes
      BY <2>6 DEF EventOf, EvaluationShape, Stamped, Get
    <3> QED BY <2>5, <2>10, <3>1 DEF IsEvaluationStamp, pending
  <2> QED BY <1>2, <2>4, <2>7, <2>8, <2>9 DEF GatedLine
<1>3. CASE purpose = "anchor"
  <2> DEFINE d == [parent |-> p, mutated |-> TRUE, note |-> "sealed anchor",
                   kind |-> "anchor"]
  <2>1. PICK metadata : metadata = d
    OBVIOUS
  <2>2. /\ {"parent", "mutated"} \subseteq DOMAIN metadata /\ metadata["parent"] = p
        /\ DOMAIN metadata \subseteq {"parent", "mutated", "note", "kind"}
        /\ Get(metadata, "kind") = "anchor" /\ Get(metadata, "note") # PendingNote
    BY <2>1 DEF Get, PendingNote
  <2> HIDE DEF d
  <2>3. PICK e : e = EvaluationEvent("anchor", outcome, score, attempt, FALSE, metadata)
    OBVIOUS
  <2>4. LineFor(g, purpose, p, outcome, score, attempt) = e
    BY <1>3, <2>1, <2>3 DEF LineFor, AnchorEvaluation, d
  <2>5. EventOf(e, "anchor", outcome, score, attempt, FALSE, metadata)
    BY <2>2, <2>3, EvaluationEventFacts DEF AnyPurpose
  <2>6. ~IsEvaluationStamp(e)
    BY <2>2, <2>5 DEF EventOf, IsEvaluationStamp
  <2>7. /\ LineOf(e, purpose, outcome, score, attempt)
        /\ e["valid_parent"] = FALSE /\ e["parent"] = p
    BY <1>3, <2>2, <2>5, <2>6 DEF LineOf, EventOf, EvaluationShape
  <2> QED BY <1>3, <2>4, <2>7 DEF GatedLine
<1> QED BY <1>1, <1>2, <1>3 DEF AnyPurpose

-----------------------------------------------------------------------------
(* What one line makes of the ledger. *)

\* n is a ledger with the lines of m, of which only row, top and evals differ.
SameLines(m, n) ==
  /\ DOMAIN n = LedgerFields
  /\ n.lines = m.lines /\ n.awaiting = m.awaiting /\ n.attempted = m.attempted

LEMMA PlainMerge ==
  ASSUME NEW m, DOMAIN m = LedgerFields, NEW g, NEW e, Plain(e), NEW receipt,
         NEW n, n = Merge(m, g, e, receipt)
  PROVE  /\ SameLines(m, n) /\ n.top = m.top /\ n.evals = m.evals
         /\ n.row = MergeEventFields(m.row, e)
<1>1. Get(e, "mechanism_eval") # TRUE
  BY NoneAssumption DEF Plain, Get
<1>2. ~IsKeyedEvaluation(e)
  BY DEF Plain, IsKeyedEvaluation
<1>3. Merge(m, g, e, receipt) = [m EXCEPT !.row = MergeEventFields(m.row, e)]
  BY <1>1, <1>2 DEF Merge
<1> QED BY <1>3 DEF SameLines, LedgerFields

\* The auxiliary evaluation a sealed anchor's line becomes.
AnchorKey == <<"anchor", "sealed">>

AnchorEntry(x, e) ==
  /\ Get(x, "kind") = "anchor" /\ Get(x, "purpose") = "anchor"
  /\ Get(x, "outcome") = e["outcome"] /\ Get(x, "score") = e["score"]

AddsAnchor(m, n, e) ==
  \E x : n.evals = Overlay(m.evals, [k \in {AnchorKey} |-> x]) /\ AnchorEntry(x, e)

\* A sealed anchor goes to the auxiliary evaluations only.
LEMMA AnchorMerge ==
  ASSUME NEW m, DOMAIN m = LedgerFields, NEW g, NEW e, NEW receipt \in BOOLEAN,
         NEW outcome, NEW score, NEW attempt,
         LineOf(e, "anchor", outcome, score, attempt),
         NEW n, n = Merge(m, g, e, receipt)
  PROVE  SameLines(m, n) /\ n.top = m.top /\ n.row = m.row /\ AddsAnchor(m, n, e)
<1>1. Get(e, "kind") = "anchor" /\ e["task_set_hash"] = "sealed"
  BY DEF LineOf
<1>2. IsKeyedEvaluation(e) /\ Get(e, "mechanism_eval") = TRUE
  BY NoneAssumption DEF LineOf, EvaluationShape, Stamped, IsKeyedEvaluation, Get
<1>3. PICK v : v = Event(e, receipt)
  OBVIOUS
<1>4. PICK x : x = EvaluationEntry(v)
  OBVIOUS
<1>5. AnchorEntry(x, e)
  <2>1. /\ EvaluationShape(e) /\ "receipt_certified" \notin DOMAIN e
        /\ e["purpose"] = "anchor"
    BY DEF LineOf
  <2>2. /\ \A k \in DOMAIN e : v[k] = e[k]
        /\ DOMAIN e \subseteq DOMAIN v
    BY <1>3, <2>1, EventFacts
  <2>3. /\ {"kind", "purpose", "outcome", "score"} \subseteq DOMAIN e
        /\ e["kind"] = "anchor"
    BY <1>1, <2>1, NoneAssumption DEF Get, EvaluationShape, Stamped
  <2>4. {"kind", "purpose", "outcome", "score"} \subseteq EvaluationFields
    BY DEF EvaluationFields, Stamped
  <2>5. \A k \in DOMAIN e \cap EvaluationFields : Get(x, k) = e[k]
    BY <1>4, <2>2 DEF EvaluationEntry, Only, Get
  <2> QED BY <2>1, <2>3, <2>4, <2>5 DEF AnchorEntry
<1>6. Merge(m, g, e, receipt)
        = [m EXCEPT !.evals = Overlay(m.evals, [k \in {AnchorKey} |-> x])]
  BY <1>1, <1>2, <1>3, <1>4 DEF Merge, Event, AnchorKey
<1>7. PICK y : y = Overlay(m.evals, [k \in {AnchorKey} |-> x])
  OBVIOUS
<1>8. Merge(m, g, e, receipt) = [m EXCEPT !.evals = y]
  BY <1>6, <1>7
<1> QED BY <1>5, <1>7, <1>8 DEF SameLines, LedgerFields, AddsAnchor

\* A development evaluation is, or becomes, the top-level one.
LEMMA DevMerge ==
  ASSUME NEW m, DOMAIN m = LedgerFields, Shape(m.row, m.top), NEW g \in BOOLEAN,
         NEW purpose \in {"genesis", "candidate"}, purpose = "genesis" => g,
         NEW e, NEW outcome, NEW score, NEW attempt,
         LineOf(e, purpose, outcome, score, attempt), NEW receipt \in BOOLEAN,
         NEW n, n = Merge(m, g, e, receipt)
  PROVE  /\ SameLines(m, n) /\ n.top = "dev" /\ n.evals = m.evals
         /\ Becomes(m.row, n.row, e, receipt)
<1> DEFINE kind == Get(e, "kind")
<1>1. /\ kind # "anchor" /\ ~(kind = "genesis_eval" /\ ~g)
      /\ e["task_set_hash"] = "dev" /\ EvaluationShape(e)
      /\ "receipt_certified" \notin DOMAIN e
  BY DEF LineOf
<1>2. IsKeyedEvaluation(e) /\ Get(e, "mechanism_eval") = TRUE
  BY <1>1, NoneAssumption DEF EvaluationShape, Stamped, IsKeyedEvaluation, Get
<1>3. PICK v : v = Event(e, receipt)
  OBVIOUS
<1>4. /\ v["task_set_hash"] = "dev"
      /\ receipt => Get(v, "receipt_certified") = TRUE
      /\ ~receipt => Get(v, "receipt_certified") = None
  <2>1. /\ \A k \in DOMAIN e : v[k] = e[k]
        /\ DOMAIN v = IF receipt THEN DOMAIN e \cup {"receipt_certified"} ELSE DOMAIN e
        /\ receipt => v["receipt_certified"] = TRUE
    BY <1>1, <1>3, EventFacts
  <2> QED BY <1>1, <2>1 DEF Get, EvaluationShape, Stamped
<1>5. Merge(m, g, e, receipt) =
        IF m.top # None /\ ~receipt THEN [m EXCEPT !.row = MergeNote(m.row, v)]
        ELSE MergeKeyedEvaluation(m, g, v)
  BY <1>1, <1>2, <1>3 DEF Merge, Event, IsUncertifiedRepeat
<1>6. m.top \in {None, "dev"} /\ None # "dev"
  BY NoneAssumption DEF Shape
<1>7. CASE m.top # None /\ ~receipt
  <2>1. Becomes(m.row, MergeNote(m.row, v), e, receipt)
    BY <1>6, <1>7, NoteBecomes
  <2>2. Merge(m, g, e, receipt) = [m EXCEPT !.row = MergeNote(m.row, v)]
    BY <1>5, <1>7
  <2> QED BY <1>6, <1>7, <2>1, <2>2 DEF SameLines, LedgerFields
<1>8. CASE (m.top = None \/ receipt) /\ IsGenesisReplacement(m.row, g, v)
  <2>1. EvaluationStatus(m.row) = "pending"
    BY <1>8 DEF IsGenesisReplacement
  <2>2. Becomes(m.row, ReplaceTop(m.row, v), e, receipt)
    BY <1>1, <1>3, <2>1, GenesisReplacementBecomes
  <2>3. Merge(m, g, e, receipt) =
          [m EXCEPT !.top = "dev", !.row = ReplaceTop(m.row, v)]
    BY <1>4, <1>5, <1>8 DEF MergeKeyedEvaluation
  <2> QED BY <2>2, <2>3 DEF SameLines, LedgerFields
<1>9. CASE m.top = None /\ ~IsGenesisReplacement(m.row, g, v)
  <2>1. Becomes(m.row, MergeEventFields(m.row, v), e, receipt)
    BY <1>1, <1>3, <1>9, FirstEvaluationBecomes
  <2>2. Merge(m, g, e, receipt) =
          [m EXCEPT !.top = "dev", !.row = MergeEventFields(m.row, v)]
    BY <1>4, <1>5, <1>9 DEF MergeKeyedEvaluation
  <2> QED BY <2>1, <2>2 DEF SameLines, LedgerFields
<1>10. CASE m.top = "dev" /\ receipt /\ ~IsGenesisReplacement(m.row, g, v)
  <2>1. CASE Get(m.row, "receipt_certified") # TRUE
    <3>1. Becomes(m.row, ReplaceTop(Only(m.row, {"note"}), v), e, receipt)
      BY <1>1, <1>3, <1>10, StaleReplacementBecomes
    <3>2. Merge(m, g, e, receipt) =
            [m EXCEPT !.row = ReplaceTop(Only(m.row, {"note"}), v)]
      BY <1>4, <1>5, <1>6, <1>10, <2>1 DEF MergeKeyedEvaluation
    <3> QED BY <1>10, <3>1, <3>2 DEF SameLines, LedgerFields
  <2>2. CASE Get(m.row, "receipt_certified") = TRUE
    <3>1. Becomes(m.row, MergeEventFields(m.row, v), e, receipt)
      BY <1>1, <1>3, <1>10, <2>2, ReevaluationBecomes
    <3>2. Merge(m, g, e, receipt) = [m EXCEPT !.row = MergeEventFields(m.row, v)]
      BY <1>4, <1>5, <1>6, <1>10, <2>2 DEF MergeKeyedEvaluation
    <3> QED BY <1>10, <3>1, <3>2 DEF SameLines, LedgerFields
  <2> QED BY <2>1, <2>2
<1> QED BY <1>6, <1>7, <1>8, <1>9, <1>10

LEMMA RecordFacts ==
  ASSUME NEW m, DOMAIN m = LedgerFields, NEW g, NEW e, NEW receipt, e \notin m.lines,
         NEW n, n = Merge(m, g, e, receipt), SameLines(m, n),
         NEW l, l = Record(m, g, e, receipt)
  PROVE  /\ DOMAIN l = LedgerFields
         /\ l.row = n.row /\ l.top = n.top /\ l.evals = n.evals
         /\ l.lines = m.lines \cup {e}
         /\ l.awaiting <=> IsEvaluationStamp(e) \/ (m.awaiting /\ ~IsGateRecord(e))
         /\ l.awaiting \in BOOLEAN /\ l.attempted \in BOOLEAN
<1>1. PICK a \in BOOLEAN : a = (IsEvaluationStamp(e) \/ (n.awaiting /\ ~IsGateRecord(e)))
  OBVIOUS
<1>2. PICK b \in BOOLEAN : b = (n.attempted \/ DOMAIN e \cap {"record_attempted", "record_error"} # {})
  OBVIOUS
<1>3. Record(m, g, e, receipt)
        = [n EXCEPT !.lines = n.lines \cup {e}, !.awaiting = a, !.attempted = b]
  BY <1>1, <1>2 DEF Record
<1>4. n.lines = m.lines /\ n.awaiting = m.awaiting /\ DOMAIN n = LedgerFields
  BY DEF SameLines
<1> QED BY <1>1, <1>2, <1>3, <1>4 DEF LedgerFields

LEMMA PlainRecord ==
  ASSUME NEW m, DOMAIN m = LedgerFields, NEW g, NEW e, Plain(e), e \notin m.lines,
         NEW receipt, NEW l, l = Record(m, g, e, receipt)
  PROVE  /\ DOMAIN l = LedgerFields
         /\ l.row = MergeEventFields(m.row, e) /\ l.top = m.top /\ l.evals = m.evals
         /\ l.lines = m.lines \cup {e}
         /\ l.awaiting <=> m.awaiting /\ ~IsGateRecord(e)
         /\ l.awaiting \in BOOLEAN /\ l.attempted \in BOOLEAN
<1>1. PICK n : n = Merge(m, g, e, receipt)
  OBVIOUS
<1>2. SameLines(m, n) /\ n.top = m.top /\ n.evals = m.evals /\ n.row = MergeEventFields(m.row, e)
  BY <1>1, PlainMerge
<1>3. /\ DOMAIN l = LedgerFields
      /\ l.row = n.row /\ l.top = n.top /\ l.evals = n.evals
      /\ l.lines = m.lines \cup {e}
      /\ l.awaiting <=> IsEvaluationStamp(e) \/ (m.awaiting /\ ~IsGateRecord(e))
      /\ l.awaiting \in BOOLEAN /\ l.attempted \in BOOLEAN
  BY <1>1, <1>2, RecordFacts
<1>4. ~IsEvaluationStamp(e)
  BY NoneAssumption DEF Plain, IsEvaluationStamp, Get, EvaluatedFields, Outcomes
<1> QED BY <1>2, <1>3, <1>4

-----------------------------------------------------------------------------
(* What a certified complete score survives.                                *)

Settled(row) ==
  /\ Shape(row, "dev") /\ Get(row, "receipt_certified") = TRUE
  /\ Get(row, "outcome") = "benchmark_complete"

\* No evaluation that waits for a gate replaces a complete one.
LEMMA SettledIsNotReplaced ==
  ASSUME NEW row, Settled(row), NEW v, EvaluationShape(v),
         v["valid_parent"] = FALSE, Get(v, "kind") # "baseline"
  PROVE  Get(MergeEventFields(row, v), "score") = Get(row, "score")
<1> DEFINE replace == CanReplaceStamped(row, v)
           override == /\ Get(row, "pending_gate_record") = TRUE
                       /\ Get(v, "status") = "operator_failed"
           Protected(k) == /\ k \in Stamped \cap DOMAIN row
                           /\ ~replace
                           /\ ~(override /\ k \in {"status", "score"})
           eligible == IF "selection_eligible" \in DOMAIN v /\ ~Protected("selection_eligible")
                         THEN v["selection_eligible"] ELSE Get(row, "selection_eligible")
           Refused(k) == k = "valid_parent" /\ v[k] = TRUE /\ eligible \notin {None, TRUE}
           ks == {k \in DOMAIN v \ Reserved : ~Protected(k) /\ ~Refused(k)}
<1>1. MergeEventFields(row, v) = Overlay(row, Only(v, ks))
  BY DEF MergeEventFields
<1>2. ~override
  BY DEF EvaluationShape, Get, Stamped
<1>3. ~replace
  <2>1. EvaluationStatus(row) = "complete"
    <3>1. row["outcome"] = "benchmark_complete"
      BY NoneAssumption DEF Settled, Get
    <3> QED BY <3>1 DEF Settled, EvaluationStatus, Outcomes
  <2>2. ~IsRetryOfFailure(row, v)
    BY <2>1 DEF IsRetryOfFailure
  <2>3. Get(v, "valid_parent") # TRUE
    BY NoneAssumption DEF Get
  <2> QED BY <2>2, <2>3 DEF CanReplaceStamped
<1>4. Protected("score")
  BY <1>2, <1>3 DEF Settled, Shape, Stamped
<1>5. PICK S : S = ks
  OBVIOUS
<1>6. S \subseteq DOMAIN v /\ "score" \notin S
  BY <1>4, <1>5
<1> HIDE DEF ks
<1>7. Get(Overlay(row, Only(v, S)), "score") = Get(row, "score")
  BY <1>6, UpdateGet
<1> QED BY <1>1, <1>5, <1>7

\* A development evaluation of a candidate keeps the score of a settled row.
LEMMA DevKeepsScore ==
  ASSUME NEW m, DOMAIN m = LedgerFields, m.top = "dev", Settled(m.row),
         NEW e, NEW outcome, NEW score, NEW attempt,
         LineOf(e, "candidate", outcome, score, attempt), e["valid_parent"] = FALSE,
         NEW receipt \in BOOLEAN, NEW n, n = Merge(m, FALSE, e, receipt)
  PROVE  Get(n.row, "score") = Get(m.row, "score")
<1>1. /\ Get(e, "kind") = None
      /\ e["task_set_hash"] = "dev" /\ EvaluationShape(e)
      /\ "receipt_certified" \notin DOMAIN e
  BY DEF LineOf
<1>2. IsKeyedEvaluation(e) /\ Get(e, "mechanism_eval") = TRUE
  BY <1>1, NoneAssumption DEF EvaluationShape, Stamped, IsKeyedEvaluation, Get
<1>3. PICK v : v = Event(e, receipt)
  OBVIOUS
<1>4. /\ EvaluationShape(v) /\ v["task_set_hash"] = "dev" /\ v["valid_parent"] = FALSE
      /\ receipt => Get(v, "receipt_certified") = TRUE
      /\ Get(v, "kind") = None
  <2>1. /\ \A k \in DOMAIN e : v[k] = e[k]
        /\ DOMAIN v = IF receipt THEN DOMAIN e \cup {"receipt_certified"} ELSE DOMAIN e
        /\ receipt => v["receipt_certified"] = TRUE
        /\ EvaluationShape(v)
    BY <1>1, <1>3, EventFacts
  <2>2. "task_set_hash" \in DOMAIN e /\ "valid_parent" \in DOMAIN e
    BY <1>1 DEF EvaluationShape, Stamped
  <2>3. Get(v, "kind") = Get(e, "kind")
    BY <2>1 DEF Get
  <2> QED BY <1>1, <2>1, <2>2, <2>3 DEF Get
<1>5. Merge(m, FALSE, e, receipt) =
        IF ~receipt THEN [m EXCEPT !.row = MergeNote(m.row, v)]
        ELSE MergeKeyedEvaluation(m, FALSE, v)
  BY <1>1, <1>2, <1>3, NoneAssumption DEF Merge, Event, IsUncertifiedRepeat
<1>6. CASE ~receipt
  <2>1. PICK S : S = DOMAIN v \cap {"note"}
    OBVIOUS
  <2>2. Only(v, {"note"}) = Only(v, S)
    <3>1. DOMAIN v \cap {"note"} = DOMAIN v \cap S
      BY <2>1
    <3> QED BY <3>1 DEF Only
  <2>3. Get(Overlay(m.row, Only(v, S)), "score") = Get(m.row, "score")
    BY <2>1, UpdateGet
  <2>4. n.row = MergeNote(m.row, v)
    BY <1>5, <1>6 DEF LedgerFields
  <2> QED BY <2>2, <2>3, <2>4 DEF MergeNote
<1>7. CASE receipt
  <2>1. ~IsGenesisReplacement(m.row, FALSE, v)
    BY DEF IsGenesisReplacement
  <2>2. Get(m.row, "receipt_certified") = TRUE
    BY DEF Settled
  <2>3. MergeKeyedEvaluation(m, FALSE, v) = [m EXCEPT !.row = MergeEventFields(m.row, v)]
    BY <1>4, <1>7, <2>1, <2>2, NoneAssumption DEF MergeKeyedEvaluation
  <2>4. n.row = MergeEventFields(m.row, v)
    BY <1>5, <1>7, <2>3 DEF LedgerFields
  <2>5. Get(v, "kind") # "baseline"
    BY <1>4, NoneAssumption
  <2> QED BY <1>4, <2>4, <2>5, SettledIsNotReplaced
<1> QED BY <1>6, <1>7

=============================================================================
