---------------------------- MODULE Lineage_proofs ----------------------------
(***************************************************************************)
(* Proofs about one lineage.  First what the lines of a generation add up   *)
(* to (Generation): the invariants that decide which generations may be     *)
(* parents hold for every set of scores, parents and reasons, any number of *)
(* attempts and any number of lines.  Then the files that hold the lines    *)
(* (Ledger): what Distinct (the line de-duplication of                      *)
(* ensure_local_archive) preserves, and, for the mechanism on its own, that *)
(* the two copies implement EventLog through every kill, that receipts and  *)
(* certified lines survive one, and that an operator's lines are undone.    *)
(***************************************************************************)
EXTENDS Generation, Ledger, Archive_proofs, FiniteSetTheorems, TLAPS

-----------------------------------------------------------------------------
(* The inductive invariant.                                                 *)

LedgerShape ==
  DOMAIN ledger = LedgerFields

RowShape == Shape(ledger.row, ledger.top)

RowEvidence == Certified(ledger.row) => Evidence(ledger.row) \in stamps

\* Only a gate sets valid_parent, and a certified re-evaluation clears it.
RowGated ==
  ~IsGenesis /\ Get(ledger.row, "valid_parent") = TRUE => gated = "accept"

AwaitingTop == ledger.awaiting => ledger.top = "dev"

\* Attempt numbers are never used twice, so no evaluation line repeats one
\* that is in the ledger and would be dropped as a duplicate.
LinesBefore ==
  \A e \in ledger.lines : "attempt" \in DOMAIN e =>
    /\ e["purpose"] \in Purposes
    /\ e["attempt"] \in 1..attempts[e["purpose"]]
    /\ running = e["purpose"] => e["attempt"] < attempts[running]

RunningShape ==
  /\ running # None => attempts[running] > 0
  /\ running = "genesis" => IsGenesis

IInv == /\ TypeOK /\ LedgerShape /\ RowShape /\ RowEvidence /\ RowGated
        /\ AwaitingTop /\ LinesBefore /\ RunningShape

LEMMA SameFields == RecordedFields = LineFields
BY DEF RecordedFields, LineFields

-----------------------------------------------------------------------------
(* The invariant is inductive. *)

LEMMA InitIInv == Init => IInv
<1> SUFFICES ASSUME Init PROVE IInv
  OBVIOUS
<1>1. DOMAIN Empty = LedgerFields /\ Empty.row = << >> /\ Empty.top = None
      /\ Empty.lines = {} /\ Empty.awaiting = FALSE /\ Empty.attempted = FALSE
  BY DEF Empty, LedgerFields
<1>2. DOMAIN << >> = {}
  OBVIOUS
<1>3. attempts \in [Purposes -> 0..MaxAttempts] /\ running = None
      /\ stamps = {} /\ gated = "none"
  BY GenerationAssumption DEF Init
<1>4. None \notin Purposes
  BY NoneAssumption DEF Purposes
<1>5. CASE ~IsGenesis
  <2>1. ledger = Empty
    BY <1>5 DEF Init
  <2>2. Get(<< >>, "receipt_certified") # TRUE /\ Get(<< >>, "valid_parent") # TRUE
        /\ Get(<< >>, "score") = None /\ Get(<< >>, "status") # "complete"
    BY <1>2, NoneAssumption DEF Get
  <2>3. TypeOK
    BY <1>1, <1>2, <1>3, <2>1 DEF TypeOK
  <2>4. RowShape
    BY <1>1, <1>2, <2>1, <2>2, NoneAssumption DEF RowShape, Shape
  <2>5. LedgerShape /\ RowEvidence /\ RowGated /\ AwaitingTop
    BY <1>1, <2>1, <2>2 DEF LedgerShape, RowEvidence, RowGated, AwaitingTop, Certified
  <2>6. LinesBefore /\ RunningShape
    BY <1>1, <1>3, <1>4, <2>1, NoneAssumption DEF LinesBefore, RunningShape
  <2> QED BY <2>3, <2>4, <2>5, <2>6 DEF IInv
<1>6. CASE IsGenesis
  <2>1. Plain(Scaffold) /\ "attempt" \notin DOMAIN Scaffold
    BY PlainLines DEF Plain, EvaluatedFields
  <2>4. PICK r : r = MergeEventFields(<< >>, Scaffold)
    OBVIOUS
  <2>5. /\ DOMAIN r \subseteq LineFields \ Reserved
        /\ DOMAIN r \cap EvaluatedFields = {}
        /\ Get(r, "score") = None /\ Get(r, "status") # "complete"
    <3>1. DOMAIN << >> \subseteq RecordedFields \ Reserved
      BY <1>2
    <3>2. MergesPlain(<< >>, r, Scaffold)
      BY <2>1, <2>4, <3>1, PlainMergeFields
    <3>3. Get(<< >>, "status") # "complete" /\ Get(Scaffold, "status") # "complete"
      BY <1>2, NoneAssumption DEF Get, Scaffold
    <3> QED BY <1>2, <3>2, <3>3, SameFields DEF MergesPlain, Get
  <2>2. PICK m : m = Empty
    OBVIOUS
  <2>6. ledger = Record(m, IsGenesis, Scaffold, FALSE)
    BY <1>6, <2>2 DEF Init
  <2>7. DOMAIN m = LedgerFields /\ m.row = << >> /\ m.top = None
        /\ m.lines = {} /\ m.awaiting = FALSE
    BY <1>1, <2>2
  <2>3. PICK e : e = Scaffold
    OBVIOUS
  <2>14. /\ DOMAIN ledger = LedgerFields
         /\ ledger.row = MergeEventFields(m.row, e) /\ ledger.top = m.top
         /\ ledger.lines = m.lines \cup {e}
         /\ ledger.awaiting <=> m.awaiting /\ ~IsGateRecord(e)
         /\ ledger.awaiting \in BOOLEAN /\ ledger.attempted \in BOOLEAN
    <3>1. PICK g, receipt, l : g = IsGenesis /\ receipt = FALSE /\ l = ledger
      OBVIOUS
    <3>2. l = Record(m, g, e, receipt) /\ Plain(e) /\ e \notin m.lines
      BY <2>1, <2>3, <2>6, <2>7, <3>1
    <3>3. /\ DOMAIN l = LedgerFields
          /\ l.row = MergeEventFields(m.row, e) /\ l.top = m.top
          /\ l.lines = m.lines \cup {e}
          /\ l.awaiting <=> m.awaiting /\ ~IsGateRecord(e)
          /\ l.awaiting \in BOOLEAN /\ l.attempted \in BOOLEAN
      BY <2>7, <3>2, PlainRecord
    <3> QED BY <3>1, <3>3
  <2>8. /\ DOMAIN ledger = LedgerFields /\ ledger.row = r /\ ledger.top = None
        /\ ledger.lines = {Scaffold} /\ ledger.awaiting = FALSE
        /\ ledger.attempted \in BOOLEAN
    BY <2>3, <2>4, <2>7, <2>14
  <2>9. Get(r, "receipt_certified") # TRUE
    BY <2>5, NoneAssumption DEF Get, EvaluatedFields
  <2>10. TypeOK
    BY <1>3, <2>5, <2>8 DEF TypeOK
  <2>11. RowShape
    BY <2>5, <2>8, SameFields, NoneAssumption DEF RowShape, Shape
  <2>12. LedgerShape /\ RowEvidence /\ RowGated /\ AwaitingTop
    BY <1>6, <2>8, <2>9 DEF LedgerShape, RowEvidence, RowGated, AwaitingTop, Certified
  <2>13. LinesBefore /\ RunningShape
    BY <1>3, <1>4, <2>1, <2>8, NoneAssumption DEF LinesBefore, RunningShape
  <2> QED BY <2>10, <2>11, <2>12, <2>13 DEF IInv
<1> QED BY <1>5, <1>6

\* Any line but an evaluation: it may forget a score, a gate decision or a
\* parent, and makes a parent only when it is the gate's own accept.
LEMMA PlainStep ==
  ASSUME IInv, NEW e, Plain(e), AppendEvent(e),
         UNCHANGED <<attempts, running, stamps>>,
         gated' \in {"none", "accept", "reject"},
         e \in ledger.lines => gated' = gated,
         \/ gated' = gated /\ Get(e, "valid_parent") # TRUE
         \/ Get(e, "valid_parent") = FALSE
         \/ gated' = "accept"
         \/ e \in ledger.lines
  PROVE  IInv'
<1>1. CASE e \in ledger.lines
  <2>1. ledger' = ledger /\ gated' = gated
    BY <1>1 DEF AppendEvent, Record
  <2> QED BY <2>1 DEF IInv, TypeOK, LedgerShape, RowShape, RowEvidence, RowGated,
                  AwaitingTop, LinesBefore, RunningShape
<1>2. CASE e \notin ledger.lines
  <2>1. DOMAIN ledger = LedgerFields /\ DOMAIN ledger.row \subseteq LineFields \ Reserved
    BY DEF IInv, LedgerShape, TypeOK
  <2>2. /\ DOMAIN ledger' = LedgerFields
        /\ ledger'.row = MergeEventFields(ledger.row, e) /\ ledger'.top = ledger.top
        /\ ledger'.lines = ledger.lines \cup {e}
        /\ ledger'.awaiting <=> ledger.awaiting /\ ~IsGateRecord(e)
        /\ ledger'.awaiting \in BOOLEAN /\ ledger'.attempted \in BOOLEAN
    <3>1. PICK g, receipt, m, l : /\ g = IsGenesis /\ receipt = FALSE
                                  /\ m = ledger /\ l = ledger'
      OBVIOUS
    <3>2. l = Record(m, g, e, receipt)
      BY <3>1 DEF AppendEvent
    <3>3. /\ DOMAIN l = LedgerFields
          /\ l.row = MergeEventFields(m.row, e) /\ l.top = m.top
          /\ l.lines = m.lines \cup {e}
          /\ l.awaiting <=> m.awaiting /\ ~IsGateRecord(e)
          /\ l.awaiting \in BOOLEAN /\ l.attempted \in BOOLEAN
      BY <1>2, <2>1, <3>1, <3>2, PlainRecord
    <3> QED BY <3>1, <3>3
  <2>3. PICK row : row = ledger.row
    OBVIOUS
  <2>4. PICK r : r = MergeEventFields(row, e)
    OBVIOUS
  <2>5. /\ DOMAIN row \subseteq DOMAIN r /\ DOMAIN r \subseteq LineFields \ Reserved
        /\ DOMAIN r \cap EvaluatedFields = DOMAIN row \cap EvaluatedFields
        /\ \A k \in EvaluatedFields : Get(r, k) = Get(row, k)
        /\ Get(r, "score") \in {Get(row, "score"), None}
        /\ Get(r, "valid_parent") = TRUE =>
             \/ Get(row, "valid_parent") = TRUE
             \/ Get(e, "valid_parent") = TRUE
        /\ Get(e, "valid_parent") = FALSE => Get(r, "valid_parent") = FALSE
        /\ Get(r, "status") \in {Get(row, "status"), Get(e, "status")}
    <3>1. MergesPlain(row, r, e)
      BY <2>1, <2>3, <2>4, PlainMergeFields, SameFields
    <3> QED BY <3>1, SameFields DEF MergesPlain
  <2>6. ledger'.row = r
    BY <2>2, <2>3, <2>4
  <2>7. TypeOK'
    BY <2>2, <2>5, <2>6 DEF IInv, TypeOK
  <2>8. RowShape'
    <3>1. ledger.top = "dev" => r["outcome"] = row["outcome"]
      <4>1. ledger.top = "dev" => "outcome" \in DOMAIN row
        BY <2>3 DEF IInv, RowShape, Shape, Stamped
      <4> QED BY <4>1, <2>5 DEF Get, EvaluatedFields
    <3>2. Get(e, "status") # "complete"
      BY DEF Plain
    <3> QED BY <3>1, <3>2, <2>2, <2>3, <2>5, <2>6, SameFields DEF IInv, RowShape, Shape
  <2>9. RowEvidence'
    BY <2>3, <2>5, <2>6
       DEF IInv, RowEvidence, Certified, Evidence, EvaluatedFields
  <2>10. RowGated'
    BY <1>2, <2>3, <2>5, <2>6 DEF IInv, RowGated
  <2>11. LedgerShape' /\ AwaitingTop' /\ RunningShape'
    BY <2>2 DEF IInv, LedgerShape, AwaitingTop, RunningShape
  <2>12. LinesBefore'
    <3>1. "attempt" \notin DOMAIN e
      BY DEF Plain, EvaluatedFields
    <3> QED BY <2>2, <3>1 DEF IInv, LinesBefore
  <2> QED BY <2>7, <2>8, <2>9, <2>10, <2>11, <2>12 DEF IInv
<1> QED BY <1>1, <1>2

\* The line of the evaluation that is running is new.
LEMMA NewLine ==
  ASSUME IInv, running # None, NEW e, NEW outcome, NEW score,
         LineOf(e, running, outcome, score, attempts[running])
  PROVE  e \notin ledger.lines /\ "attempt" \in DOMAIN e
<1>1. "attempt" \in DOMAIN e /\ e["attempt"] = attempts[running] /\ e["purpose"] = running
  BY DEF LineOf, EvaluationShape, Stamped
<1>2. running \in Purposes /\ attempts[running] \in Nat
  BY GenerationAssumption DEF IInv, TypeOK
<1> QED BY <1>1, <1>2 DEF IInv, LinesBefore

LEMMA StartStep ==
  ASSUME IInv, NEW purpose \in Purposes, NEW force \in BOOLEAN,
         StartEvaluation(purpose, force)
  PROVE  IInv'
<1>1. /\ running = None /\ attempts[purpose] < MaxAttempts
      /\ attempts' = [attempts EXCEPT ![purpose] = @ + 1]
      /\ running' = purpose
      /\ UNCHANGED <<ledger, stamps, gated>>
  BY DEF StartEvaluation
<1>2. attempts \in [Purposes -> 0..MaxAttempts] /\ MaxAttempts \in Nat
  BY GenerationAssumption DEF IInv, TypeOK
<1>3. \A p \in Purposes :
        attempts'[p] = IF p = purpose THEN attempts[p] + 1 ELSE attempts[p]
  BY <1>1, <1>2
<1>4. TypeOK'
  BY <1>1, <1>2 DEF IInv, TypeOK
<1>5. LinesBefore'
  BY <1>1, <1>2, <1>3 DEF IInv, LinesBefore
<1>6. RunningShape'
  <2>1. attempts'[purpose] > 0
    BY <1>2, <1>3
  <2>2. purpose = "genesis" => IsGenesis
    BY DEF StartEvaluation
  <2> QED BY <1>1, <2>1, <2>2 DEF RunningShape
<1>7. LedgerShape' /\ RowShape' /\ RowEvidence' /\ RowGated' /\ AwaitingTop'
  BY <1>1 DEF IInv, LedgerShape, RowShape, RowEvidence, RowGated, AwaitingTop
<1> QED BY <1>4, <1>5, <1>6, <1>7 DEF IInv

LEMMA EvaluationLine ==
  ASSUME NEW purpose \in Purposes, NEW p, NEW outcome \in Outcomes, NEW score, NEW attempt
  PROVE  LET e == Evaluation(purpose, p, outcome, score, attempt)
         IN  /\ LineOf(e, purpose, outcome, score, attempt)
             /\ purpose = "candidate" /\ ~IsGenesis => e["valid_parent"] = FALSE
             /\ purpose = "anchor" => e["valid_parent"] = FALSE
<1>1. PICK g \in BOOLEAN : g = IsGenesis
  BY GenerationAssumption
<1>2. Evaluation(purpose, p, outcome, score, attempt)
        = LineFor(g, purpose, p, outcome, score, attempt)
  BY <1>1 DEF Evaluation, LineFor
<1>3. PICK e : e = LineFor(g, purpose, p, outcome, score, attempt)
  OBVIOUS
<1>4. purpose \in AnyPurpose
  BY DEF Purposes, AnyPurpose
<1>5. LineOf(e, purpose, outcome, score, attempt) /\ GatedLine(g, purpose, outcome, e)
  BY <1>3, <1>4, EvaluationLines
<1> QED BY <1>1, <1>2, <1>3, <1>5 DEF GatedLine

\* A sealed evaluation: only the auxiliary evaluations and the lines change.
LEMMA AnchorFinish ==
  ASSUME IInv, running = "anchor", NEW p, NEW outcome \in Outcomes, NEW score,
         NEW receipt \in BOOLEAN, FinishEvaluation(p, outcome, score, receipt)
  PROVE  /\ DOMAIN ledger' = LedgerFields /\ ledger'.attempted \in BOOLEAN
         /\ ledger'.row = ledger.row /\ ledger'.top = ledger.top
         /\ ledger'.awaiting = ledger.awaiting
         /\ stamps' = stamps /\ gated' = gated
         /\ \E e : /\ ledger'.lines = ledger.lines \cup {e}
                   /\ "attempt" \in DOMAIN e /\ e["purpose"] = "anchor"
                   /\ e["attempt"] = attempts["anchor"]
<1>1. PICK e : e = Evaluation("anchor", p, outcome, score, attempts["anchor"])
  OBVIOUS
<1>2. LineOf(e, "anchor", outcome, score, attempts["anchor"])
  BY <1>1, EvaluationLine DEF Purposes
<1>3. e \notin ledger.lines /\ "attempt" \in DOMAIN e
  <2>1. running # None
    BY NoneAssumption
  <2> QED BY <1>2, <2>1, NewLine
<1>4. DOMAIN ledger = LedgerFields
  BY DEF IInv, LedgerShape
<1>5. PICK n : n = Merge(ledger, IsGenesis, e, receipt)
  OBVIOUS
<1>6. SameLines(ledger, n) /\ n.top = ledger.top /\ n.row = ledger.row
  <2>1. PICK g, m : g = IsGenesis /\ m = ledger
    OBVIOUS
  <2>2. n = Merge(m, g, e, receipt) /\ DOMAIN m = LedgerFields
    BY <1>4, <1>5, <2>1
  <2>3. SameLines(m, n) /\ n.top = m.top /\ n.row = m.row
    BY <1>2, <2>2, AnchorMerge
  <2> QED BY <2>1, <2>3
<1>7. ledger' = Record(ledger, IsGenesis, e, receipt)
  BY <1>1 DEF FinishEvaluation
<1>8. /\ DOMAIN ledger' = LedgerFields
      /\ ledger'.row = n.row /\ ledger'.top = n.top
      /\ ledger'.lines = ledger.lines \cup {e}
      /\ ledger'.awaiting <=> IsEvaluationStamp(e) \/ (ledger.awaiting /\ ~IsGateRecord(e))
      /\ ledger'.awaiting \in BOOLEAN /\ ledger'.attempted \in BOOLEAN
  BY <1>3, <1>4, <1>5, <1>6, <1>7, RecordFacts
<1>9. ~IsEvaluationStamp(e) /\ ~IsGateRecord(e)
  BY <1>2 DEF LineOf, EvaluationShape, IsGateRecord, Stamped
<1>10. ledger.awaiting \in BOOLEAN
  BY DEF IInv, TypeOK
<1>11. stamps' = stamps /\ gated' = gated
  BY DEF FinishEvaluation
<1>12. e["purpose"] = "anchor" /\ e["attempt"] = attempts["anchor"]
  BY <1>2 DEF LineOf
<1> QED BY <1>3, <1>6, <1>8, <1>9, <1>10, <1>11, <1>12

\* A development evaluation: the row becomes that of its line e.
DevLine(e, outcome, score, receipt) ==
  /\ LineOf(e, running, outcome, score, attempts[running])
  /\ ~IsGenesis => e["valid_parent"] = FALSE
  /\ DOMAIN ledger' = LedgerFields
  /\ ledger'.awaiting \in BOOLEAN /\ ledger'.attempted \in BOOLEAN
  /\ ledger'.top = "dev" /\ Becomes(ledger.row, ledger'.row, e, receipt)
  /\ ledger'.lines = ledger.lines \cup {e}

LEMMA DevFinish ==
  ASSUME IInv, running \in {"genesis", "candidate"}, NEW p, NEW outcome \in Outcomes,
         NEW score, NEW receipt \in BOOLEAN,
         FinishEvaluation(p, outcome, score, receipt)
  PROVE  \E e : DevLine(e, outcome, score, receipt)
<1>1. PICK e : e = Evaluation(running, p, outcome, score, attempts[running])
  OBVIOUS
<1>0. running \in Purposes
  BY DEF Purposes
<1>2. /\ LineOf(e, running, outcome, score, attempts[running])
      /\ running = "candidate" /\ ~IsGenesis => e["valid_parent"] = FALSE
  BY <1>0, <1>1, EvaluationLine
<1>3. running = "genesis" => IsGenesis
  BY DEF IInv, RunningShape
<1>4. e \notin ledger.lines
  <2>1. running # None
    BY NoneAssumption
  <2> QED BY <1>2, <2>1, NewLine
<1>5. DOMAIN ledger = LedgerFields /\ Shape(ledger.row, ledger.top)
  BY DEF IInv, LedgerShape, RowShape
<1>6. PICK n : n = Merge(ledger, IsGenesis, e, receipt)
  OBVIOUS
<1>7. SameLines(ledger, n) /\ n.top = "dev" /\ Becomes(ledger.row, n.row, e, receipt)
  BY <1>2, <1>3, <1>5, <1>6, DevMerge, GenerationAssumption
<1>8. ledger' = Record(ledger, IsGenesis, e, receipt)
  BY <1>1 DEF FinishEvaluation
<1>9. /\ DOMAIN ledger' = LedgerFields
      /\ ledger'.row = n.row /\ ledger'.top = n.top
      /\ ledger'.lines = ledger.lines \cup {e}
      /\ ledger'.awaiting <=> IsEvaluationStamp(e) \/ (ledger.awaiting /\ ~IsGateRecord(e))
      /\ ledger'.awaiting \in BOOLEAN /\ ledger'.attempted \in BOOLEAN
  BY <1>4, <1>5, <1>6, <1>7, <1>8, RecordFacts
<1>10. DevLine(e, outcome, score, receipt)
  BY <1>2, <1>3, <1>7, <1>9 DEF DevLine
<1> QED BY <1>10

LEMMA FinishStep ==
  ASSUME IInv, NEW p, NEW outcome \in Outcomes, NEW score \in Scores \cup {None},
         NEW receipt \in BOOLEAN, FinishEvaluation(p, outcome, score, receipt)
  PROVE  IInv'
<1>1. /\ running # None /\ running' = None /\ attempts' = attempts
      /\ score # None <=> outcome = "benchmark_complete"
  BY DEF FinishEvaluation
<1>2. /\ attempts \in [Purposes -> 0..MaxAttempts] /\ MaxAttempts \in Nat
      /\ running \in Purposes /\ attempts[running] \in 1..MaxAttempts
  <2>1. attempts \in [Purposes -> 0..MaxAttempts] /\ MaxAttempts \in Nat /\ running \in Purposes
    BY <1>1, GenerationAssumption DEF IInv, TypeOK
  <2> QED BY <1>1, <2>1 DEF IInv, RunningShape
<1>3. RunningShape'
  BY <1>1, NoneAssumption DEF RunningShape
<1>4. ASSUME NEW e, "attempt" \in DOMAIN e, e["purpose"] = running,
             e["attempt"] = attempts[running], ledger'.lines = ledger.lines \cup {e}
      PROVE  LinesBefore'
  <2>1. running' = None /\ None \notin Purposes
    BY <1>1, NoneAssumption DEF Purposes
  <2>2. ASSUME NEW f \in ledger.lines, "attempt" \in DOMAIN f
        PROVE  f["purpose"] \in Purposes /\ f["attempt"] \in 1..attempts[f["purpose"]]
    BY <2>2 DEF IInv, LinesBefore
  <2>3. attempts' = attempts
    BY <1>1
  <2> QED BY <1>2, <1>4, <2>1, <2>2, <2>3 DEF LinesBefore
<1>5. CASE running = "anchor"
  <2>1. /\ DOMAIN ledger' = LedgerFields /\ ledger'.attempted \in BOOLEAN
        /\ ledger'.row = ledger.row /\ ledger'.top = ledger.top
        /\ ledger'.awaiting = ledger.awaiting
        /\ stamps' = stamps /\ gated' = gated
        /\ \E e : /\ ledger'.lines = ledger.lines \cup {e}
                  /\ "attempt" \in DOMAIN e /\ e["purpose"] = "anchor"
                  /\ e["attempt"] = attempts["anchor"]
    BY <1>5, AnchorFinish
  <2>2. LinesBefore'
    BY <1>4, <1>5, <2>1
  <2>3. TypeOK'
    BY <1>1, <2>1 DEF IInv, TypeOK
  <2>4. LedgerShape' /\ RowShape' /\ RowEvidence' /\ RowGated' /\ AwaitingTop'
    BY <2>1 DEF IInv, LedgerShape, RowShape, RowEvidence, RowGated, AwaitingTop
  <2> QED BY <1>3, <2>2, <2>3, <2>4 DEF IInv
<1>6. CASE running \in {"genesis", "candidate"}
  <2>10. PICK e : DevLine(e, outcome, score, receipt)
    BY <1>6, DevFinish
  <2>1. /\ LineOf(e, running, outcome, score, attempts[running])
        /\ ~IsGenesis => e["valid_parent"] = FALSE
        /\ DOMAIN ledger' = LedgerFields
        /\ ledger'.awaiting \in BOOLEAN /\ ledger'.attempted \in BOOLEAN
        /\ ledger'.top = "dev" /\ Becomes(ledger.row, ledger'.row, e, receipt)
        /\ ledger'.lines = ledger.lines \cup {e}
    BY <2>10 DEF DevLine
  <2>2. /\ e["outcome"] = outcome /\ e["score"] = score
        /\ e["attempt"] = attempts[running] /\ e["purpose"] = running
        /\ "attempt" \in DOMAIN e
    BY <2>1 DEF LineOf, EvaluationShape, Stamped
  <2>3. LinesBefore'
    BY <1>4, <2>1, <2>2
  <2>4. /\ receipt /\ outcome = "benchmark_complete" =>
             /\ stamps' = stamps \cup {<<score, attempts[running], running>>}
             /\ gated' = "none"
        /\ ~(receipt /\ outcome = "benchmark_complete") => stamps' = stamps /\ gated' = gated
    BY <1>6 DEF FinishEvaluation
  <2>5. TypeOK'
    <3>1. stamps' \subseteq Scores \X (1..MaxAttempts) \X {"genesis", "candidate"}
      BY <1>1, <1>2, <1>6, <2>4 DEF IInv, TypeOK
    <3>2. gated' \in {"none", "accept", "reject"}
      BY <2>4 DEF IInv, TypeOK
    <3> QED BY <1>1, <1>2, <2>1, <3>1, <3>2, SameFields DEF TypeOK, Becomes
  <2>6. RowShape'
    BY <2>1, NoneAssumption DEF RowShape, Shape, Becomes
  <2>7. RowEvidence'
    <3>1. SUFFICES ASSUME Certified(ledger'.row)
                   PROVE  Evidence(ledger'.row) \in stamps'
      BY DEF RowEvidence, Certified, Evidence
    <3>2. CASE /\ receipt /\ e["outcome"] = "benchmark_complete"
               /\ Evidence(ledger'.row) = <<e["score"], e["attempt"], e["purpose"]>>
      BY <2>2, <2>4, <3>2
    <3>3. CASE Certified(ledger.row) /\ Evidence(ledger'.row) = Evidence(ledger.row)
      BY <2>4, <3>3 DEF IInv, RowEvidence
    <3> QED BY <2>1, <3>1, <3>2, <3>3 DEF Becomes
  <2>8. RowGated'
    BY <2>1, <2>4 DEF IInv, RowGated, Becomes
  <2>9. LedgerShape' /\ AwaitingTop'
    BY <2>1 DEF LedgerShape, AwaitingTop
  <2> QED BY <1>3, <2>3, <2>5, <2>6, <2>7, <2>8, <2>9 DEF IInv
<1> QED BY <1>2, <1>5, <1>6 DEF Purposes

LEMMA NextIInv == IInv /\ [Next]_vars => IInv'
<1> SUFFICES ASSUME IInv, [Next]_vars PROVE IInv'
  OBVIOUS
<1>0. gated \in {"none", "accept", "reject"}
  BY DEF IInv, TypeOK
<1>1. ASSUME NEW p \in Parents, Commit(p) PROVE IInv'
  <2>1. Plain(CommitEvent(p)) /\ Get(CommitEvent(p), "valid_parent") # TRUE
    BY PlainLines, NoneAssumption DEF CommitEvent, Get
  <2> QED BY <1>0, <1>1, <2>1, PlainStep DEF Commit
<1>2. ASSUME NEW p \in Parents, NEW s \in Rejections, Reject(p, s) PROVE IInv'
  <2>1. Plain(Discarded(p, s)) /\ Get(Discarded(p, s), "valid_parent") = FALSE
    BY PlainLines DEF Discarded, Get, Rejections
  <2> QED BY <1>0, <1>2, <2>1, PlainStep DEF Reject
<1>3. ASSUME NEW p \in Parents \cup {None}, Fail(p) PROVE IInv'
  <2>1. Plain(OperatorFailed(p)) /\ Get(OperatorFailed(p), "valid_parent") = FALSE
    BY PlainLines DEF OperatorFailed, Discarded, Get
  <2> QED BY <1>0, <1>3, <2>1, PlainStep DEF Fail
<1>4. ASSUME NEW purpose \in Purposes, NEW force \in BOOLEAN,
             StartEvaluation(purpose, force)
      PROVE  IInv'
  BY <1>4, StartStep
<1>5. ASSUME NEW p \in EvaluationParents, NEW score \in Scores \cup {None},
             NEW outcome \in Failures \cup {"benchmark_complete"},
             NEW receipt \in BOOLEAN, FinishEvaluation(p, outcome, score, receipt)
      PROVE  IInv'
  <2>1. outcome \in Outcomes
    BY GenerationAssumption DEF Outcomes
  <2> QED BY <1>5, <2>1, FinishStep
<1>6. CASE Killed
  <2>1. running' = None /\ UNCHANGED <<ledger, attempts, stamps, gated>>
    BY <1>6 DEF Killed
  <2>2. TypeOK' /\ LinesBefore'
    BY <2>1, NoneAssumption DEF IInv, TypeOK, LinesBefore, Purposes
  <2>3. RunningShape'
    BY <2>1, NoneAssumption DEF RunningShape
  <2> QED BY <2>1, <2>2, <2>3
          DEF IInv, LedgerShape, RowShape, RowEvidence, RowGated, AwaitingTop
<1>7. ASSUME NEW accept \in BOOLEAN, NEW reason \in Reasons, Gate(accept, reason)
      PROVE  IInv'
  <2>1. PICK e : e = GateEvent(accept, reason)
    OBVIOUS
  <2>2. Plain(e) /\ (~accept => Get(e, "valid_parent") = FALSE)
    BY <2>1, PlainLines DEF GateEvent, Get
  <2>3. /\ AppendEvent(e) /\ UNCHANGED <<attempts, running, stamps>>
        /\ e \in ledger.lines => gated' = gated
        /\ e \notin ledger.lines => gated' = IF accept THEN "accept" ELSE "reject"
    BY <1>7, <2>1 DEF Gate
  <2> QED BY <1>0, <2>2, <2>3, PlainStep
<1>8. ASSUME NEW e \in {RecordEvent, RecordError}, RecordTerminal(e) PROVE IInv'
  <2>1. Plain(e) /\ Get(e, "valid_parent") # TRUE
    BY PlainLines, NoneAssumption DEF RecordEvent, RecordError, Get
  <2> QED BY <1>0, <1>8, <2>1, PlainStep DEF RecordTerminal
<1>9. CASE Annotate
  <2>1. Plain(AuditEvent) /\ Get(AuditEvent, "valid_parent") # TRUE
    BY PlainLines, NoneAssumption DEF AuditEvent, Get
  <2> QED BY <1>0, <1>9, <2>1, PlainStep DEF Annotate
<1>10. CASE UNCHANGED vars
  BY <1>10 DEF vars, IInv, TypeOK, LedgerShape, RowShape, RowEvidence, RowGated,
               AwaitingTop, LinesBefore, RunningShape
<1> QED BY <1>1, <1>2, <1>3, <1>4, <1>5, <1>6, <1>7, <1>8, <1>9, <1>10 DEF Next

LEMMA Inductive == Spec => []IInv
BY InitIInv, NextIInv, PTL DEF Spec

-----------------------------------------------------------------------------
(* The theorems. *)

\* The ledger keeps its type: merge_events never lets one of its reserved
\* markers, or a field the mechanism does not write, into a row.
THEOREM TypeCorrect == Spec => []TypeOK
<1>1. IInv => TypeOK
  BY DEF IInv
<1> QED BY <1>1, Inductive, PTL

\* A generation other than zero is a parent only after a gate accepted its
\* latest certified evaluation, whatever retries, failures, kills and sealed
\* anchors happened in between.
THEOREM AdmissionNeedsGate == Spec => []AdmittedByGate
<1>1. IInv => AdmittedByGate
  BY NoneAssumption DEF IInv, RowGated, AdmittedByGate, IsParentRecord
<1> QED BY <1>1, Inductive, PTL

\* A parent's score, attempt and purpose belong to one certified evaluation.
THEOREM EvidenceIsCertified == Spec => []ParentEvidence
<1>1. ASSUME IInv PROVE ParentEvidence
  <2>1. SUFFICES ASSUME IsParentRecord(ledger.row)
                 PROVE  <<ledger.row["score"], ledger.row["attempt"],
                          ledger.row["purpose"]>> \in stamps
    BY DEF ParentEvidence
  <2>2. Evidence(ledger.row) \in stamps
    BY <1>1, <2>1 DEF IInv, RowEvidence, Certified, IsParentRecord
  <2>3. Stamped \subseteq DOMAIN ledger.row
    <3>1. "outcome" \in DOMAIN ledger.row
      BY <2>1, NoneAssumption DEF IsParentRecord, Get
    <3>2. ledger.top = "dev"
      BY <1>1, <3>1 DEF IInv, RowShape, Shape, EvaluatedFields
    <3> QED BY <1>1, <3>2 DEF IInv, RowShape, Shape
  <2> QED BY <2>2, <2>3 DEF Evidence, Get, Stamped
<1> QED BY <1>1, Inductive, PTL

\* A generation that awaits its gate has an evaluation on record.
THEOREM AwaitingHasOutcome == Spec => []AwaitingIsEvaluated
<1>1. IInv => AwaitingIsEvaluated
  BY DEF IInv, AwaitingTop, RowShape, Shape, AwaitingIsEvaluated, Get, Stamped
<1> QED BY <1>1, Inductive, PTL

\* A sealed evaluation changes nothing that selection or the gate read.
THEOREM SealedChangesNothing == Spec => SealedIsInert
<1>1. ASSUME IInv, [Next]_vars
      PROVE  [running = "anchor" =>
                /\ ledger'.row = ledger.row
                /\ ledger'.top = ledger.top
                /\ ledger'.awaiting = ledger.awaiting]_vars
  <2>1. SUFFICES ASSUME Next, running = "anchor"
                 PROVE  /\ ledger'.row = ledger.row
                        /\ ledger'.top = ledger.top
                        /\ ledger'.awaiting = ledger.awaiting
    BY <1>1
  <2>2. running # None
    BY <2>1, NoneAssumption
  <2>3. ASSUME NEW p \in EvaluationParents, NEW score \in Scores \cup {None},
               NEW outcome \in Failures \cup {"benchmark_complete"},
               NEW receipt \in BOOLEAN, FinishEvaluation(p, outcome, score, receipt)
        PROVE  /\ ledger'.row = ledger.row
               /\ ledger'.top = ledger.top
               /\ ledger'.awaiting = ledger.awaiting
    <3>1. outcome \in Outcomes
      BY GenerationAssumption DEF Outcomes
    <3> QED BY <1>1, <2>1, <2>3, <3>1, AnchorFinish
  <2>4. Killed => ledger' = ledger
    BY DEF Killed
  <2> QED BY <2>1, <2>2, <2>3, <2>4
          DEF Next, Commit, Reject, Fail, StartEvaluation, Gate, RecordTerminal,
              Annotate, AppendEvent
<1> QED BY <1>1, Inductive, PTL DEF Spec, SealedIsInert

-----------------------------------------------------------------------------
(* A certified score stands.                                                *)

CertifiedComplete ==
  /\ Get(ledger.row, "receipt_certified") = TRUE
  /\ Get(ledger.row, "outcome") = "benchmark_complete"

KeepsScore == Get(ledger'.row, "score") \in {Get(ledger.row, "score"), None}

LEMMA PlainKeepsScore ==
  ASSUME IInv, NEW e, Plain(e), AppendEvent(e)
  PROVE  KeepsScore
<1>1. CASE e \in ledger.lines
  <2>1. ledger' = ledger
    BY <1>1 DEF AppendEvent, Record
  <2> QED BY <2>1 DEF KeepsScore
<1>2. CASE e \notin ledger.lines
  <2>1. DOMAIN ledger = LedgerFields /\ DOMAIN ledger.row \subseteq LineFields \ Reserved
    BY DEF IInv, LedgerShape, TypeOK
  <2>2. ledger'.row = MergeEventFields(ledger.row, e)
    <3>1. PICK g, receipt, m, l : /\ g = IsGenesis /\ receipt = FALSE
                                  /\ m = ledger /\ l = ledger'
      OBVIOUS
    <3>2. l = Record(m, g, e, receipt)
      BY <3>1 DEF AppendEvent
    <3>3. /\ DOMAIN l = LedgerFields
          /\ l.row = MergeEventFields(m.row, e) /\ l.top = m.top
          /\ l.lines = m.lines \cup {e}
          /\ l.awaiting <=> m.awaiting /\ ~IsGateRecord(e)
          /\ l.awaiting \in BOOLEAN /\ l.attempted \in BOOLEAN
      BY <1>2, <2>1, <3>1, <3>2, PlainRecord
    <3> QED BY <3>1, <3>3
  <2>3. PICK row : row = ledger.row
    OBVIOUS
  <2>4. PICK r : r = MergeEventFields(row, e)
    OBVIOUS
  <2>5. MergesPlain(row, r, e)
    BY <2>1, <2>3, <2>4, PlainMergeFields, SameFields
  <2> QED BY <2>2, <2>3, <2>4, <2>5 DEF MergesPlain, KeepsScore
<1> QED BY <1>1, <1>2

LEMMA FinishKeepsScore ==
  ASSUME IInv, ~IsGenesis, CertifiedComplete, NEW p, NEW outcome \in Outcomes, NEW score,
         NEW receipt \in BOOLEAN, FinishEvaluation(p, outcome, score, receipt)
  PROVE  KeepsScore
<1>1. CASE running = "anchor"
  BY <1>1, AnchorFinish DEF KeepsScore
<1>2. CASE running = "candidate"
  <2>1. PICK e : e = Evaluation(running, p, outcome, score, attempts[running])
    OBVIOUS
  <2>2. running \in Purposes /\ running # None
    BY <1>2, NoneAssumption DEF Purposes
  <2>3. LineOf(e, running, outcome, score, attempts[running]) /\ e["valid_parent"] = FALSE
    <3>1. /\ LineOf(e, running, outcome, score, attempts[running])
          /\ running = "candidate" /\ ~IsGenesis => e["valid_parent"] = FALSE
      BY <2>1, <2>2, EvaluationLine
    <3> QED BY <1>2, <3>1
  <2>4. e \notin ledger.lines
    BY <2>2, <2>3, NewLine
  <2>5. DOMAIN ledger = LedgerFields /\ Shape(ledger.row, ledger.top)
    BY DEF IInv, LedgerShape, RowShape
  <2>6. ledger.top = "dev"
    BY <2>5, CertifiedIsEvaluated DEF CertifiedComplete
  <2>7. Settled(ledger.row)
    BY <2>5, <2>6 DEF Settled, CertifiedComplete
  <2>8. PICK m, l, g, a : /\ m = ledger /\ l = ledger' /\ g = FALSE
                          /\ a = attempts[running]
    OBVIOUS
  <2>9. PICK n : n = Merge(m, g, e, receipt)
    OBVIOUS
  <2>10. SameLines(m, n)
    BY <1>2, <2>3, <2>5, <2>8, <2>9, DevMerge
  <2>11. Get(n.row, "score") = Get(m.row, "score")
    BY <1>2, <2>3, <2>5, <2>6, <2>7, <2>8, <2>9, DevKeepsScore
  <2>12. l = Record(m, g, e, receipt)
    <3>1. ledger' = Record(ledger, IsGenesis, e, receipt)
      BY <2>1 DEF FinishEvaluation
    <3>2. IsGenesis = FALSE
      BY GenerationAssumption
    <3> QED BY <2>8, <3>1, <3>2
  <2>13. l.row = n.row
    BY <2>4, <2>5, <2>8, <2>9, <2>10, <2>12, RecordFacts
  <2> QED BY <2>8, <2>11, <2>13 DEF KeepsScore
<1>3. running \in {"anchor", "candidate"}
  BY DEF IInv, RunningShape, TypeOK, Purposes, FinishEvaluation
<1> QED BY <1>1, <1>2, <1>3

\* Nothing that happens to a generation other than zero after its certified
\* complete evaluation replaces the score: it is kept, or erased by a failure.
THEOREM CertifiedScoreIsNeverReplaced == Spec => CertifiedScoreStands
<1>1. ASSUME IInv, [Next]_vars
      PROVE  [~IsGenesis /\ CertifiedComplete => KeepsScore]_vars
  <2>1. SUFFICES ASSUME Next, ~IsGenesis, CertifiedComplete
                 PROVE  KeepsScore
    BY <1>1
  <2>2. ASSUME NEW p \in Parents, Commit(p) PROVE KeepsScore
    BY <1>1, <2>2, PlainLines, PlainKeepsScore DEF Commit
  <2>3. ASSUME NEW p \in Parents, NEW s \in Rejections, Reject(p, s) PROVE KeepsScore
    <3>1. Plain(Discarded(p, s))
      BY PlainLines DEF Rejections
    <3> QED BY <1>1, <2>3, <3>1, PlainKeepsScore DEF Reject
  <2>4. ASSUME NEW p \in Parents \cup {None}, Fail(p) PROVE KeepsScore
    <3>1. Plain(OperatorFailed(p))
      BY PlainLines DEF OperatorFailed
    <3> QED BY <1>1, <2>4, <3>1, PlainKeepsScore DEF Fail
  <2>5. ASSUME NEW p \in EvaluationParents, NEW score \in Scores \cup {None},
               NEW outcome \in Failures \cup {"benchmark_complete"},
               NEW receipt \in BOOLEAN, FinishEvaluation(p, outcome, score, receipt)
        PROVE  KeepsScore
    <3>1. outcome \in Outcomes
      BY GenerationAssumption DEF Outcomes
    <3> QED BY <1>1, <2>1, <2>5, <3>1, FinishKeepsScore
  <2>6. ASSUME NEW accept \in BOOLEAN, NEW reason \in Reasons, Gate(accept, reason)
        PROVE  KeepsScore
    <3>1. PICK e : e = GateEvent(accept, reason)
      OBVIOUS
    <3>2. Plain(e) /\ AppendEvent(e)
      BY <2>6, <3>1, PlainLines DEF Gate
    <3> QED BY <1>1, <3>2, PlainKeepsScore
  <2>7. ASSUME NEW e \in {RecordEvent, RecordError}, RecordTerminal(e) PROVE KeepsScore
    BY <1>1, <2>7, PlainLines, PlainKeepsScore DEF RecordTerminal
  <2>8. CASE Annotate
    BY <1>1, <2>8, PlainLines, PlainKeepsScore DEF Annotate
  <2>9. ASSUME ledger' = ledger PROVE KeepsScore
    BY <2>9 DEF KeepsScore
  <2>10. Killed => ledger' = ledger
    BY DEF Killed
  <2>11. \A purpose \in Purposes, force \in BOOLEAN :
           StartEvaluation(purpose, force) => ledger' = ledger
    BY DEF StartEvaluation
  <2> QED BY <2>1, <2>2, <2>3, <2>4, <2>5, <2>6, <2>7, <2>8, <2>9, <2>10, <2>11 DEF Next
<1>2. ASSUME IInv, [Next]_vars
      PROVE  [(/\ ~IsGenesis
               /\ Get(ledger.row, "receipt_certified") = TRUE
               /\ Get(ledger.row, "outcome") = "benchmark_complete")
              => Get(ledger'.row, "score") \in {Get(ledger.row, "score"), None}]_vars
  BY <1>1, <1>2 DEF CertifiedComplete, KeepsScore
<1> QED BY <1>2, Inductive, PTL DEF Spec, CertifiedScoreStands

------------------------------------------------------------------------------
(* Ranks in a finite set of positions *)

UpTo(F, i) == {j \in F : j <= i}
Rank(F, i) == Cardinality(UpTo(F, i))
Nth(F, k) == CHOOSE i \in F : Rank(F, i) = k

\* Ranks run from 1 to the size of the set and grow with the position.
LEMMA RankGrows ==
  ASSUME NEW n \in Nat, NEW F \in SUBSET (1..n)
  PROVE  /\ IsFiniteSet(F) /\ Cardinality(F) \in Nat
         /\ \A i \in F : Rank(F, i) \in 1..Cardinality(F)
         /\ \A i, k \in F : i < k => Rank(F, i) < Rank(F, k)
<1>0. IsFiniteSet(1..n)
  BY FS_Interval
<1>1. IsFiniteSet(F)
  BY <1>0, FS_Subset
<1>2. \A i : /\ UpTo(F, i) \in SUBSET F /\ IsFiniteSet(UpTo(F, i))
             /\ Rank(F, i) \in Nat /\ Rank(F, i) <= Cardinality(F)
  <2> TAKE i
  <2>1. UpTo(F, i) \in SUBSET F
    BY DEF UpTo
  <2> QED BY <1>1, <2>1, FS_Subset, FS_CardinalityType DEF Rank
<1>3. \A i \in F : Rank(F, i) # 0
  <2> TAKE i \in F
  <2>1. UpTo(F, i) # {}
    BY DEF UpTo
  <2> QED BY <1>2, <2>1, FS_EmptySet DEF Rank
<1>4. ASSUME NEW i \in F, NEW k \in F, i < k PROVE Rank(F, i) < Rank(F, k)
  <2>0. i \in Nat /\ k \in Nat /\ \A j \in F : j \in Nat
    OBVIOUS
  <2>1. UpTo(F, i) \in SUBSET UpTo(F, k) /\ k \in UpTo(F, k) /\ k \notin UpTo(F, i)
    <3>1. \A j \in F : j <= i => j <= k
      BY <1>4, <2>0
    <3>2. ~(k <= i)
      BY <1>4, <2>0
    <3>3. UpTo(F, i) \subseteq UpTo(F, k)
      BY <3>1 DEF UpTo
    <3>4. k \in UpTo(F, k) /\ k \notin UpTo(F, i)
      BY <2>0, <3>2 DEF UpTo
    <3> QED BY <3>3, <3>4
  <2>2. Rank(F, i) <= Rank(F, k) /\ Rank(F, i) # Rank(F, k)
    BY <1>2, <2>1, FS_Subset DEF Rank
  <2> QED BY <1>2, <2>2
<1>5. Cardinality(F) \in Nat
  BY <1>1, FS_CardinalityType
<1> QED BY <1>1, <1>2, <1>3, <1>4, <1>5

\* Every rank is taken, by one position.
LEMMA NthFacts ==
  ASSUME NEW n \in Nat, NEW F \in SUBSET (1..n)
  PROVE  /\ \A k \in 1..Cardinality(F) : Nth(F, k) \in F /\ Rank(F, Nth(F, k)) = k
         /\ \A i \in F : Nth(F, Rank(F, i)) = i
         /\ \A k, m \in 1..Cardinality(F) : k < m => Nth(F, k) < Nth(F, m)
<1> DEFINE c == Cardinality(F)
           f == [i \in F |-> Rank(F, i)]
<1>1. /\ IsFiniteSet(F) /\ c \in Nat
      /\ \A i \in F : Rank(F, i) \in 1..c
      /\ \A i, k \in F : i < k => Rank(F, i) < Rank(F, k)
  BY RankGrows
<1>2. \A i \in F : i \in Nat
  OBVIOUS
<1>3. \A i, k \in F : Rank(F, i) = Rank(F, k) => i = k
  <2> TAKE i, k \in F
  <2>1. i \in Nat /\ k \in Nat /\ Rank(F, i) \in Nat /\ Rank(F, k) \in Nat
    BY <1>1, <1>2
  <2> QED BY <1>1, <2>1
<1>4. f \in Injection(F, 1..c)
  BY <1>1, <1>3 DEF Injection, IsInjective
<1>5. IsFiniteSet(1..c) /\ Cardinality(1..c) = c
  BY <1>1, FS_Interval
<1>6. f \in Surjection(F, 1..c)
  BY <1>4, <1>5, FS_Injection
<1>7. \A k \in 1..c : \E i \in F : Rank(F, i) = k
  BY <1>6 DEF Surjection
<1>8. \A k \in 1..c : Nth(F, k) \in F /\ Rank(F, Nth(F, k)) = k
  BY <1>7 DEF Nth
<1>9. \A i \in F : Nth(F, Rank(F, i)) = i
  BY <1>1, <1>3, <1>8
<1>10. ASSUME NEW k \in 1..c, NEW m \in 1..c, k < m PROVE Nth(F, k) < Nth(F, m)
  <2>1. Nth(F, k) \in Nat /\ Nth(F, m) \in Nat
    BY <1>2, <1>8
  <2>2. ~(Nth(F, m) <= Nth(F, k))
    <3>1. Nth(F, m) = Nth(F, k) => FALSE
      BY <1>8, <1>10
    <3>2. Nth(F, m) < Nth(F, k) => m < k
      BY <1>1, <1>8
    <3> QED BY <1>1, <1>10, <2>1, <3>1, <3>2
  <2> QED BY <2>1, <2>2
<1> QED BY <1>8, <1>9, <1>10

\* phi moves the positions F onto G in order.
MovesOnto(phi, F, G) ==
  /\ \A i \in F : phi[i] \in G
  /\ \A g \in G : \E i \in F : phi[i] = g
  /\ \A i, k \in F : i < k => phi[i] < phi[k]

\* A strictly increasing map of one set of positions onto another keeps ranks.
LEMMA IncreasingKeepsRank ==
  ASSUME NEW n \in Nat, NEW F \in SUBSET (1..n), NEW m \in Nat, NEW G \in SUBSET (1..m),
         NEW phi, MovesOnto(phi, F, G)
  PROVE  /\ Cardinality(G) = Cardinality(F)
         /\ \A k \in 1..Cardinality(F) : Nth(G, k) = phi[Nth(F, k)]
<1>1. /\ IsFiniteSet(F) /\ IsFiniteSet(G)
      /\ Cardinality(F) \in Nat /\ Cardinality(G) \in Nat
  BY RankGrows
<1>2. \A i \in F : i \in Nat /\ phi[i] \in Nat
  <2> TAKE i \in F
  <2>1. i \in 1..n /\ phi[i] \in 1..m
    BY DEF MovesOnto
  <2> QED BY <2>1
<1>3. \A i, k \in F : i <= k <=> phi[i] <= phi[k]
  BY <1>2 DEF MovesOnto
<1>4. \A S \in SUBSET F : Cardinality({phi[i] : i \in S}) = Cardinality(S)
  <2> TAKE S \in SUBSET F
  <2> DEFINE T == {phi[i] : i \in S}
             f == [i \in S |-> phi[i]]
  <2>1. f \in Bijection(S, T)
    <3>1. f \in [S -> T] /\ \A t \in T : \E i \in S : f[i] = t
      OBVIOUS
    <3>2. \A i, k \in S : f[i] = f[k] => i = k
      <4> TAKE i, k \in S
      <4>1. i \in F /\ k \in F /\ i \in Nat /\ k \in Nat
        BY <1>2
      <4> QED BY <1>3, <1>2, <4>1
    <3> QED BY <3>1, <3>2 DEF Bijection, Injection, Surjection, IsInjective
  <2>2. IsFiniteSet(S)
    BY <1>1, FS_Subset
  <2>3. ExistsBijection(S, T)
    BY <2>1 DEF ExistsBijection
  <2> HIDE DEF T
  <2>4. Cardinality(T) = Cardinality(S)
    BY <2>2, <2>3, FS_Bijection
  <2> QED BY <2>4 DEF T
<1>5. G = {phi[i] : i \in F}
  BY DEF MovesOnto
<1>6. Cardinality(G) = Cardinality(F)
  BY <1>4, <1>5
<1>7. \A i \in F : Rank(G, phi[i]) = Rank(F, i)
  <2> TAKE i \in F
  <2>1. UpTo(G, phi[i]) = {phi[j] : j \in UpTo(F, i)}
    BY <1>3, <1>5 DEF UpTo
  <2>2. UpTo(F, i) \in SUBSET F
    BY DEF UpTo
  <2> QED BY <1>4, <2>1, <2>2 DEF Rank
<1>8. ASSUME NEW k \in 1..Cardinality(F) PROVE Nth(G, k) = phi[Nth(F, k)]
  <2>1. Nth(F, k) \in F /\ Rank(F, Nth(F, k)) = k
    BY NthFacts
  <2>2. phi[Nth(F, k)] \in G /\ Rank(G, phi[Nth(F, k)]) = k
    BY <1>7, <2>1 DEF MovesOnto
  <2>3. \A g \in G : Nth(G, Rank(G, g)) = g
    BY NthFacts
  <2> QED BY <2>2, <2>3
<1> QED BY <1>6, <1>8

------------------------------------------------------------------------------
(* What Distinct preserves *)

First(s) == {i \in DOMAIN s : \A j \in 1..i - 1 : s[j] # s[i]}

LEMMA DistinctIs ==
  ASSUME NEW s
  PROVE  Distinct(s) = [k \in 1..Cardinality(First(s)) |-> s[Nth(First(s), k)]]
BY DEF Distinct, First, Nth, Rank, UpTo

\* The positions kept, in the order of the text.
LEMMA FirstFacts ==
  ASSUME NEW S, NEW s \in Seq(S)
  PROVE  /\ Len(s) \in Nat /\ First(s) \in SUBSET (1..Len(s))
         /\ \A i \in DOMAIN s : \E j \in First(s) : j <= i /\ s[j] = s[i]
         /\ \A i, j \in First(s) : s[i] = s[j] => i = j
<1>1. Len(s) \in Nat /\ DOMAIN s = 1..Len(s)
  OBVIOUS
<1>2. First(s) \in SUBSET (1..Len(s))
  BY <1>1 DEF First
<1>3. ASSUME NEW i \in DOMAIN s PROVE \E j \in First(s) : j <= i /\ s[j] = s[i]
  <2> DEFINE H == {j \in 1..Len(s) : s[j] = s[i]}
  <2>1. H \subseteq Nat /\ H # {} /\ i \in H
    BY <1>1, <1>3
  <2> HIDE DEF H
  <2>2. PICK j \in H : \A k \in H : ~(<<k, j>> \in OpToRel(<, Nat))
    BY <2>1, WFMin, NatLessThanWellFounded
  <2>3. \A k \in H : ~(k < j)
    BY <2>1, <2>2 DEF OpToRel
  <2>4. j <= i
    BY <2>1, <2>3
  <2>5. j \in First(s) /\ s[j] = s[i]
    BY <1>1, <2>3 DEF H, First
  <2> QED BY <2>4, <2>5
<1>4. ASSUME NEW i \in First(s), NEW j \in First(s), s[i] = s[j] PROVE i = j
  <2>1. i \in 1..Len(s) /\ j \in 1..Len(s) /\ ~(i < j) /\ ~(j < i)
    BY <1>1, <1>2, <1>4 DEF First
  <2> QED BY <2>1
<1> QED BY <1>1, <1>2, <1>3, <1>4

\* Distinct drops no line and adds none.
LEMMA DistinctLines ==
  ASSUME NEW S, NEW s \in Seq(S)
  PROVE  /\ Distinct(s) \in Seq(S)
         /\ LinesOf(Distinct(s)) = LinesOf(s)
         /\ Len(Distinct(s)) = Cardinality(First(s)) /\ Cardinality(First(s)) \in Nat
         /\ \A k \in 1..Cardinality(First(s)) :
              /\ Nth(First(s), k) \in First(s)
              /\ Distinct(s)[k] = s[Nth(First(s), k)]
<1> DEFINE F == First(s)
           c == Cardinality(F)
<1>1. /\ Len(s) \in Nat /\ DOMAIN s = 1..Len(s) /\ F \in SUBSET (1..Len(s))
      /\ \A i \in DOMAIN s : \E j \in F : s[j] = s[i]
  BY FirstFacts
<1> HIDE DEF F
<1>2. /\ c \in Nat
      /\ \A i \in F : Rank(F, i) \in 1..c
      /\ \A k \in 1..c : Nth(F, k) \in F
      /\ \A i \in F : Nth(F, Rank(F, i)) = i
  BY <1>1, RankGrows, NthFacts
<1>3. Distinct(s) = [k \in 1..c |-> s[Nth(F, k)]]
  BY DistinctIs DEF F
<1> HIDE DEF c
<1>4. \A k \in 1..c : s[Nth(F, k)] \in S
  <2> TAKE k \in 1..c
  <2>1. Nth(F, k) \in 1..Len(s)
    BY <1>1, <1>2
  <2> QED BY <2>1
<1>5. Distinct(s) \in Seq(S) /\ Len(Distinct(s)) = c /\ DOMAIN Distinct(s) = 1..c
  BY <1>2, <1>3, <1>4
<1>6. LinesOf(Distinct(s)) \subseteq LinesOf(s)
  <2>1. ASSUME NEW k \in 1..c PROVE Distinct(s)[k] \in LinesOf(s)
    <3>1. Nth(F, k) \in DOMAIN s
      BY <1>1, <1>2
    <3>2. Distinct(s)[k] = s[Nth(F, k)]
      BY <1>3
    <3> QED BY <3>1, <3>2 DEF LinesOf
  <2> QED BY <1>5, <2>1 DEF LinesOf
<1>7. ASSUME NEW i \in DOMAIN s PROVE s[i] \in LinesOf(Distinct(s))
  <2>1. PICK j \in F : s[j] = s[i]
    BY <1>1
  <2>2. Rank(F, j) \in 1..c /\ Distinct(s)[Rank(F, j)] = s[i]
    BY <1>2, <1>3, <2>1
  <2> QED BY <1>5, <2>2 DEF LinesOf
<1> QED BY <1>2, <1>3, <1>5, <1>6, <1>7 DEF LinesOf, F, c

\* Positions of one text that move, in order, onto those of another which hold the
\* same lines: if the first occurrences correspond, the distinct lines are the same.
LEMMA SameDistinct ==
  ASSUME NEW S, NEW s \in Seq(S), NEW t \in Seq(S), NEW phi,
         MovesOnto(phi, First(s), First(t)),
         \A i \in First(s) : t[phi[i]] = s[i]
  PROVE  Distinct(t) = Distinct(s)
<1>1. PICK n, m \in Nat : First(s) \in SUBSET (1..n) /\ First(t) \in SUBSET (1..m)
  BY FirstFacts
<1>2. /\ Cardinality(First(t)) = Cardinality(First(s))
      /\ \A k \in 1..Cardinality(First(s)) : Nth(First(t), k) = phi[Nth(First(s), k)]
  BY <1>1, IncreasingKeepsRank, ZenonT(120)
<1>3. \A k \in 1..Cardinality(First(s)) : t[Nth(First(t), k)] = s[Nth(First(s), k)]
  BY <1>1, <1>2, NthFacts
<1>4. Distinct(t) = [k \in 1..Cardinality(First(s)) |-> t[Nth(First(t), k)]]
  BY <1>2, DistinctIs
<1> QED BY <1>3, <1>4, DistinctIs

\* A text whose lines are all there already adds none.
LEMMA NothingNew ==
  ASSUME NEW S, NEW a \in Seq(S), NEW b \in Seq(S), LinesOf(b) \subseteq LinesOf(a)
  PROVE  Distinct(a \o b) = Distinct(a)
<1> DEFINE t == a \o b
           phi == [i \in First(a) |-> i]
<1>1. /\ t \in Seq(S) /\ Len(t) = Len(a) + Len(b) /\ Len(a) \in Nat /\ Len(b) \in Nat
      /\ DOMAIN a = 1..Len(a) /\ DOMAIN b = 1..Len(b) /\ DOMAIN t = 1..Len(a) + Len(b)
      /\ \A i \in 1..Len(a) : t[i] = a[i]
      /\ \A i \in Len(a) + 1..Len(a) + Len(b) : i - Len(a) \in DOMAIN b /\ t[i] = b[i - Len(a)]
  OBVIOUS
<1> HIDE DEF t
<1>2. First(a) \subseteq First(t)
  BY <1>1 DEF First
<1>3. First(t) \subseteq First(a)
  <2> SUFFICES ASSUME NEW i \in First(t) PROVE i \in First(a)
    OBVIOUS
  <2>1. i \in DOMAIN t /\ \A j \in 1..i - 1 : t[j] # t[i]
    BY DEF First
  <2>2. CASE i \in 1..Len(a)
    BY <1>1, <2>1, <2>2 DEF First
  <2>3. CASE i \in Len(a) + 1..Len(a) + Len(b)
    <3>1. t[i] \in LinesOf(a)
      BY <1>1, <2>3 DEF LinesOf
    <3>2. PICK j \in 1..Len(a) : t[j] = t[i]
      BY <1>1, <3>1 DEF LinesOf
    <3> QED BY <1>1, <2>1, <2>3, <3>2
  <2> QED BY <1>1, <2>1, <2>2, <2>3
<1>4. MovesOnto(phi, First(a), First(t)) /\ \A i \in First(a) : t[phi[i]] = a[i]
  BY <1>1, <1>2, <1>3 DEF First, MovesOnto
<1> HIDE DEF phi
<1>7. Distinct(t) = Distinct(a)
  BY <1>1, <1>4, SameDistinct
<1> QED BY <1>7 DEF t

\* A line at the end is added once.
LEMMA OneMore ==
  ASSUME NEW S, NEW a \in Seq(S), NEW e \in S
  PROVE  Distinct(Append(a, e)) = IF e \in LinesOf(a) THEN Distinct(a)
                                                      ELSE Append(Distinct(a), e)
<1> DEFINE t == Append(a, e)
           n == Len(a)
<1>1. /\ n \in Nat /\ t \in Seq(S) /\ Len(t) = n + 1 /\ t[n + 1] = e
      /\ DOMAIN a = 1..n /\ DOMAIN t = 1..n + 1 /\ \A i \in 1..n : t[i] = a[i]
  OBVIOUS
<1>2. CASE e \in LinesOf(a)
  <2>1. t = a \o <<e>> /\ <<e>> \in Seq(S) /\ LinesOf(<<e>>) \subseteq LinesOf(a)
    BY <1>2 DEF LinesOf
  <2> QED BY <1>2, <2>1, NothingNew
<1>3. CASE e \notin LinesOf(a)
  <2> DEFINE F == First(a)
             G == First(t)
             c == Cardinality(F)
  <2> HIDE DEF t, n
  <2>1. F \in SUBSET (1..n) /\ G \in SUBSET (1..n + 1) /\ G = F \cup {n + 1} /\ n + 1 \notin F
    BY <1>1, <1>3 DEF First, LinesOf
  <2> HIDE DEF F, G
  <2>2. IsFiniteSet(F) /\ c \in Nat /\ Cardinality(G) = c + 1
    BY <1>1, <2>1, RankGrows, FS_AddElement
  <2>3. \A i \in F : UpTo(G, i) = UpTo(F, i)
    BY <1>1, <2>1 DEF UpTo
  <2>4. UpTo(G, n + 1) = G
    <3>1. \A i \in G : i <= n + 1
      BY <1>1, <2>1
    <3> QED BY <3>1 DEF UpTo
  <2>5. \A k \in 1..c : Nth(F, k) \in F /\ Rank(F, Nth(F, k)) = k
    BY <1>1, <2>1, NthFacts
  <2>6. \A i \in G : Nth(G, Rank(G, i)) = i
    <3>1. PICK m : m = n + 1
      OBVIOUS
    <3>2. m \in Nat /\ G \in SUBSET (1..m)
      BY <1>1, <2>1, <3>1
    <3> QED BY <3>2, NthFacts
  <2>7. \A k \in 1..c : Nth(G, k) = Nth(F, k)
    <3> TAKE k \in 1..c
    <3>1. Nth(F, k) \in G /\ Rank(G, Nth(F, k)) = k
      BY <2>1, <2>3, <2>5 DEF Rank
    <3> QED BY <2>6, <3>1
  <2>8. Nth(G, c + 1) = n + 1
    <3>1. n + 1 \in G /\ Rank(G, n + 1) = c + 1
      BY <2>1, <2>2, <2>4 DEF Rank
    <3> QED BY <2>6, <3>1
  <2>9. Distinct(t) = [k \in 1..c + 1 |-> IF k = c + 1 THEN e ELSE a[Nth(F, k)]]
    <3>1. Distinct(t) = [k \in 1..c + 1 |-> t[Nth(G, k)]]
      BY <2>2, DistinctIs DEF G
    <3>2. \A k \in 1..c + 1 : t[Nth(G, k)] = IF k = c + 1 THEN e ELSE a[Nth(F, k)]
      <4> TAKE k \in 1..c + 1
      <4>1. CASE k = c + 1
        BY <1>1, <2>8, <4>1
      <4>2. CASE k \in 1..c
        <5>1. Nth(G, k) = Nth(F, k) /\ Nth(F, k) \in 1..n
          BY <2>1, <2>5, <2>7, <4>2
        <5> QED BY <1>1, <2>2, <4>2, <5>1
      <4> QED BY <2>2, <4>1, <4>2
    <3> QED BY <3>1, <3>2
  <2>10. /\ Distinct(a) = [k \in 1..c |-> a[Nth(F, k)]]
         /\ Distinct(a) \in Seq(S) /\ Len(Distinct(a)) = c
    BY DistinctIs, DistinctLines DEF F
  <2>11. Append(Distinct(a), e) = [k \in 1..c + 1 |-> IF k = c + 1 THEN e ELSE a[Nth(F, k)]]
    BY <2>2, <2>10
  <2> QED BY <1>3, <2>9, <2>11 DEF t
<1> QED BY <1>2, <1>3

\* First occurrences in two texts laid end to end.
New(a, b) == {j \in First(b) : b[j] \notin LinesOf(a)}

LEMMA FirstOfConcat ==
  ASSUME NEW S, NEW a \in Seq(S), NEW b \in Seq(S)
  PROVE  First(a \o b) = First(a) \cup {Len(a) + j : j \in New(a, b)}
<1> DEFINE t == a \o b
           n == Len(a)
<1>1. /\ n \in Nat /\ Len(b) \in Nat /\ DOMAIN t = 1..n + Len(b)
      /\ DOMAIN a = 1..n /\ DOMAIN b = 1..Len(b)
      /\ \A i \in 1..n : t[i] = a[i]
      /\ \A j \in 1..Len(b) : t[n + j] = b[j]
  OBVIOUS
<1> HIDE DEF t, n
<1>2. \A i \in 1..n : i \in First(t) <=> i \in First(a)
  BY <1>1 DEF First
<1>3. ASSUME NEW j \in 1..Len(b) PROVE n + j \in First(t) <=> j \in New(a, b)
  <2>1. n + j \in First(t) <=> \A i \in 1..n + j - 1 : t[i] # b[j]
    BY <1>1 DEF First
  <2>2. (\A i \in 1..n + j - 1 : t[i] # b[j])
          <=> (\A i \in 1..n : a[i] # b[j]) /\ (\A k \in 1..j - 1 : b[k] # b[j])
    <3>1. ASSUME \A i \in 1..n + j - 1 : t[i] # b[j]
          PROVE  (\A i \in 1..n : a[i] # b[j]) /\ (\A k \in 1..j - 1 : b[k] # b[j])
      <4>1. \A k \in 1..j - 1 : n + k \in 1..n + j - 1 /\ t[n + k] = b[k]
        BY <1>1
      <4>2. \A i \in 1..n : i \in 1..n + j - 1 /\ t[i] = a[i]
        BY <1>1
      <4> QED BY <3>1, <4>1, <4>2
    <3>2. ASSUME \A i \in 1..n : a[i] # b[j], \A k \in 1..j - 1 : b[k] # b[j],
                 NEW i \in 1..n + j - 1
          PROVE  t[i] # b[j]
      <4>1. CASE i \in 1..n
        BY <1>1, <3>2, <4>1
      <4>2. CASE i \notin 1..n
        <5>1. PICK k \in 1..j - 1 : i = n + k
          <6>1. i - n \in 1..j - 1 /\ i = n + (i - n)
            BY <1>1, <4>2
          <6> QED BY <6>1
        <5> QED BY <1>1, <3>2, <5>1
      <4> QED BY <4>1, <4>2
    <3> QED BY <3>1, <3>2
  <2>3. b[j] \notin LinesOf(a) <=> \A i \in 1..n : a[i] # b[j]
    BY <1>1 DEF LinesOf
  <2> QED BY <1>1, <2>1, <2>2, <2>3 DEF New, First
<1>4. \A i \in First(t) : i \in 1..n \/ \E j \in 1..Len(b) : i = n + j
  <2> TAKE i \in First(t)
  <2>1. i \in 1..n + Len(b)
    BY <1>1 DEF First
  <2>2. i \in 1..n \/ (i - n \in 1..Len(b) /\ i = n + (i - n))
    BY <1>1, <2>1
  <2> QED BY <2>2
<1>5. First(a) \subseteq 1..n /\ New(a, b) \subseteq 1..Len(b)
  BY <1>1 DEF First, New
<1>6. First(t) = First(a) \cup {n + j : j \in New(a, b)}
  BY <1>2, <1>3, <1>4, <1>5
<1> QED BY <1>6 DEF t, n

\* De-duplicating a text before another is read after it changes nothing.
LEMMA DistinctOfPrefix ==
  ASSUME NEW S, NEW a \in Seq(S), NEW b \in Seq(S)
  PROVE  Distinct(Distinct(a) \o b) = Distinct(a \o b)
<1> DEFINE d == Distinct(a)
           c == Len(d)
           n == Len(a)
           F == First(a)
           N == New(a, b)
           phi == [i \in F \cup {n + j : j \in N} |-> IF i \in F THEN Rank(F, i) ELSE c + (i - n)]
<1>1. /\ n \in Nat /\ Len(b) \in Nat /\ F \in SUBSET (1..n) /\ N \in SUBSET (1..Len(b))
      /\ \A i, j \in F : a[i] = a[j] => i = j
  BY FirstFacts DEF New
<1>2. /\ d \in Seq(S) /\ LinesOf(d) = LinesOf(a) /\ c = Cardinality(F) /\ c \in Nat
      /\ DOMAIN d = 1..c /\ \A k \in 1..c : Nth(F, k) \in F /\ d[k] = a[Nth(F, k)]
  BY DistinctLines
<1> HIDE DEF d, c
<1>3. First(d) = 1..c
  <2>1. ASSUME NEW k \in 1..c, NEW m \in 1..c, d[k] = d[m] PROVE k = m
    <3>1. Nth(F, k) = Nth(F, m)
      BY <1>1, <1>2, <2>1
    <3>2. Rank(F, Nth(F, k)) = k /\ Rank(F, Nth(F, m)) = m
      BY <1>1, <1>2, NthFacts
    <3> QED BY <3>1, <3>2
  <2>2. \A k \in 1..c : \A m \in 1..k - 1 : m \in 1..c /\ m # k
    BY <1>2
  <2>3. \A k \in 1..c : \A m \in 1..k - 1 : d[m] # d[k]
    BY <2>1, <2>2
  <2> QED BY <1>2, <2>3 DEF First
<1>4. New(d, b) = N
  BY <1>2 DEF New
<1>5. /\ First(a \o b) = F \cup {n + j : j \in N}
      /\ First(d \o b) = 1..c \cup {c + j : j \in N}
  BY <1>2, <1>3, <1>4, FirstOfConcat DEF c
<1>6. /\ \A i \in F : phi[i] = Rank(F, i) /\ phi[i] \in 1..c /\ Nth(F, phi[i]) = i
      /\ \A i, k \in F : i < k => phi[i] < phi[k]
      /\ \A k \in 1..c : Nth(F, k) \in F /\ phi[Nth(F, k)] = k
  BY <1>1, <1>2, RankGrows, NthFacts
<1>7. \A j \in N : phi[n + j] = c + j /\ n + j \notin F
  BY <1>1, <1>2
<1> HIDE DEF phi, F, N, n
<1>8. \A i \in F : i \in 1..n /\ i \in Nat /\ phi[i] \in Nat
  BY <1>1, <1>2, <1>6
<1>9. \A j \in N : j \in 1..Len(b) /\ j \in Nat
  BY <1>1
<1>10. MovesOnto(phi, F \cup {n + j : j \in N}, 1..c \cup {c + j : j \in N})
  <2>1. \A i \in F \cup {n + j : j \in N} : phi[i] \in 1..c \cup {c + j : j \in N}
    BY <1>6, <1>7
  <2>2. \A g \in 1..c \cup {c + j : j \in N} : \E i \in F \cup {n + j : j \in N} : phi[i] = g
    BY <1>6, <1>7
  <2>3. ASSUME NEW i \in F \cup {n + j : j \in N}, NEW k \in F \cup {n + j : j \in N}, i < k
        PROVE  phi[i] < phi[k]
    <3>1. CASE i \in F /\ k \in F
      BY <1>6, <2>3, <3>1
    <3>2. CASE i \in F /\ k \notin F
      <4>1. PICK j \in N : k = n + j
        BY <3>2
      <4> QED BY <1>2, <1>6, <1>7, <1>9, <3>2, <4>1
    <3>3. CASE i \notin F /\ k \in F
      <4>1. PICK j \in N : i = n + j
        BY <3>3
      <4>2. k \in 1..n /\ j \in Nat
        BY <1>8, <1>9, <3>3
      <4> QED BY <1>1, <2>3, <4>1, <4>2
    <3>4. CASE i \notin F /\ k \notin F
      <4>1. PICK j \in N : i = n + j
        BY <3>4
      <4>2. PICK m \in N : k = n + m
        BY <3>4
      <4> QED BY <1>1, <1>2, <1>7, <1>9, <2>3, <4>1, <4>2
    <3> QED BY <3>1, <3>2, <3>3, <3>4
  <2> QED BY <2>1, <2>2, <2>3 DEF MovesOnto
<1>11. \A i \in F \cup {n + j : j \in N} : (d \o b)[phi[i]] = (a \o b)[i]
  <2>1. ASSUME NEW i \in F PROVE (d \o b)[phi[i]] = (a \o b)[i]
    <3>1. phi[i] \in 1..c /\ i \in 1..n /\ d[phi[i]] = a[i]
      BY <1>2, <1>6, <1>8
    <3> QED BY <1>2, <3>1 DEF n, c
  <2>2. ASSUME NEW j \in N PROVE (d \o b)[phi[n + j]] = (a \o b)[n + j]
    <3>1. phi[n + j] = c + j /\ j \in 1..Len(b)
      BY <1>7, <1>9
    <3> QED BY <1>2, <3>1 DEF n, c
  <2> QED BY <2>1, <2>2
<1>12. /\ a \o b \in Seq(S) /\ d \o b \in Seq(S)
       /\ MovesOnto(phi, First(a \o b), First(d \o b))
       /\ \A i \in First(a \o b) : (d \o b)[phi[i]] = (a \o b)[i]
  <2>1. a \o b \in Seq(S) /\ d \o b \in Seq(S)
    BY <1>2
  <2> QED BY <1>5, <1>10, <1>11, <2>1, Zenon
<1>13. Distinct(d \o b) = Distinct(a \o b)
  <2>1. PICK s, t : s = a \o b /\ t = d \o b
    OBVIOUS
  <2>2. /\ s \in Seq(S) /\ t \in Seq(S) /\ MovesOnto(phi, First(s), First(t))
        /\ \A i \in First(s) : t[phi[i]] = s[i]
    BY <1>12, <2>1
  <2>3. Distinct(t) = Distinct(s)
    BY <2>2, SameDistinct, Zenon
  <2> QED BY <2>1, <2>3
<1> QED BY <1>13 DEF d

------------------------------------------------------------------------------
(* The mechanism on its own *)

m == proc[Mechanism]
AllLines == MechanismLines \cup {Foreign}
Text == Seq(AllLines)
Receipts == [local : SUBSET Evaluations, mirror : SUBSET Evaluations]

Reading == {"readLocal", "readMirror", "writeLocal", "writeMirror", "readReceipts"}
Certifying == {"truncateLocal", "receiptLocal", "truncateMirror", "receiptMirror"}
Appending == {"appendLocal", "appendMirror", "certifyLocal", "certifyMirror"}
Guarding == {"operator", "operatorDone", "undoLocal", "restoreLocal", "undoMirror",
             "restoreMirror"}
Work == [pc : {"down", "ready"} \cup Reading \cup Certifying \cup Appending \cup Guarding,
         line : AllLines, text : Text, copy : Text, seen : Receipts]

CopyShape ==
  /\ local \in Text /\ mirror \in Text /\ receipts \in Receipts
  /\ proc \in [{Mechanism} -> Work]
  /\ m.pc \in Appending => m.line \in MechanismLines
  /\ m.pc \in {"certifyLocal", "certifyMirror"} => m.line \in Evaluations

\* What the two copies are at each step of a rewrite, an append or a restore.
CopiesInv ==
  /\ m.pc \in {"ready", "readReceipts", "appendLocal", "certifyLocal", "certifyMirror"}
               \cup Certifying
       => local = mirror
  /\ m.pc = "appendMirror" => local = Append(mirror, m.line)
  /\ m.pc = "readMirror" => m.text = Distinct(local)
  /\ m.pc = "writeLocal" => m.text = Distinct(local \o mirror)
  /\ m.pc = "writeMirror" => /\ local = m.text /\ Distinct(local) = local
                             /\ Distinct(local \o mirror) = local
  /\ m.pc \in Guarding => m.text = m.copy
  /\ m.pc \in {"operator", "undoMirror", "restoreMirror"} => local = m.text
  /\ m.pc \in {"operatorDone", "undoLocal"} =>
       local \in {m.text, Append(m.text, Foreign), << >>}
  /\ m.pc = "restoreLocal" => local = << >>
  /\ m.pc \in Guarding \ {"restoreMirror"} => mirror = m.text
  /\ m.pc = "restoreMirror" => mirror = << >>

\* Acknowledged evaluations, and where their receipts are: each file has them but
\* while it is rewritten, and after a kill there one of the two still does.
Evals == acked \cap Evaluations
Full == Evals \subseteq receipts.local /\ Evals \subseteq receipts.mirror
ReceiptsInv ==
  /\ m.pc = "certifyMirror" => m.line \in receipts.local
  /\ budget.crashes <= 1 =>
       /\ m.pc \in {"ready"} \cup Appending \cup Guarding => Full
       /\ m.pc \in Guarding \cup Certifying => Evals \subseteq m.seen.local
                                               /\ Evals \subseteq m.seen.mirror
       /\ m.pc \in {"down"} \cup Reading => /\ Evals \subseteq receipts.local \cup receipts.mirror
                                            /\ budget.crashes = 0 => Full
       /\ m.pc = "truncateLocal" /\ budget.crashes = 0 => Full
       /\ m.pc = "receiptLocal" /\ budget.crashes = 0 => Evals \subseteq receipts.mirror
       /\ m.pc \in {"truncateMirror", "receiptMirror"} => Evals \subseteq receipts.local

\* What append_event returned for, or is writing the receipt of, is in the ledger.
AckedInv == /\ AckedStays
            /\ m.pc \in {"certifyLocal", "certifyMirror"} => m.line \in LinesOf(Holding)

Budget == budget \in [{"appends", "operators", "crashes", "reads"} -> Nat]

LedgerInv == CopyShape /\ Budget /\ CopiesInv /\ ReceiptsInv /\ AckedInv /\ OperatorLeavesNoLine

LEMMA Steps ==
  ASSUME Readers = {}, LedgerNext
  PROVE  \/ StartEnsure(Mechanism) \/ ReadLocal(Mechanism) \/ ReadMirror(Mechanism)
         \/ WriteLocal(Mechanism) \/ WriteMirror(Mechanism)
         \/ ReadReceipts(Mechanism) \/ WriteReceipts(Mechanism)
         \/ \E e \in MechanismLines : StartAppend(e)
         \/ AppendLocal \/ AppendMirror \/ CertifyLocal \/ CertifyMirror
         \/ Snapshot \/ OperatorWrites \/ OperatorEnds \/ RestoreLocal \/ RestoreMirror
         \/ Crash
BY DEF LedgerNext, Ensure, Processes

LEMMA GotoFacts ==
  ASSUME CopyShape, NEW pc, Goto(Mechanism, pc)
  PROVE  m' = [m EXCEPT !.pc = pc] /\ proc' = [proc EXCEPT ![Mechanism] = m']
BY DEF CopyShape, Goto, m

LEMMA RestFacts ==
  ASSUME CopyShape, NEW pc, Rest(Mechanism, pc)
  PROVE  m' = Resting(pc) /\ proc' = [proc EXCEPT ![Mechanism] = m']
BY DEF CopyShape, Rest, m

\* The four writes of the receipts files, one after the other.
LEMMA ReceiptWrites ==
  ASSUME CopyShape, WriteReceipts(Mechanism)
  PROVE  /\ UNCHANGED <<local, mirror, acked, budget>>
         /\ \/ /\ m.pc = "truncateLocal" /\ Goto(Mechanism, "receiptLocal")
               /\ receipts' = [receipts EXCEPT !.local = {}]
            \/ /\ m.pc = "receiptLocal" /\ Goto(Mechanism, "truncateMirror")
               /\ receipts' = [receipts EXCEPT !.local = m.seen.local]
            \/ /\ m.pc = "truncateMirror" /\ Goto(Mechanism, "receiptMirror")
               /\ receipts' = [receipts EXCEPT !.mirror = {}]
            \/ /\ m.pc = "receiptMirror" /\ Rest(Mechanism, "ready")
               /\ receipts' = [receipts EXCEPT !.mirror = m.seen.mirror]
BY DEF WriteReceipts, ReceiptWrite, m, At

\* What a step makes of the mechanism's work keeps its shape.
LEMMA WorkKept ==
  ASSUME CopyShape, proc' = [proc EXCEPT ![Mechanism] = m'], m' \in Work,
         local' \in Text, mirror' \in Text, receipts' \in Receipts,
         m'.pc \in Appending => m'.line \in MechanismLines,
         m'.pc \in {"certifyLocal", "certifyMirror"} => m'.line \in Evaluations
  PROVE  CopyShape'
BY DEF CopyShape, m

LEMMA ShapeKept ==
  ASSUME Readers = {}, CopyShape, LedgerNext
  PROVE  CopyShape'
<1> USE DEF Work, Reading, Certifying, Appending, Guarding, Resting
<1>1. /\ Foreign \in AllLines /\ MechanismLines \subseteq AllLines
      /\ << >> \in Text /\ [local |-> {}, mirror |-> {}] \in Receipts
  BY DEF AllLines, Text, Receipts
<1>0. /\ m \in Work /\ local \in Text /\ mirror \in Text /\ receipts \in Receipts
      /\ m.pc \in Appending => m.line \in MechanismLines
      /\ m.pc \in {"certifyLocal", "certifyMirror"} => m.line \in Evaluations
  BY DEF CopyShape, m
<1>19. ASSUME NEW pc \in {"down", "ready"} \cup Reading \cup Certifying \cup Appending \cup Guarding
      PROVE  [m EXCEPT !.pc = pc] \in Work /\ [m EXCEPT !.pc = pc].pc = pc
             /\ [m EXCEPT !.pc = pc].line = m.line
  BY <1>0
<1>18. ASSUME NEW pc \in {"down", "ready"} PROVE Resting(pc) \in Work /\ Resting(pc).pc = pc
  BY <1>1
<1>2. CASE StartEnsure(Mechanism)
  BY <1>0, <1>2, <1>19, GotoFacts, WorkKept DEF StartEnsure, files
<1>3. CASE ReadLocal(Mechanism)
  <2>1. Distinct(local) \in Text
    BY DistinctLines DEF Text, CopyShape
  <2>2. m' = [m EXCEPT !.pc = "readMirror", !.text = Distinct(local)]
        /\ proc' = [proc EXCEPT ![Mechanism] = m']
    BY <1>3 DEF ReadLocal, m, CopyShape
  <2>3. m' \in Work /\ m'.pc = "readMirror"
    BY <1>0, <2>1, <2>2
  <2> QED BY <1>0, <1>3, <2>2, <2>3, WorkKept DEF ReadLocal, files
<1>4. CASE ReadMirror(Mechanism)
  <2>1. m.text \o mirror \in Text
    BY <1>0 DEF Text
  <2>2. Distinct(m.text \o mirror) \in Text
    BY <2>1, DistinctLines DEF Text
  <2>3. m' = [m EXCEPT !.pc = "writeLocal", !.text = Distinct(m.text \o mirror)]
        /\ proc' = [proc EXCEPT ![Mechanism] = m']
    BY <1>4 DEF ReadMirror, m, CopyShape
  <2>4. m' \in Work /\ m'.pc = "writeLocal"
    BY <1>0, <2>2, <2>3
  <2> QED BY <1>0, <1>4, <2>3, <2>4, WorkKept DEF ReadMirror, files
<1>5. CASE WriteLocal(Mechanism)
  <2>1. local' \in Text /\ UNCHANGED <<mirror, receipts>>
    BY <1>0, <1>5 DEF WriteLocal, m
  <2> QED BY <1>0, <1>5, <1>19, <2>1, GotoFacts, WorkKept DEF WriteLocal
<1>6. CASE WriteMirror(Mechanism)
  <2>1. mirror' \in Text /\ UNCHANGED <<local, receipts>>
    BY <1>0, <1>6 DEF WriteMirror, m
  <2> QED BY <1>0, <1>6, <1>19, <2>1, GotoFacts, WorkKept DEF WriteMirror
<1>7. CASE ReadReceipts(Mechanism)
  <2> DEFINE all == receipts.local \cup receipts.mirror
  <2>1. [local |-> all, mirror |-> all] \in Receipts
    BY <1>0 DEF Receipts
  <2> HIDE DEF all
  <2>2. \/ m' = Resting("ready")
        \/ m' = [m EXCEPT !.pc = "truncateLocal", !.seen = [local |-> all, mirror |-> all]]
    BY <1>7, RestFacts DEF ReadReceipts, m, CopyShape, all
  <2>3. proc' = [proc EXCEPT ![Mechanism] = m']
    BY <1>7, RestFacts DEF ReadReceipts, m, CopyShape
  <2>4. m' \in Work /\ m'.pc \in {"ready", "truncateLocal"}
    BY <1>0, <1>18, <2>1, <2>2
  <2> QED BY <1>0, <1>7, <2>3, <2>4, WorkKept DEF ReadReceipts, files
<1>8. CASE WriteReceipts(Mechanism)
  <2>1. UNCHANGED <<local, mirror>> /\ receipts' \in Receipts
    BY <1>0, <1>8, ReceiptWrites DEF Receipts
  <2>2. \/ \E pc \in Certifying : m' = [m EXCEPT !.pc = pc]
        \/ m' = Resting("ready")
    BY <1>8, ReceiptWrites, GotoFacts, RestFacts
  <2>3. proc' = [proc EXCEPT ![Mechanism] = m']
    BY <1>8, ReceiptWrites, GotoFacts, RestFacts
  <2>4. m' \in Work /\ m'.pc \in {"ready"} \cup Certifying
    BY <1>0, <1>18, <1>19, <2>2
  <2> QED BY <1>0, <2>1, <2>3, <2>4, WorkKept
<1>9. CASE \E e \in MechanismLines : StartAppend(e)
  <2>1. PICK e \in MechanismLines : StartAppend(e)
    BY <1>9
  <2>2. m' = [m EXCEPT !.pc = "appendLocal", !.line = e]
        /\ proc' = [proc EXCEPT ![Mechanism] = m']
    BY <2>1 DEF StartAppend, m, CopyShape
  <2>3. m' \in Work /\ m'.pc = "appendLocal" /\ m'.line \in MechanismLines
    BY <1>0, <1>1, <2>2
  <2> QED BY <1>0, <2>1, <2>2, <2>3, WorkKept DEF StartAppend, files
<1>10. CASE AppendLocal
  <2>1. Append(local, m.line) \in Text
    BY <1>0 DEF Text
  <2>2. /\ Goto(Mechanism, "appendMirror") /\ local' \in Text /\ UNCHANGED <<mirror, receipts>>
        /\ m.pc = "appendLocal"
    BY <1>10, <2>1 DEF AppendLocal, m, At
  <2> QED BY <1>0, <1>19, <2>2, GotoFacts, WorkKept
<1>11. CASE AppendMirror
  <2>1. Append(mirror, m.line) \in Text
    BY <1>0 DEF Text
  <2>2. \/ m' = Resting("ready")
        \/ m.line \in Evaluations /\ m' = [m EXCEPT !.pc = "certifyLocal"]
    BY <1>11, GotoFacts, RestFacts DEF AppendMirror, m
  <2>3. proc' = [proc EXCEPT ![Mechanism] = m'] /\ UNCHANGED <<local, receipts>>
        /\ mirror' = Append(mirror, m.line)
    BY <1>11, GotoFacts, RestFacts DEF AppendMirror, m
  <2>4. /\ m' \in Work /\ m'.pc \in {"ready", "certifyLocal"}
        /\ m'.pc = "certifyLocal" => m'.line \in Evaluations
    <3>1. CASE m' = Resting("ready")
      BY <1>18, <3>1
    <3>2. CASE m.line \in Evaluations /\ m' = [m EXCEPT !.pc = "certifyLocal"]
      BY <1>19, <3>2
    <3> QED BY <2>2, <3>1, <3>2
  <2> QED BY <1>0, <2>1, <2>3, <2>4, WorkKept DEF MechanismLines
<1>12. CASE CertifyLocal
  <2>1. m.pc = "certifyLocal" /\ receipts' = [receipts EXCEPT !.local = @ \cup {m.line}]
        /\ UNCHANGED <<local, mirror>> /\ Goto(Mechanism, "certifyMirror")
    BY <1>12 DEF CertifyLocal, At, m
  <2>2. receipts' \in Receipts /\ m.line \in MechanismLines /\ m.line \in Evaluations
    BY <1>0, <2>1 DEF Receipts
  <2> QED BY <1>0, <1>19, <2>1, <2>2, GotoFacts, WorkKept, SMTT(30)
<1>13. CASE CertifyMirror
  <2>1. m.pc = "certifyMirror" /\ receipts' = [receipts EXCEPT !.mirror = @ \cup {m.line}]
        /\ UNCHANGED <<local, mirror>> /\ Rest(Mechanism, "ready")
    BY <1>13 DEF CertifyMirror, At, m
  <2>2. receipts' \in Receipts
    BY <1>0, <2>1 DEF Receipts
  <2> QED BY <1>0, <1>18, <2>1, <2>2, RestFacts, WorkKept
<1>14. CASE Snapshot
  <2>1. m' = [m EXCEPT !.pc = "operator", !.text = local, !.copy = mirror, !.seen = receipts]
        /\ proc' = [proc EXCEPT ![Mechanism] = m']
    BY <1>14 DEF Snapshot, m, CopyShape
  <2>2. m' \in Work /\ m'.pc = "operator"
    BY <1>0, <2>1
  <2> QED BY <1>0, <1>14, <2>1, <2>2, WorkKept DEF Snapshot, files
<1>15. CASE OperatorWrites
  <2>1. Append(local, Foreign) \in Text
    BY <1>0, <1>1 DEF Text
  <2>2. local' \in Text /\ UNCHANGED <<mirror, receipts>> /\ Goto(Mechanism, "operatorDone")
    BY <1>1, <1>15, <2>1 DEF OperatorWrites
  <2> QED BY <1>0, <1>19, <2>2, GotoFacts, WorkKept
<1>16. CASE OperatorEnds \/ RestoreLocal \/ RestoreMirror
  <2>1. PICK pc \in Guarding \cup {"truncateLocal"} : Goto(Mechanism, pc)
    BY <1>16 DEF OperatorEnds, RestoreLocal, RestoreMirror
  <2>2. UNCHANGED receipts /\ local' \in Text /\ mirror' \in Text
    BY <1>0, <1>1, <1>16 DEF OperatorEnds, RestoreLocal, RestoreMirror, files, m
  <2> QED BY <1>0, <1>19, <2>1, <2>2, GotoFacts, WorkKept
<1>17. CASE Crash
  BY <1>0, <1>17, <1>18, RestFacts, WorkKept DEF Crash, files
<1> QED BY <1>2, <1>3, <1>4, <1>5, <1>6, <1>7, <1>8, <1>9, <1>10, <1>11, <1>12, <1>13,
           <1>14, <1>15, <1>16, <1>17, Steps

\* Distinct on the texts the mechanism builds.
LEMMA TextFacts ==
  /\ \A a \in Text : /\ Distinct(a) \in Text /\ Distinct(Distinct(a)) = Distinct(a)
                     /\ Distinct(a \o a) = Distinct(a)
                     /\ Distinct(a \o << >>) = Distinct(a) /\ Distinct(<< >> \o a) = Distinct(a)
                     /\ LinesOf(Distinct(a)) = LinesOf(a)
  /\ \A a, b \in Text : /\ a \o b \in Text /\ LinesOf(a \o b) = LinesOf(a) \cup LinesOf(b)
                        /\ Distinct(Distinct(a) \o b) = Distinct(a \o b)
                        /\ Distinct(Distinct(a \o b) \o b) = Distinct(a \o b)
  /\ \A a \in Text, e \in AllLines :
       /\ Append(a, e) \in Text /\ LinesOf(Append(a, e)) = LinesOf(a) \cup {e}
       /\ Distinct(Append(a, e) \o a) = Distinct(Append(a, e))
       /\ Distinct(Append(a, e)) = IF e \in LinesOf(Distinct(a)) THEN Distinct(a)
                                                                 ELSE Append(Distinct(a), e)
<1>1. ASSUME NEW a \in Text
      PROVE  /\ Distinct(a) \in Text /\ LinesOf(Distinct(a)) = LinesOf(a)
             /\ Distinct(a \o a) = Distinct(a)
             /\ a \o << >> = a /\ << >> \o a = a /\ << >> \in Text
  BY DistinctLines, NothingNew DEF Text
<1>2. ASSUME NEW a \in Text, NEW b \in Text
      PROVE  /\ a \o b \in Text /\ LinesOf(a \o b) = LinesOf(a) \cup LinesOf(b)
             /\ Distinct(Distinct(a) \o b) = Distinct(a \o b)
             /\ Distinct(Distinct(a \o b) \o b) = Distinct(a \o b)
  <2>1. a \in Seq(AllLines) /\ b \in Seq(AllLines) /\ a \o b \in Seq(AllLines)
    BY DEF Text
  <2>2. LinesOf(a \o b) = LinesOf(a) \cup LinesOf(b)
    <3>1. /\ DOMAIN a = 1..Len(a) /\ DOMAIN b = 1..Len(b) /\ Len(a) \in Nat /\ Len(b) \in Nat
          /\ DOMAIN (a \o b) = 1..Len(a) + Len(b)
          /\ \A i \in 1..Len(a) : (a \o b)[i] = a[i]
          /\ \A i \in 1..Len(b) : (a \o b)[Len(a) + i] = b[i]
      BY <2>1
    <3>2. \A i \in 1..Len(a) : i \in DOMAIN (a \o b)
      BY <3>1
    <3>3. \A i \in 1..Len(b) : Len(a) + i \in DOMAIN (a \o b)
      BY <3>1
    <3>4. ASSUME NEW i \in DOMAIN (a \o b) PROVE (a \o b)[i] \in LinesOf(a) \cup LinesOf(b)
      <4>1. CASE i \in 1..Len(a)
        BY <3>1, <4>1 DEF LinesOf
      <4>2. CASE i \notin 1..Len(a)
        <5>1. i - Len(a) \in 1..Len(b) /\ i = Len(a) + (i - Len(a))
          BY <3>1, <4>2
        <5>2. (a \o b)[i] = b[i - Len(a)]
          BY <3>1, <5>1
        <5> QED BY <3>1, <5>1, <5>2 DEF LinesOf
      <4> QED BY <4>1, <4>2
    <3>5. LinesOf(a \o b) \subseteq LinesOf(a) \cup LinesOf(b)
      <4>1. \A x \in LinesOf(a \o b) : \E i \in DOMAIN (a \o b) : x = (a \o b)[i]
        BY DEF LinesOf
      <4> QED BY <3>4, <4>1
    <3>6. LinesOf(a) \subseteq LinesOf(a \o b)
      BY <3>1, <3>2 DEF LinesOf
    <3>7. LinesOf(b) \subseteq LinesOf(a \o b)
      BY <3>1, <3>3 DEF LinesOf
    <3> QED BY <3>5, <3>6, <3>7
  <2>3. Distinct(Distinct(a) \o b) = Distinct(a \o b)
    BY <2>1, DistinctOfPrefix
  <2>4. Distinct(Distinct(a \o b) \o b) = Distinct((a \o b) \o b)
    <3>1. PICK c : c = a \o b
      OBVIOUS
    <3>2. c \in Seq(AllLines)
      BY <2>1, <3>1
    <3>3. Distinct(Distinct(c) \o b) = Distinct(c \o b)
      BY <2>1, <3>2, DistinctOfPrefix
    <3> QED BY <3>1, <3>3
  <2>5. Distinct((a \o b) \o b) = Distinct(a \o b)
    <3>1. PICK c : c = a \o b
      OBVIOUS
    <3>2. c \in Seq(AllLines) /\ LinesOf(b) \subseteq LinesOf(c)
      BY <2>1, <2>2, <3>1
    <3>3. Distinct(c \o b) = Distinct(c)
      BY <2>1, <3>2, NothingNew
    <3> QED BY <3>1, <3>3
  <2> QED BY <2>1, <2>2, <2>3, <2>4, <2>5 DEF Text
<1>3. ASSUME NEW a \in Text, NEW e \in AllLines
      PROVE  /\ Append(a, e) \in Text /\ LinesOf(Append(a, e)) = LinesOf(a) \cup {e}
             /\ Distinct(Append(a, e) \o a) = Distinct(Append(a, e))
             /\ Distinct(Append(a, e)) = IF e \in LinesOf(Distinct(a)) THEN Distinct(a)
                                                                      ELSE Append(Distinct(a), e)
  <2>1. PICK c : c = Append(a, e)
    OBVIOUS
  <2>2. a \in Seq(AllLines) /\ c \in Seq(AllLines) /\ c = a \o <<e>> /\ <<e>> \in Text
    BY <2>1 DEF Text
  <2>3. LinesOf(<<e>>) = {e}
    BY DEF LinesOf
  <2>4. LinesOf(c) = LinesOf(a) \cup {e}
    BY <1>2, <2>2, <2>3
  <2>5. Distinct(c \o a) = Distinct(c)
    BY <2>2, <2>4, NothingNew
  <2>6. Distinct(c) = IF e \in LinesOf(a) THEN Distinct(a) ELSE Append(Distinct(a), e)
    BY <2>1, <2>2, OneMore
  <2>7. LinesOf(Distinct(a)) = LinesOf(a) /\ c \in Text
    BY <1>1, <2>2 DEF Text
  <2> QED BY <2>1, <2>4, <2>5, <2>6, <2>7
<1>4. ASSUME NEW a \in Text PROVE Distinct(Distinct(a)) = Distinct(a)
  <2>1. Distinct(Distinct(a) \o << >>) = Distinct(a \o << >>)
    BY <1>1, <1>2
  <2> QED BY <1>1, <2>1
<1> QED BY <1>1, <1>2, <1>3, <1>4

LEMMA GotoFields ==
  ASSUME CopyShape, NEW pc, Goto(Mechanism, pc)
  PROVE  /\ m'.pc = pc /\ m'.line = m.line /\ m'.text = m.text /\ m'.copy = m.copy
         /\ m'.seen = m.seen
<1>1. m \in Work
  BY DEF CopyShape, m
<1> QED BY <1>1, GotoFacts DEF Work

\* The fields each of the other steps writes.
LEMMA OtherFields ==
  ASSUME CopyShape
  PROVE  /\ ReadLocal(Mechanism) => m'.pc = "readMirror" /\ m'.text = Distinct(local)
         /\ ReadMirror(Mechanism) => m'.pc = "writeLocal" /\ m'.text = Distinct(m.text \o mirror)
         /\ \A e : StartAppend(e) => m'.pc = "appendLocal" /\ m'.line = e
         /\ Snapshot => /\ m'.pc = "operator" /\ m'.text = local /\ m'.copy = mirror
                        /\ m'.seen = receipts
         /\ ReadReceipts(Mechanism) =>
              LET all == receipts.local \cup receipts.mirror
              IN  \/ all = {} /\ m'.pc = "ready"
                  \/ m'.pc = "truncateLocal" /\ m'.seen = [local |-> all, mirror |-> all]
         /\ \A pc : Rest(Mechanism, pc) => m'.pc = pc
<1>1. m \in Work
  BY DEF CopyShape, m
<1>2. /\ ReadLocal(Mechanism) => m'.pc = "readMirror" /\ m'.text = Distinct(local)
      /\ ReadMirror(Mechanism) => m'.pc = "writeLocal" /\ m'.text = Distinct(m.text \o mirror)
  BY <1>1 DEF CopyShape, m, Work, ReadLocal, ReadMirror
<1>3. \A e : StartAppend(e) => m'.pc = "appendLocal" /\ m'.line = e
  BY <1>1 DEF CopyShape, m, Work, StartAppend
<1>4. Snapshot => m'.pc = "operator" /\ m'.text = local /\ m'.copy = mirror /\ m'.seen = receipts
  BY <1>1 DEF CopyShape, m, Work, Snapshot
<1>5. \A pc : Rest(Mechanism, pc) => m'.pc = pc
  BY RestFacts DEF Resting
<1>6. ReadReceipts(Mechanism) =>
        LET all == receipts.local \cup receipts.mirror
        IN  \/ all = {} /\ m'.pc = "ready"
            \/ m'.pc = "truncateLocal" /\ m'.seen = [local |-> all, mirror |-> all]
  BY <1>1, <1>5 DEF CopyShape, m, Work, ReadReceipts
<1> QED BY <1>2, <1>3, <1>4, <1>5, <1>6

\* The two copies are what their step says after every step.
LEMMA CopiesKept ==
  ASSUME Readers = {}, CopyShape, CopiesInv, LedgerNext
  PROVE  CopiesInv'
<1> USE DEF Reading, Certifying, Appending, Guarding
<1>1. m \in Work /\ local \in Text /\ mirror \in Text
  BY DEF CopyShape, m
<1>2. CASE StartEnsure(Mechanism)
  BY <1>2, GotoFields DEF StartEnsure, files, CopiesInv
<1>3. CASE ReadLocal(Mechanism)
  BY <1>3, OtherFields DEF ReadLocal, files, CopiesInv
<1>4. CASE ReadMirror(Mechanism)
  <2>1. m.text = Distinct(local)
    BY <1>4 DEF ReadMirror, CopiesInv, At, m
  <2>2. m'.pc = "writeLocal" /\ m'.text = Distinct(local \o mirror) /\ UNCHANGED <<local, mirror>>
    BY <1>1, <1>4, <2>1, OtherFields, TextFacts DEF ReadMirror, files
  <2> QED BY <2>2 DEF CopiesInv
<1>5. CASE WriteLocal(Mechanism)
  <2>1. /\ m.text = Distinct(local \o mirror) /\ m'.pc = "writeMirror" /\ m'.text = m.text
        /\ local' = m.text /\ mirror' = mirror
    BY <1>5, GotoFields DEF WriteLocal, CopiesInv, At, m
  <2>2. Distinct(local') = local' /\ Distinct(local' \o mirror') = local'
    BY <1>1, <2>1, TextFacts
  <2> QED BY <2>1, <2>2 DEF CopiesInv
<1>6. CASE WriteMirror(Mechanism)
  <2>1. /\ m'.pc = "readReceipts" /\ mirror' = m.text /\ local' = local /\ local = m.text
    BY <1>6, GotoFields DEF WriteMirror, CopiesInv, At, m
  <2> QED BY <2>1 DEF CopiesInv
<1>7. CASE ReadReceipts(Mechanism)
  <2>1. m'.pc \in {"ready", "truncateLocal"} /\ UNCHANGED <<local, mirror>> /\ local = mirror
    BY <1>7, OtherFields DEF ReadReceipts, files, CopiesInv, At, m
  <2> QED BY <2>1 DEF CopiesInv
<1>8. CASE WriteReceipts(Mechanism)
  <2>1. m'.pc \in {"ready"} \cup Certifying /\ UNCHANGED <<local, mirror>> /\ local = mirror
    BY <1>8, ReceiptWrites, GotoFields, OtherFields DEF CopiesInv
  <2> QED BY <2>1 DEF CopiesInv
<1>9. CASE \E e \in MechanismLines : StartAppend(e)
  <2>1. m'.pc = "appendLocal" /\ UNCHANGED <<local, mirror>> /\ local = mirror
    BY <1>9, OtherFields DEF StartAppend, files, CopiesInv, At, m
  <2> QED BY <2>1 DEF CopiesInv
<1>10. CASE AppendLocal
  <2>1. /\ m'.pc = "appendMirror" /\ mirror' = mirror /\ local' = Append(local, m.line)
        /\ local = mirror /\ m'.line = m.line
    BY <1>10, GotoFields DEF AppendLocal, CopiesInv, At, m
  <2> QED BY <2>1 DEF CopiesInv
<1>11. CASE AppendMirror
  <2>1. /\ m'.pc \in {"ready", "certifyLocal"} /\ local' = local
        /\ local = Append(mirror, m.line) /\ mirror' = Append(mirror, m.line)
    BY <1>11, GotoFields, OtherFields DEF AppendMirror, CopiesInv, At, m
  <2> QED BY <2>1 DEF CopiesInv
<1>12. CASE CertifyLocal \/ CertifyMirror
  <2>1. m'.pc \in {"ready", "certifyMirror"} /\ UNCHANGED <<local, mirror>> /\ local = mirror
    BY <1>12, GotoFields, OtherFields DEF CertifyLocal, CertifyMirror, CopiesInv, At, m
  <2> QED BY <2>1 DEF CopiesInv
<1>13. CASE Snapshot
  <2>1. /\ m'.pc = "operator" /\ m'.text = local /\ m'.copy = mirror /\ local = mirror
        /\ UNCHANGED <<local, mirror>>
    BY <1>13, OtherFields DEF Snapshot, files, CopiesInv, At, m
  <2> QED BY <2>1 DEF CopiesInv
<1>14. CASE OperatorWrites
  <2>1. /\ m.pc = "operator" /\ m'.pc = "operatorDone" /\ m'.text = m.text /\ m'.copy = m.copy
        /\ local' \in {Append(local, Foreign), << >>} /\ mirror' = mirror
    BY <1>14, GotoFields DEF OperatorWrites, At, m
  <2> QED BY <2>1 DEF CopiesInv
<1>15. CASE OperatorEnds
  <2>1. /\ m.pc \in {"operator", "operatorDone"} /\ m'.pc = "undoLocal" /\ m'.text = m.text
        /\ m'.copy = m.copy /\ UNCHANGED <<local, mirror>>
    BY <1>15, GotoFields DEF OperatorEnds, files, m
  <2> QED BY <2>1 DEF CopiesInv
<1>16. CASE RestoreLocal
  <2>1. /\ \/ m.pc = "undoLocal" /\ m'.pc = "restoreLocal" /\ local' = << >>
           \/ m.pc = "restoreLocal" /\ m'.pc = "undoMirror" /\ local' = m.text
        /\ m'.text = m.text /\ m'.copy = m.copy /\ mirror' = mirror
    BY <1>16, GotoFields DEF RestoreLocal, At, m
  <2> QED BY <2>1 DEF CopiesInv
<1>17. CASE RestoreMirror
  <2>1. /\ \/ m.pc = "undoMirror" /\ m'.pc = "restoreMirror" /\ mirror' = << >>
           \/ m.pc = "restoreMirror" /\ m'.pc = "truncateLocal" /\ mirror' = m.copy
        /\ m'.text = m.text /\ m'.copy = m.copy /\ local' = local
    BY <1>17, GotoFields DEF RestoreMirror, At, m
  <2> QED BY <2>1 DEF CopiesInv
<1>18. CASE Crash
  <2>1. m'.pc = "down"
    BY <1>18, OtherFields DEF Crash
  <2> QED BY <2>1 DEF CopiesInv
<1> QED BY <1>2, <1>3, <1>4, <1>5, <1>6, <1>7, <1>8, <1>9, <1>10, <1>11, <1>12, <1>13,
           <1>14, <1>15, <1>16, <1>17, <1>18, Steps

LEMMA HoldingIs ==
  Holding = IF m.pc \in Guarding THEN Distinct(m.text \o m.copy) ELSE Distinct(local \o mirror)
BY DEF Holding, Guarded, Guarding, m

\* A step adds one new line to the end of the ledger, or leaves it as it is; only a
\* kill lets it be an operator's.
LEMMA LedgerGrows ==
  ASSUME Readers = {}, CopyShape, CopiesInv, LedgerNext
  PROVE  \/ Holding' = Holding
         \/ \E e \in AllLines : /\ e \notin LinesOf(Holding) /\ Holding' = Append(Holding, e)
                                /\ e \in MechanismLines \/ Crash
<1> USE DEF Reading, Certifying, Appending, Guarding
<1>1. /\ m \in Work /\ local \in Text /\ mirror \in Text
      /\ m.text \in Text /\ m.copy \in Text /\ m.line \in AllLines /\ Foreign \in AllLines
      /\ m.pc = "appendLocal" => m.line \in MechanismLines
  BY DEF CopyShape, m, Work, AllLines
<1>2. Holding' = IF m'.pc \in Guarding THEN Distinct(m'.text \o m'.copy)
                                      ELSE Distinct(local' \o mirror')
  BY DEF Holding, Guarded, Guarding, m
<1>3. \A a \in Text : /\ Distinct(a \o a) = Distinct(a) /\ Distinct(a \o << >>) = Distinct(a)
                      /\ Distinct(<< >> \o a) = Distinct(a)
  BY TextFacts
<1>4. CASE m.pc \notin Guarding /\ m'.pc \notin Guarding /\ UNCHANGED <<local, mirror>>
  BY <1>2, <1>4, HoldingIs
<1>5. CASE m.pc \in Guarding /\ m'.pc \in Guarding /\ m'.text = m.text /\ m'.copy = m.copy
  BY <1>2, <1>5, HoldingIs
<1>6. CASE StartEnsure(Mechanism)
  BY <1>4, <1>6, GotoFields DEF StartEnsure, files, m
<1>7. CASE ReadLocal(Mechanism) \/ ReadMirror(Mechanism) \/ ReadReceipts(Mechanism)
  BY <1>4, <1>7, OtherFields DEF ReadLocal, ReadMirror, ReadReceipts, files, m, At
<1>8. CASE WriteLocal(Mechanism)
  <2>1. /\ m.pc = "writeLocal" /\ m.text = Distinct(local \o mirror) /\ m'.pc = "writeMirror"
        /\ local' = m.text /\ mirror' = mirror
    BY <1>8, GotoFields DEF WriteLocal, CopiesInv, At, m
  <2>2. Distinct(local' \o mirror') = Distinct(local \o mirror)
    BY <1>1, <2>1, TextFacts
  <2> QED BY <1>2, <2>1, <2>2, HoldingIs
<1>9. CASE WriteMirror(Mechanism)
  <2>1. /\ m.pc = "writeMirror" /\ m'.pc = "readReceipts" /\ mirror' = local /\ local' = local
        /\ Distinct(local \o mirror) = local /\ Distinct(local) = local
    BY <1>9, GotoFields DEF WriteMirror, CopiesInv, At, m
  <2>2. Distinct(local' \o mirror') = local
    BY <1>1, <1>3, <2>1
  <2> QED BY <1>2, <2>1, <2>2, HoldingIs
<1>10. CASE WriteReceipts(Mechanism)
  BY <1>4, <1>10, ReceiptWrites, GotoFields, OtherFields
<1>11. CASE \E e \in MechanismLines : StartAppend(e)
  BY <1>4, <1>11, OtherFields DEF StartAppend, files, m, At
<1>12. CASE AppendLocal
  <2> DEFINE e == m.line
  <2>1. /\ m.pc = "appendLocal" /\ m'.pc = "appendMirror" /\ mirror' = local /\ local = mirror
        /\ local' = Append(local, e)
    BY <1>12, GotoFields DEF AppendLocal, CopiesInv, At, m
  <2>2. Holding = Distinct(local) /\ Holding' = Distinct(Append(local, e) \o local)
    BY <1>1, <1>2, <1>3, <2>1, HoldingIs
  <2>3. Holding' = IF e \in LinesOf(Holding) THEN Holding ELSE Append(Holding, e)
    <3>1. Distinct(Append(local, e) \o local) = Distinct(Append(local, e))
      BY <1>1, TextFacts
    <3>2. Distinct(Append(local, e)) = IF e \in LinesOf(Distinct(local)) THEN Distinct(local)
                                       ELSE Append(Distinct(local), e)
      BY <1>1, TextFacts
    <3> QED BY <2>2, <3>1, <3>2
  <2> QED BY <1>1, <2>1, <2>3
<1>13. CASE AppendMirror
  <2> DEFINE e == m.line
  <2>1. /\ m.pc = "appendMirror" /\ m'.pc \in {"ready", "certifyLocal"}
        /\ local = Append(mirror, e) /\ local' = local /\ mirror' = local
    BY <1>13, GotoFields, OtherFields DEF AppendMirror, CopiesInv, At, m
  <2>2. Distinct(local \o mirror) = Distinct(local) /\ Distinct(local' \o mirror') = Distinct(local)
    BY <1>1, <1>3, <2>1, TextFacts
  <2> QED BY <1>2, <2>1, <2>2, HoldingIs
<1>14. CASE CertifyLocal \/ CertifyMirror
  BY <1>4, <1>14, GotoFields, OtherFields DEF CertifyLocal, CertifyMirror, m, At
<1>15. CASE Snapshot
  BY <1>2, <1>15, OtherFields, HoldingIs DEF Snapshot, m, At
<1>16. CASE OperatorWrites \/ OperatorEnds
  BY <1>5, <1>16, GotoFields DEF OperatorWrites, OperatorEnds, m, At
<1>17. CASE RestoreLocal
  BY <1>5, <1>17, GotoFields DEF RestoreLocal, m, At
<1>18. CASE RestoreMirror
  <2>1. CASE m.pc = "undoMirror"
    BY <1>5, <1>18, <2>1, GotoFields DEF RestoreMirror, m, At
  <2>2. CASE m.pc = "restoreMirror"
    <3>1. m'.pc = "truncateLocal" /\ mirror' = m.copy /\ local' = local /\ local = m.text
      BY <1>18, <2>2, GotoFields DEF RestoreMirror, CopiesInv, m, At
    <3> QED BY <1>2, <2>2, <3>1, HoldingIs
  <2> QED BY <1>18, <2>1, <2>2 DEF RestoreMirror, At, m
<1>19. CASE Crash
  <2>1. m'.pc = "down" /\ UNCHANGED <<local, mirror>>
    BY <1>19, OtherFields DEF Crash, files
  <2>2. CASE m.pc \notin Guarding
    BY <1>4, <2>1, <2>2
  <2>3. CASE m.pc \in Guarding
    <3>1. Holding = Distinct(m.text) /\ Holding' = Distinct(local \o mirror)
      BY <1>1, <1>2, <1>3, <2>1, <2>3, HoldingIs DEF CopiesInv
    <3>2. /\ local \in {m.text, Append(m.text, Foreign), << >>} /\ mirror \in {m.text, << >>}
          /\ mirror = m.text \/ local = m.text
      BY <2>3 DEF CopiesInv
    <3>3. CASE local # Append(m.text, Foreign)
      BY <1>1, <1>3, <3>1, <3>2, <3>3
    <3>4. CASE local = Append(m.text, Foreign) /\ local # m.text
      <4>1. Holding' = Distinct(Append(m.text, Foreign))
        <5>1. mirror = m.text
          BY <3>2, <3>4
        <5>2. Distinct(Append(m.text, Foreign) \o m.text) = Distinct(Append(m.text, Foreign))
          BY <1>1, TextFacts, ZenonT(60)
        <5> QED BY <3>1, <3>4, <5>1, <5>2
      <4>2. Holding' = IF Foreign \in LinesOf(Holding) THEN Holding ELSE Append(Holding, Foreign)
        BY <1>1, <3>1, <4>1, TextFacts
      <4> QED BY <1>1, <1>19, <4>2
    <3>5. CASE local = m.text
      BY <1>1, <1>3, <3>1, <3>2, <3>5
    <3> QED BY <3>2, <3>3, <3>4, <3>5
  <2> QED BY <2>2, <2>3
<1> QED BY <1>6, <1>7, <1>8, <1>9, <1>10, <1>11, <1>12, <1>13, <1>14, <1>15, <1>16, <1>17,
           <1>18, <1>19, Steps

LEMMA BudgetKept ==
  ASSUME Readers = {}, Budget, LedgerNext
  PROVE  /\ Budget' /\ budget.crashes \in Nat
         /\ budget'.crashes = IF Crash THEN budget.crashes + 1 ELSE budget.crashes
<1>1. budget.crashes \in Nat
  BY DEF Budget
<1>2. ASSUME NEW kind \in {"appends", "operators", "crashes", "reads"}, Spend(kind)
      PROVE  Budget' /\ budget'.crashes = IF kind = "crashes" THEN budget.crashes + 1
                                                              ELSE budget.crashes
  BY <1>2 DEF Budget, Spend
<1>3. CASE Crash
  BY <1>1, <1>2, <1>3 DEF Crash
<1>4. CASE ~Crash
  <2>1. \/ UNCHANGED budget \/ Spend("appends") \/ Spend("operators")
    <3>1. CASE WriteReceipts(Mechanism)
      BY <3>1 DEF WriteReceipts, ReceiptWrite
    <3>2. CASE ~WriteReceipts(Mechanism)
      BY <1>4, <3>2, Steps DEF StartEnsure, ReadLocal, ReadMirror, WriteLocal, WriteMirror,
            ReadReceipts, StartAppend, AppendLocal, AppendMirror, CertifyLocal, CertifyMirror,
            Snapshot, OperatorWrites, OperatorEnds, RestoreLocal, RestoreMirror
    <3> QED BY <3>1, <3>2
  <2> QED BY <1>1, <1>2, <1>4, <2>1 DEF Budget
<1> QED BY <1>1, <1>3, <1>4

\* A receipt that is acknowledged is in both files, in one of them and on its way
\* to the other, or saved to be put back.
LEMMA ReceiptsKept ==
  ASSUME Readers = {}, CopyShape, Budget, ReceiptsInv, LedgerNext
  PROVE  ReceiptsInv'
<1> USE DEF Reading, Certifying, Appending, Guarding
<1>1. /\ m \in Work /\ receipts \in Receipts /\ m.seen \in Receipts
      /\ m.pc \in {"certifyLocal", "certifyMirror"} => m.line \in Evaluations
  BY DEF CopyShape, m, Work
<1>2. /\ budget.crashes \in Nat
      /\ budget'.crashes = IF Crash THEN budget.crashes + 1 ELSE budget.crashes
  BY BudgetKept
<1>3. CASE Crash
  <2>1. m'.pc = "down" /\ UNCHANGED <<receipts, acked>>
    BY <1>3, OtherFields DEF Crash, files
  <2>2. ASSUME budget'.crashes <= 1
        PROVE  Evals \subseteq receipts.local \cup receipts.mirror
    <3>1. budget.crashes = 0
      BY <1>2, <1>3, <2>2
    <3>2. m.pc \in {"down", "ready"} \cup Reading \cup Certifying \cup Appending \cup Guarding
      BY <1>1 DEF Work
    <3> QED BY <3>1, <3>2 DEF ReceiptsInv, Full
  <2>3. budget'.crashes # 0
    BY <1>2, <1>3
  <2> QED BY <2>1, <2>2, <2>3 DEF ReceiptsInv, Full, Evals
<1> SUFFICES ASSUME ~Crash PROVE ReceiptsInv'
  BY <1>3
<1>4. budget'.crashes = budget.crashes
  BY <1>2
<1>5. CASE StartEnsure(Mechanism)
  BY <1>4, <1>5, GotoFields DEF StartEnsure, files, m, ReceiptsInv, Full, Evals
<1>6. CASE ReadLocal(Mechanism) \/ ReadMirror(Mechanism) \/ WriteLocal(Mechanism)
           \/ WriteMirror(Mechanism)
  <2>1. m.pc \in Reading /\ m'.pc \in Reading /\ UNCHANGED <<receipts, acked>>
    BY <1>6, GotoFields, OtherFields DEF ReadLocal, ReadMirror, WriteLocal, WriteMirror, files, m, At
  <2> QED BY <1>4, <2>1 DEF ReceiptsInv, Full, Evals
<1>7. CASE ReadReceipts(Mechanism)
  <2> DEFINE all == receipts.local \cup receipts.mirror
  <2>1. /\ m.pc = "readReceipts" /\ UNCHANGED <<receipts, acked>>
        /\ \/ all = {} /\ m'.pc = "ready"
           \/ m'.pc = "truncateLocal" /\ m'.seen = [local |-> all, mirror |-> all]
    BY <1>7, OtherFields DEF ReadReceipts, files, m, At
  <2> QED BY <1>4, <2>1 DEF ReceiptsInv, Full, Evals
<1>8. CASE WriteReceipts(Mechanism)
  <2>1. /\ UNCHANGED acked
        /\ \/ /\ m.pc = "truncateLocal" /\ m'.pc = "receiptLocal" /\ m'.seen = m.seen
              /\ receipts'.mirror = receipts.mirror
           \/ /\ m.pc = "receiptLocal" /\ m'.pc = "truncateMirror" /\ m'.seen = m.seen
              /\ receipts'.local = m.seen.local
           \/ /\ m.pc = "truncateMirror" /\ m'.pc = "receiptMirror" /\ m'.seen = m.seen
              /\ receipts'.local = receipts.local
           \/ /\ m.pc = "receiptMirror" /\ m'.pc = "ready"
              /\ receipts'.local = receipts.local /\ receipts'.mirror = m.seen.mirror
    BY <1>1, <1>8, ReceiptWrites, GotoFields, OtherFields DEF Receipts
  <2> QED BY <1>4, <2>1 DEF ReceiptsInv, Full, Evals
<1>9. CASE \E e \in MechanismLines : StartAppend(e)
  <2>1. m.pc = "ready" /\ m'.pc = "appendLocal" /\ UNCHANGED <<receipts, acked>>
    BY <1>9, OtherFields DEF StartAppend, files, m, At
  <2> QED BY <1>4, <2>1 DEF ReceiptsInv, Full, Evals
<1>10. CASE AppendLocal
  <2>1. m.pc = "appendLocal" /\ m'.pc = "appendMirror" /\ UNCHANGED <<receipts, acked>>
    BY <1>10, GotoFields DEF AppendLocal, m, At
  <2> QED BY <1>4, <2>1 DEF ReceiptsInv, Full, Evals
<1>11. CASE AppendMirror
  <2>1. /\ m.pc = "appendMirror" /\ m'.pc \in {"ready", "certifyLocal"} /\ UNCHANGED receipts
        /\ Evals' = Evals
    BY <1>11, GotoFields, OtherFields DEF AppendMirror, m, At, Evals
  <2> QED BY <1>4, <2>1 DEF ReceiptsInv, Full
<1>12. CASE CertifyLocal
  <2>1. /\ m.pc = "certifyLocal" /\ m'.pc = "certifyMirror" /\ m'.line = m.line
        /\ receipts'.local = receipts.local \cup {m.line} /\ receipts'.mirror = receipts.mirror
        /\ UNCHANGED acked
    BY <1>1, <1>12, GotoFields DEF CertifyLocal, m, At, Receipts
  <2> QED BY <1>4, <2>1 DEF ReceiptsInv, Full, Evals
<1>13. CASE CertifyMirror
  <2>1. /\ m.pc = "certifyMirror" /\ m'.pc = "ready" /\ m.line \in receipts.local
        /\ receipts'.local = receipts.local /\ receipts'.mirror = receipts.mirror \cup {m.line}
        /\ acked' = acked \cup {m.line}
    BY <1>1, <1>13, OtherFields DEF CertifyMirror, m, At, Receipts, ReceiptsInv
  <2> QED BY <1>4, <2>1 DEF ReceiptsInv, Full, Evals
<1>14. CASE Snapshot
  <2>1. m.pc = "ready" /\ m'.pc = "operator" /\ m'.seen = receipts /\ UNCHANGED <<receipts, acked>>
    BY <1>14, OtherFields DEF Snapshot, files, m, At
  <2> QED BY <1>4, <2>1 DEF ReceiptsInv, Full, Evals
<1>15. CASE OperatorWrites \/ OperatorEnds \/ RestoreLocal \/ RestoreMirror
  <2>1. /\ m.pc \in Guarding /\ m'.pc \in Guarding \cup {"truncateLocal"} /\ m'.seen = m.seen
        /\ UNCHANGED <<receipts, acked>>
    BY <1>15, GotoFields DEF OperatorWrites, OperatorEnds, RestoreLocal, RestoreMirror, files, m, At
  <2> QED BY <1>4, <2>1 DEF ReceiptsInv, Full, Evals
<1> QED BY <1>5, <1>6, <1>7, <1>8, <1>9, <1>10, <1>11, <1>12, <1>13, <1>14, <1>15, Steps

LEMMA HoldingLines ==
  ASSUME CopyShape
  PROVE  /\ Holding \in Text
         /\ m.pc \notin Guarding => LinesOf(Holding) = LinesOf(local) \cup LinesOf(mirror)
<1>1. m \in Work /\ local \in Text /\ mirror \in Text /\ m.text \in Text /\ m.copy \in Text
  BY DEF CopyShape, m, Work
<1>2. local \o mirror \in Text /\ m.text \o m.copy \in Text
  BY <1>1, TextFacts
<1> QED BY <1>1, <1>2, HoldingIs, TextFacts, ZenonT(60)

LEMMA AckedKept ==
  ASSUME Readers = {}, CopyShape, CopiesInv, AckedInv, LedgerNext
  PROVE  AckedInv'
<1>1. LinesOf(Holding) \subseteq LinesOf(Holding')
  <2>1. Holding \in Text
    BY HoldingLines
  <2>2. CASE Holding' # Holding
    <3>1. PICK e \in AllLines : Holding' = Append(Holding, e)
      BY <2>2, LedgerGrows
    <3> QED BY <2>1, <3>1, TextFacts
  <2> QED BY <2>2
<1>2. CASE AppendMirror
  <2> DEFINE e == m.line
  <2>1. /\ m.pc = "appendMirror" /\ local = Append(mirror, e) /\ mirror \in Text /\ e \in AllLines
        /\ m'.line = e \/ m'.pc = "ready"
        /\ acked' = acked \/ acked' = acked \cup {e}
    BY <1>2, GotoFields, OtherFields DEF AppendMirror, CopiesInv, m, At, CopyShape, Work
  <2>2. LinesOf(local) = LinesOf(mirror) \cup {e}
    BY <2>1, TextFacts
  <2>3. e \in LinesOf(Holding)
    BY <2>1, <2>2, HoldingLines DEF Guarding
  <2> QED BY <1>1, <2>1, <2>3 DEF AckedInv, AckedStays
<1>3. CASE CertifyLocal
  <2>1. m.pc = "certifyLocal" /\ m'.line = m.line /\ UNCHANGED acked
    BY <1>3, GotoFields DEF CertifyLocal, At, m
  <2> QED BY <1>1, <2>1 DEF AckedInv, AckedStays
<1>4. CASE CertifyMirror
  <2>1. m.pc = "certifyMirror" /\ m'.pc = "ready" /\ acked' = acked \cup {m.line}
    BY <1>4, OtherFields DEF CertifyMirror, At, m
  <2> QED BY <1>1, <2>1 DEF AckedInv, AckedStays
<1>5. ASSUME ~AppendMirror, ~CertifyLocal, ~CertifyMirror
      PROVE  UNCHANGED acked /\ m'.pc \notin {"certifyLocal", "certifyMirror"}
  <2>1. CASE WriteReceipts(Mechanism)
    BY <2>1, ReceiptWrites, GotoFields, OtherFields
  <2>2. CASE StartEnsure(Mechanism) \/ ReadLocal(Mechanism) \/ ReadMirror(Mechanism)
             \/ WriteLocal(Mechanism) \/ WriteMirror(Mechanism) \/ ReadReceipts(Mechanism)
    BY <2>2, GotoFields, OtherFields DEF StartEnsure, ReadLocal, ReadMirror, WriteLocal,
          WriteMirror, ReadReceipts
  <2>3. CASE (\E e \in MechanismLines : StartAppend(e)) \/ AppendLocal \/ Snapshot \/ Crash
    BY <2>3, GotoFields, OtherFields DEF StartAppend, AppendLocal, Snapshot, Crash
  <2>4. CASE OperatorWrites \/ OperatorEnds \/ RestoreLocal \/ RestoreMirror
    BY <2>4, GotoFields DEF OperatorWrites, OperatorEnds, RestoreLocal, RestoreMirror
  <2> QED BY <1>5, <2>1, <2>2, <2>3, <2>4, Steps
<1> QED BY <1>1, <1>2, <1>3, <1>4, <1>5 DEF AckedInv, AckedStays

LEMMA OwnLinesKept ==
  ASSUME Readers = {}, CopyShape, CopiesInv, Budget, OperatorLeavesNoLine, LedgerNext
  PROVE  OperatorLeavesNoLine'
<1>1. SUFFICES ASSUME budget'.crashes = 0 PROVE Foreign \notin LinesOf(Holding')
  BY DEF OperatorLeavesNoLine
<1>2. ~Crash /\ budget.crashes = 0
  BY <1>1, BudgetKept
<1>3. Holding \in Text /\ Foreign \notin LinesOf(Holding)
  BY <1>2, HoldingLines DEF OperatorLeavesNoLine
<1>4. CASE Holding' # Holding
  <2>1. PICK e \in AllLines : e \in MechanismLines /\ Holding' = Append(Holding, e)
    BY <1>2, <1>4, LedgerGrows
  <2>2. e # Foreign /\ LinesOf(Holding') = LinesOf(Holding) \cup {e}
    BY <1>3, <2>1, LedgerAssumption, TextFacts DEF MechanismLines
  <2> QED BY <1>3, <2>2
<1> QED BY <1>3, <1>4

LEMMA InitLedgerInv ==
  ASSUME Readers = {}, LedgerInit
  PROVE  LedgerInv /\ Holding = << >>
<1>1. /\ local = << >> /\ mirror = << >> /\ receipts = [local |-> {}, mirror |-> {}]
      /\ acked = {} /\ m = Resting("down")
      /\ proc = [p \in {Mechanism} |-> Resting("down")]
      /\ budget = [appends |-> 0, operators |-> 0, crashes |-> 0, reads |-> 0]
  BY DEF LedgerInit, Processes, m, Mechanism
<1>2. m.pc = "down"
  BY <1>1 DEF Resting
<1>3. /\ Foreign \in AllLines /\ << >> \in Text /\ [local |-> {}, mirror |-> {}] \in Receipts
  BY DEF AllLines, Text, Receipts
<1>4. Resting("down") \in Work
  BY <1>3 DEF Resting, Work
<1>5. CopyShape
  BY <1>1, <1>2, <1>3, <1>4 DEF CopyShape, Appending
<1>6. Holding = << >>
  <2>1. local \o mirror = << >>
    BY <1>1
  <2>2. Holding \in Text /\ LinesOf(Holding) = {}
    <3>1. LinesOf(<< >>) = {}
      BY DEF LinesOf
    <3> QED BY <1>1, <1>2, <1>5, <3>1, HoldingLines DEF Guarding
  <2>3. DOMAIN Holding = {} /\ Holding \in Seq(AllLines)
    BY <2>2 DEF LinesOf, Text
  <2> QED BY <2>3
<1>7. LinesOf(Holding) = {}
  BY <1>6 DEF LinesOf
<1>8. CopiesInv /\ ReceiptsInv
  BY <1>1, <1>2 DEF CopiesInv, ReceiptsInv, Certifying, Appending, Guarding, Reading, Full, Evals
<1>9. AckedInv /\ OperatorLeavesNoLine
  BY <1>1, <1>2, <1>7 DEF AckedInv, AckedStays, OperatorLeavesNoLine
<1>10. Budget
  BY <1>1 DEF Budget
<1> QED BY <1>5, <1>6, <1>8, <1>9, <1>10 DEF LedgerInv

LEMMA StutterLedgerInv ==
  ASSUME LedgerInv, UNCHANGED ledgerVars
  PROVE  LedgerInv' /\ Holding' = Holding
<1> USE DEF ledgerVars
<1>1. Holding' = Holding
  BY DEF Holding, Guarded
<1>2. CopyShape' /\ Budget' /\ CopiesInv' /\ ReceiptsInv'
  BY DEF LedgerInv, CopyShape, m, Budget, CopiesInv, ReceiptsInv, Full, Evals
<1>3. AckedInv' /\ OperatorLeavesNoLine'
  BY <1>1 DEF LedgerInv, AckedInv, AckedStays, OperatorLeavesNoLine, m
<1> QED BY <1>1, <1>2, <1>3 DEF LedgerInv

LEMMA LedgerInductive ==
  ASSUME Readers = {}
  PROVE  LedgerSpec => []LedgerInv
<1>1. LedgerInit => LedgerInv
  BY InitLedgerInv
<1>2. LedgerInv /\ [LedgerNext]_ledgerVars => LedgerInv'
  BY StutterLedgerInv, ShapeKept, BudgetKept, CopiesKept, ReceiptsKept, AckedKept, OwnLinesKept DEF LedgerInv
<1> QED BY <1>1, <1>2, PTL DEF LedgerSpec

------------------------------------------------------------------------------
\* For any lines and any number of appends, operators and kills, when every reader
\* takes the lock (as the mechanism's verbs do): an acknowledged evaluation keeps its
\* receipt through one kill, wherever in the rewrite of the receipts files it falls.
THEOREM ReceiptsStand ==
  ASSUME Readers = {}
  PROVE  LedgerSpec => []ReceiptsSurviveKill
<1>1. LedgerInv => ReceiptsSurviveKill
  <2> SUFFICES ASSUME LedgerInv, budget.crashes <= 1 PROVE Evals \subseteq CertifiedLines
    BY DEF ReceiptsSurviveKill, Evals
  <2>1. m \in Work
    BY DEF LedgerInv, CopyShape, m
  <2>2. m.pc \in {"down", "ready"} \cup Reading \cup Certifying \cup Appending \cup Guarding
    BY <2>1 DEF Work
  <2>3. \/ Evals \subseteq receipts.local \cup receipts.mirror
        \/ Evals \subseteq m.seen.local
    BY <2>2 DEF LedgerInv, ReceiptsInv, Full
  <2> QED BY <2>3 DEF CertifiedLines, m
<1> QED BY <1>1, LedgerInductive, PTL

\* With the lock, no line append_event returned for is lost, whatever is killed.
THEOREM AckedLinesStand ==
  ASSUME Readers = {}
  PROVE  LedgerSpec => []AckedStays
<1>1. LedgerInv => AckedStays
  BY DEF LedgerInv, AckedInv
<1> QED BY <1>1, LedgerInductive, PTL

\* With the lock and no kill, nothing an operator wrote is ever part of the ledger.
THEOREM OperatorsAreUndone ==
  ASSUME Readers = {}
  PROVE  LedgerSpec => []OperatorLeavesNoLine
<1>1. LedgerInv => OperatorLeavesNoLine
  BY DEF LedgerInv
<1> QED BY <1>1, LedgerInductive, PTL

\* With the lock, the two files implement EventLog: through every rewrite, append,
\* operator, restore and kill the ledger is a log that only grows, by one new line
\* at a time.
THEOREM LedgerIsALog ==
  ASSUME Readers = {}
  PROVE  LedgerSpec => AppendOnly
<1>1. LedgerInit => Log!Init
  BY InitLedgerInv DEF Log!Init
<1>2. LedgerInv /\ [LedgerNext]_ledgerVars => [Log!Next]_Holding
  <2> SUFFICES ASSUME LedgerInv, [LedgerNext]_ledgerVars PROVE Log!Next \/ Holding' = Holding
    BY DEF Log!Next
  <2>1. CASE UNCHANGED ledgerVars
    BY <2>1, StutterLedgerInv
  <2>2. CASE LedgerNext /\ Holding' # Holding
    <3>1. PICK e \in AllLines : e \notin LinesOf(Holding) /\ Holding' = Append(Holding, e)
      BY <2>2, LedgerGrows DEF LedgerInv
    <3> QED BY <3>1 DEF Log!Next, Log!Grow, Log!Holds, LinesOf, AllLines
  <2> QED BY <2>1, <2>2
<1> QED BY <1>1, <1>2, LedgerInductive, PTL DEF LedgerSpec, AppendOnly, Log!Spec

=============================================================================
