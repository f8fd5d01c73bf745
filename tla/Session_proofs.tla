---------------------------- MODULE Session_proofs ----------------------------
(***************************************************************************)
(* Proofs about an agent session and the two worlds it lives in, for every   *)
(* set of requests, every budget and any number of kills: an action is       *)
(* dispatched at most once, the budgets hold and the journal covers what was *)
(* paid (Session); sealed data is opened once and the arms of a comparison   *)
(* stay apart (Comparison); nothing looks done that is not, an import loses  *)
(* no file and a stop is a stop (Progression).                               *)
(***************************************************************************)
EXTENDS Comparison, ProgressionProps, FiniteSetTheorems, SequenceTheorems,
        WellFoundedInduction, TLAPS

------------------------------------------------------------------------------
(* The inductive invariant. *)

Entry == [phase : {"started", "completed", "failed"}, request : AllRequests,
          cost : Int, after : Int]

\* The journal holds receipts, and what will be written to it has their shape.
JournalShape ==
  /\ journal \in Seq(Entry)
  /\ ledger \in Int
  /\ artifacts \in [Paying -> Int]
  /\ effects \in [Ids -> Nat]
  /\ DOMAIN exec = {"who", "pc", "request", "ok", "cost"} /\ exec.cost \in Int
  /\ exec.pc \in {"idle", "dispatch", "receipt", "close"}
  /\ exec.pc # "idle" => exec.request \in AllRequests

\* What has been dispatched was started, and an action about to be dispatched has
\* not been dispatched.
StartedFirst ==
  /\ \A id \in Ids : effects[id] <= 1 /\ (~Started(id) => effects[id] = 0)
  /\ exec.pc = "dispatch" =>
       Started(exec.request.id) /\ effects[exec.request.id] = 0

SessionInv == JournalShape /\ StartedFirst /\ BudgetsHold

\* The copy belongs to nobody else once an audit has passed it: it has an identity
\* of its own, and clone_arm no longer touches it.
OwnArm ==
  /\ "arm" \notin mirror["source"]
  /\ mirror \in [{"source", "own"} -> SUBSET {"source", "arm"}]
  /\ audited =>
       /\ cloning \in {"done", "killed"}
       /\ DOMAIN arm = {"id", "rows"} /\ arm.id = "own"
       /\ arm.rows \cup mirror["own"] \subseteq {"arm"}
  /\ cloning \in {"copy", "audit", "done", "killed"} =>
       /\ DOMAIN arm = {"id", "rows"}
       /\ arm.id \in {None, "source", "own"}

------------------------------------------------------------------------------
(* Lemmas about the journal. *)

LEMMA RequestFacts ==
  \A r \in AllRequests : r.id \in Ids /\ r.kind \in Kinds
BY SessionAssumption DEF AllRequests, Ids, BudgetStop, Kinds, Lifecycles

\* One more receipt starts one more action or none.
LEMMA StartedGrows ==
  ASSUME JournalShape, NEW e \in Entry, journal' = Append(journal, e), NEW id
  PROVE  Started(id)' <=> Started(id) \/ (e.phase = "started" /\ e.request.id = id)
<1>1. /\ Len(journal) \in Nat
      /\ DOMAIN journal = 1..Len(journal) /\ DOMAIN journal' = 1..Len(journal) + 1
      /\ \A i \in DOMAIN journal : journal'[i] = journal[i]
      /\ journal'[Len(journal) + 1] = e
  BY DEF JournalShape
<1> QED BY <1>1 DEF Started

LEMMA CountGrows ==
  ASSUME JournalShape, NEW e \in Entry, journal' = Append(journal, e), NEW kinds
  PROVE  /\ IsFiniteSet(StartedOf(kinds)) /\ Cardinality(StartedOf(kinds)) \in Nat
         /\ Cardinality(StartedOf(kinds)') =
              IF e.phase = "started" /\ e.request.kind \in kinds
              THEN Cardinality(StartedOf(kinds)) + 1 ELSE Cardinality(StartedOf(kinds))
<1>1. /\ Len(journal) \in Nat
      /\ DOMAIN journal = 1..Len(journal) /\ DOMAIN journal' = 1..Len(journal) + 1
      /\ \A i \in DOMAIN journal : journal'[i] = journal[i]
      /\ journal'[Len(journal) + 1] = e
  BY DEF JournalShape
<1>2. IsFiniteSet(DOMAIN journal)
  BY <1>1, FS_Interval
<1>3. IsFiniteSet(StartedOf(kinds)) /\ Cardinality(StartedOf(kinds)) \in Nat
  BY <1>2, FS_Subset, FS_CardinalityType DEF StartedOf
<1>4. CASE e.phase = "started" /\ e.request.kind \in kinds
  <2>1. StartedOf(kinds)' = StartedOf(kinds) \cup {Len(journal) + 1}
    BY <1>1, <1>4 DEF StartedOf
  <2>2. Len(journal) + 1 \notin StartedOf(kinds)
    BY <1>1 DEF StartedOf
  <2> QED BY <1>3, <1>4, <2>1, <2>2, FS_AddElement
<1>5. CASE ~(e.phase = "started" /\ e.request.kind \in kinds)
  <2>1. StartedOf(kinds)' = StartedOf(kinds)
    BY <1>1, <1>5 DEF StartedOf
  <2> QED BY <1>3, <1>5, <2>1
<1> QED BY <1>3, <1>4, <1>5

\* A receipt that starts nothing leaves the budgets and what was started alone.
LEMMA EndsNothingNew ==
  ASSUME SessionInv, NEW e \in Entry, e.phase # "started", journal' = Append(journal, e),
         UNCHANGED effects
  PROVE  BudgetsHold' /\ \A id \in Ids : Started(id)' <=> Started(id)
<1>1. \A kinds : Cardinality(StartedOf(kinds)') = Cardinality(StartedOf(kinds))
  BY CountGrows DEF SessionInv
<1>2. BudgetsHold'
  BY <1>1 DEF SessionInv, BudgetsHold, OperatorCalls, Evaluations
<1> QED BY <1>2, StartedGrows DEF SessionInv

------------------------------------------------------------------------------
(* A step of the session preserves the invariant. *)

\* An action that is not a finish or a resumption begins only while the action budget
\* has room.
LEMMA RoomForAction ==
  ASSUME NEW r, Admitted(r), r.kind \notin {"finish_research", "resume_research"}
  PROVE  ~(Budgeted >= MaxActions)
<1>1. Status = "active"
  BY DEF Admitted, Welcome
<1>2. ExhaustedReasons = {}
  BY <1>1 DEF Status
<1> QED BY <1>2 DEF ExhaustedReasons

LEMMA BeginKeeps ==
  ASSUME SessionInv, NEW who, NEW r \in AllRequests, Begin(who, r)
  PROVE  SessionInv'
<1> DEFINE e == Receipt("started", r, 0)
<1>1. /\ e \in Entry /\ e.phase = "started" /\ e.request = r
      /\ journal' = Append(journal, e)
  BY DEF SessionInv, JournalShape, Begin, Receipt, Entry
<1>2. r.id \in Ids /\ r.kind \in Kinds
  BY RequestFacts
<1>3. JournalShape'
  BY <1>1 DEF SessionInv, JournalShape, Begin, Idle
<1>4. ~Started(r.id)
  BY <1>2 DEF Begin, Admitted, Pending
<1>5. StartedFirst'
  <2>1. \A id \in Ids : Started(id)' <=> Started(id) \/ id = r.id
    BY <1>1, StartedGrows DEF SessionInv
  <2>2. exec'.request = r /\ UNCHANGED effects
    BY DEF Begin, Idle
  <2> QED BY <1>2, <1>4, <2>1, <2>2 DEF SessionInv, StartedFirst
<1>6. BudgetsHold'
  <2> DEFINE Other == Kinds \ {"finish_research", "resume_research"}
             Counted == Kinds \ {"finish_research"}
  <2>1. \A kinds : /\ IsFiniteSet(StartedOf(kinds)) /\ Cardinality(StartedOf(kinds)) \in Nat
                   /\ Cardinality(StartedOf(kinds)') =
                        IF r.kind \in kinds THEN Cardinality(StartedOf(kinds)) + 1
                                            ELSE Cardinality(StartedOf(kinds))
    BY <1>1, CountGrows DEF SessionInv
  <2>2. Cardinality(StartedOf(Other)) <= Cardinality(StartedOf(Counted))
    <3>1. StartedOf(Other) \subseteq StartedOf(Counted)
      BY DEF StartedOf
    <3> QED BY <3>1, <2>1, FS_Subset
  <2>3. Cardinality(StartedOf(Other)') <= MaxActions
    <3>1. CASE r.kind \in Other
      <4>1. ~(Cardinality(StartedOf(Counted)) >= MaxActions)
        BY <3>1, RoomForAction DEF Begin, Budgeted
      <4> HIDE DEF Other, Counted
      <4> QED BY <2>1, <2>2, <3>1, <4>1, SessionAssumption
    <3>2. CASE r.kind \notin Other
      BY <3>2, <2>1 DEF SessionInv, BudgetsHold
    <3> QED BY <3>1, <3>2
  <2>4. OperatorCalls' <= MaxOperatorCalls
    BY <2>1, SessionAssumption DEF SessionInv, BudgetsHold, OperatorCalls, Begin, Admitted,
                                   SubBudget
  <2>5. Evaluations' <= MaxEvaluations
    BY <2>1, SessionAssumption DEF SessionInv, BudgetsHold, Evaluations, Begin, Admitted, SubBudget
  <2> QED BY <2>3, <2>4, <2>5 DEF BudgetsHold
<1> QED BY <1>3, <1>5, <1>6 DEF SessionInv

LEMMA DispatchChanges ==
  ASSUME JournalShape, Dispatch
  PROVE  /\ exec.pc = "dispatch" /\ UNCHANGED journal
         /\ exec'.pc = "receipt" /\ exec'.request = exec.request /\ exec'.cost \in Int
         /\ DOMAIN exec' = {"who", "pc", "request", "ok", "cost"}
         /\ artifacts' \in [Paying -> Int] /\ ledger' \in Int
<1> DEFINE r == exec.request
<1>1. exec.pc = "dispatch" /\ UNCHANGED journal
  BY DEF Dispatch
<1>2. ASSUME NEW cost \in (IF r.kind \in Paying THEN Costs ELSE {0}), NEW ok \in BOOLEAN,
             Effect(r, cost), exec' = [exec EXCEPT !.pc = "receipt", !.ok = ok, !.cost = cost]
      PROVE  /\ exec'.pc = "receipt" /\ exec'.request = r /\ exec'.cost \in Int
             /\ DOMAIN exec' = {"who", "pc", "request", "ok", "cost"}
             /\ artifacts' \in [Paying -> Int] /\ ledger' \in Int
  <2>1. cost \in Int
    BY SessionAssumption
  <2>2. artifacts' \in [Paying -> Int] /\ ledger' \in Int
    BY <1>2, <2>1 DEF JournalShape, Effect
  <2> QED BY <1>2, <2>1, <2>2 DEF JournalShape
<1>3. CASE exec' = [exec EXCEPT !.pc = "receipt"] /\ UNCHANGED <<artifacts, ledger>>
  BY <1>1, <1>3 DEF JournalShape
<1> QED BY <1>1, <1>2, <1>3 DEF Dispatch

LEMMA DispatchKeeps ==
  ASSUME SessionInv, Dispatch
  PROVE  SessionInv'
<1> DEFINE r == exec.request
<1>1. r \in AllRequests /\ r.id \in Ids /\ exec.pc = "dispatch" /\ UNCHANGED journal
  BY RequestFacts DEF SessionInv, JournalShape, Dispatch
<1>2. effects' = [effects EXCEPT ![r.id] = effects[r.id] + 1]
  BY DEF Dispatch
<1>3. /\ exec'.pc = "receipt" /\ exec'.request = r /\ exec'.cost \in Int
      /\ DOMAIN exec' = {"who", "pc", "request", "ok", "cost"}
      /\ artifacts' \in [Paying -> Int] /\ ledger' \in Int
  BY DispatchChanges DEF SessionInv
<1>4. JournalShape'
  <2>1. effects' \in [Ids -> Nat]
    BY <1>1, <1>2 DEF SessionInv, JournalShape
  <2> QED BY <1>1, <1>3, <2>1 DEF SessionInv, JournalShape
<1>5. StartedFirst'
  <2>1. \A id : Started(id)' <=> Started(id)
    BY <1>1 DEF Started
  <2>2. effects[r.id] = 0 /\ Started(r.id)
    BY <1>1 DEF SessionInv, StartedFirst
  <2>3. \A id \in Ids : effects'[id] = IF id = r.id THEN 1 ELSE effects[id]
    BY <1>1, <1>2, <2>2 DEF SessionInv, JournalShape
  <2> QED BY <1>1, <1>3, <2>1, <2>2, <2>3 DEF SessionInv, JournalShape, StartedFirst
<1>6. BudgetsHold'
  BY <1>1 DEF SessionInv, BudgetsHold, OperatorCalls, Evaluations, StartedOf
<1> QED BY <1>4, <1>5, <1>6 DEF SessionInv

LEMMA CostIsNumber ==
  ASSUME JournalShape, NEW r PROVE ObservedActionCost(r) \in Int
BY DEF JournalShape, ObservedActionCost

LEMMA WriteReceiptKeeps ==
  ASSUME SessionInv, WriteReceipt
  PROVE  SessionInv'
<1> DEFINE r == exec.request
           e == IF exec.ok THEN Receipt("completed", r, exec.cost)
                ELSE Receipt("failed", r, ObservedActionCost(r))
<1>1. e \in Entry /\ e.phase # "started"
  BY CostIsNumber DEF SessionInv, JournalShape, WriteReceipt, Receipt, Entry
<1>2. journal' = Append(journal, e) /\ UNCHANGED effects
  BY DEF WriteReceipt
<1> HIDE DEF e
<1>3. BudgetsHold' /\ \A id \in Ids : Started(id)' <=> Started(id)
  BY <1>1, <1>2, EndsNothingNew
<1>4. exec' = Idle \/ exec' = [exec EXCEPT !.pc = "close"]
  BY DEF WriteReceipt
<1>5. JournalShape'
  BY <1>1, <1>2, <1>4 DEF SessionInv, JournalShape, WriteReceipt, Idle
<1>6. StartedFirst'
  BY <1>2, <1>3, <1>4 DEF SessionInv, StartedFirst, JournalShape, Idle, WriteReceipt
<1> QED BY <1>3, <1>5, <1>6 DEF SessionInv

LEMMA ResolveAppends ==
  ASSUME JournalShape, ResolveInterrupted
  PROVE  \E e \in Entry : e.phase = "failed" /\ journal' = Append(journal, e)
<1>1. PICK id \in Pending :
        journal' = Append(journal,
          Receipt("failed", Recorded(id), ObservedActionCost(Recorded(id))))
  BY DEF ResolveInterrupted
<1>2. Recorded(id) \in AllRequests
  <2>1. PICK k \in DOMAIN journal : journal[k].phase = "started" /\ journal[k].request.id = id
    BY DEF Pending, Started
  <2>2. \A f \in {journal[k1] : k1 \in DOMAIN journal} : f \in Entry
    BY DEF JournalShape
  <2>3. \E f \in {journal[k1] : k1 \in DOMAIN journal} : f.phase = "started" /\ f.request.id = id
    BY <2>1
  <2> QED BY <2>2, <2>3 DEF Recorded, Entry
<1>3. Receipt("failed", Recorded(id), ObservedActionCost(Recorded(id))) \in Entry
  BY <1>2, CostIsNumber DEF JournalShape, Receipt, Entry
<1> QED BY <1>1, <1>3 DEF Receipt

LEMMA ResolveKeeps ==
  ASSUME SessionInv, ResolveInterrupted
  PROVE  SessionInv'
<1>1. PICK e \in Entry : e.phase = "failed" /\ journal' = Append(journal, e)
  BY ResolveAppends DEF SessionInv
<1>2. UNCHANGED <<effects, exec, ledger, artifacts>>
  BY DEF ResolveInterrupted
<1>3. BudgetsHold' /\ \A i \in Ids : Started(i)' <=> Started(i)
  BY <1>1, <1>2, EndsNothingNew
<1>4. JournalShape'
  BY <1>1, <1>2 DEF SessionInv, JournalShape
<1>5. StartedFirst'
  BY <1>2, <1>3, RequestFacts DEF SessionInv, StartedFirst, JournalShape
<1> QED BY <1>3, <1>4, <1>5 DEF SessionInv

\* Steps that leave the journal alone and start nothing.
LEMMA QuietKeeps ==
  ASSUME SessionInv, UNCHANGED <<journal, ledger, artifacts, effects>>,
         exec' = exec \/ exec' = Idle
  PROVE  SessionInv'
<1>1. JournalShape'
  BY DEF SessionInv, JournalShape, Idle
<1>2. StartedFirst'
  BY DEF SessionInv, StartedFirst, Started, Idle
<1>3. BudgetsHold'
  BY DEF SessionInv, BudgetsHold, OperatorCalls, Evaluations, StartedOf
<1> QED BY <1>1, <1>2, <1>3 DEF SessionInv

LEMMA SessionKeeps ==
  ASSUME SessionInv, NEW callers, SessionStepOf(callers)
  PROVE  SessionInv'
<1>1. CASE \E who \in callers, r \in AllRequests : Begin(who, r)
  BY <1>1, BeginKeeps
<1>2. CASE Dispatch
  BY <1>2, DispatchKeeps
<1>3. CASE WriteReceipt
  BY <1>3, WriteReceiptKeeps
<1>4. CASE CloseSession \/ KillAction \/ Expire
  BY <1>4, QuietKeeps DEF CloseSession, KillAction, Expire
<1>5. CASE ResolveInterrupted
  BY <1>5, ResolveKeeps
<1> QED BY <1>1, <1>2, <1>3, <1>4, <1>5 DEF SessionStepOf

------------------------------------------------------------------------------
(* Steps of the host. *)

LEMMA ArmStepKeeps ==
  ASSUME OwnArm, Next
  PROVE  OwnArm'
<1>1. CASE StartSession
  BY <1>1 DEF OwnArm, StartSession, sealVars, armVars, Merged
<1>2. CASE SessionStep
  BY <1>2 DEF OwnArm, SessionStep, sealVars, armVars
<1>3. CASE CloneArm
  BY <1>3 DEF OwnArm, CloneArm
<1>4. CASE CopyPart
  BY <1>4 DEF OwnArm, CopyPart
<1>5. CASE RotateIdentity
  BY <1>5 DEF OwnArm, RotateIdentity
<1>6. CASE EndClone
  BY <1>6, ComparisonAssumption DEF OwnArm, EndClone, Comparable, Merged
<1>7. CASE CloneFails \/ KillClone
  BY <1>7 DEF OwnArm, CloneFails, KillClone
<1>8. CASE AuditArms
  BY <1>8, ComparisonAssumption DEF OwnArm, AuditArms, Comparable, Merged
<1>9. CASE WorkInArm
  <2> DEFINE rows == arm.rows \cup mirror["own"] \cup {"arm"}
  <2>1. arm' = [arm EXCEPT !.rows = rows] /\ mirror' = [mirror EXCEPT !["own"] = rows]
        /\ arm.id = "own" /\ rows = {"arm"} /\ UNCHANGED <<cloning, audited>>
    BY <1>9 DEF OwnArm, WorkInArm, Merged
  <2>2. DOMAIN arm' = {"id", "rows"} /\ arm'.id = "own" /\ arm'.rows = {"arm"}
    BY <1>9, <2>1 DEF OwnArm, WorkInArm
  <2>3. mirror' \in [{"source", "own"} -> SUBSET {"source", "arm"}]
        /\ mirror'["own"] = {"arm"} /\ mirror'["source"] = mirror["source"]
    BY <2>1 DEF OwnArm
  <2> QED BY <2>1, <2>2, <2>3 DEF OwnArm
<1>10. CASE \E s \in Sealers :
               SealResearch(s) \/ EvaluateSealed(s) \/ RecordSealed(s) \/ KillSealer(s)
  <2>1. PICK s \in Sealers :
               SealResearch(s) \/ EvaluateSealed(s) \/ RecordSealed(s) \/ KillSealer(s)
    BY <1>10
  <2>2. UNCHANGED <<armVars, mirror>>
    <3>1. CASE SealResearch(s)
      BY <3>1 DEF SealResearch
    <3>2. CASE EvaluateSealed(s)
      BY <3>2 DEF EvaluateSealed
    <3>3. CASE RecordSealed(s)
      BY <3>3 DEF RecordSealed
    <3>4. CASE KillSealer(s)
      BY <3>4 DEF KillSealer
    <3> QED BY <2>1, <3>1, <3>2, <3>3, <3>4
  <2> QED BY <2>2 DEF OwnArm, armVars
<1> QED BY <1>1, <1>2, <1>3, <1>4, <1>5, <1>6, <1>7, <1>8, <1>9, <1>10 DEF Next

\* Everything but a step of the session leaves the session alone.
LEMMA HostKeepsSession ==
  ASSUME SessionInv, Next
  PROVE  SessionInv'
<1>1. CASE SessionStep
  BY <1>1, SessionKeeps DEF SessionStep
<1>2. CASE ~SessionStep
  <2>1. UNCHANGED sessionVars
    BY <1>2 DEF Next, StartSession, CloneArm, CopyPart, RotateIdentity, EndClone, CloneFails,
                KillClone, AuditArms, WorkInArm, SealResearch, EvaluateSealed, RecordSealed,
                KillSealer
  <2> QED BY <2>1, QuietKeeps DEF sessionVars
<1> QED BY <1>1, <1>2

(* Sealing. *)

\* After the finish nothing is pending, and what is in execution is no other action.
Settled ==
  /\ Lifecycle = "finished" => Pending = {} /\ exec.pc \in {"idle", "close"}
  /\ exec.pc \in {"dispatch", "receipt"} => Pending \subseteq {exec.request.id}

\* Sealers work after the finish, one at a time on a generation without a complete
\* evaluation, and turn to the champion after the baseline.
SealInv ==
  /\ sealers \in [Sealers -> {"idle", "baseline", "final"}]
  /\ champion \in {"baseline", "child"}
  /\ anchors \in Seq([gen : {"baseline", "child"}, outcome : {"complete", "failed"}])
  /\ anchors # << >> => Lifecycle = "finished"
  /\ \A s \in Sealers : sealers[s] # "idle" => Lifecycle = "finished"
  /\ \A s \in Sealers : sealers[s] = "final" => champion # "baseline" /\ Sealed("baseline")
  /\ inside \subseteq Sealers
  /\ \A s, t \in inside : s = t
  /\ \A s \in inside : sealers[s] # "idle" /\ ~Sealed(Subject(s))
  /\ SealedOnceAfterFinish

LEMMA TerminalGrows ==
  ASSUME JournalShape, NEW e \in Entry, journal' = Append(journal, e), NEW id
  PROVE  Terminal(id)' <=>
           Terminal(id) \/ (e.phase \in {"completed", "failed"} /\ e.request.id = id)
<1>1. /\ Len(journal) \in Nat
      /\ DOMAIN journal = 1..Len(journal) /\ DOMAIN journal' = 1..Len(journal) + 1
      /\ \A i \in DOMAIN journal : journal'[i] = journal[i]
      /\ journal'[Len(journal) + 1] = e
  BY DEF JournalShape
<1> QED BY <1>1 DEF Terminal

LEMMA LargestExists ==
  ASSUME NEW n \in Nat, NEW S, S \subseteq 1..n, S # {}
  PROVE  \E x \in S : \A y \in S : y <= x
<1> DEFINE T == {n - x : x \in S}
<1>1. T \subseteq Nat /\ T # {}
  <2>1. \A x \in S : x \in 1..n /\ n - x \in Nat
    OBVIOUS
  <2> QED BY <2>1
<1>2. PICK t \in T : \A u \in T : ~(<<u, t>> \in OpToRel(<, Nat))
  BY <1>1, WFMin, NatLessThanWellFounded
<1>3. PICK x \in S : t = n - x
  OBVIOUS
<1>4. \A y \in S : ~(n - y < n - x)
  BY <1>1, <1>2, <1>3 DEF OpToRel
<1>5. \A y \in S : y <= x
  <2> TAKE y \in S
  <2>1. x \in 1..n /\ y \in 1..n
    OBVIOUS
  <2> QED BY <1>4, <2>1
<1> QED BY <1>5

\* The lifecycle follows completed receipts.
LEMMA LifecycleStays ==
  ASSUME JournalShape, NEW e \in Entry, journal' = Append(journal, e), e.phase # "completed"
  PROVE  Lifecycle' = Lifecycle
<1>1. /\ Len(journal) \in Nat
      /\ DOMAIN journal = 1..Len(journal) /\ DOMAIN journal' = 1..Len(journal) + 1
      /\ \A i \in DOMAIN journal : journal'[i] = journal[i]
      /\ journal'[Len(journal) + 1] = e
  BY DEF JournalShape
<1> DEFINE hits == {i \in DOMAIN journal : /\ journal[i].phase = "completed"
                                         /\ journal[i].request.kind \in Lifecycles}
           top == CHOOSE i \in hits : \A f \in hits : f <= i
<1>2. hits' = hits
  <2>1. \A i : i \in hits' <=> i \in hits
    BY <1>1
  <2> QED BY <2>1
<1>3. Latest(Lifecycles) = (IF hits = {} THEN None ELSE journal[top].request)
  BY DEF Latest
<1>4. Latest(Lifecycles)' = (IF hits' = {} THEN None ELSE journal'[top'].request)
  BY DEF Latest, Lifecycles
<1>5. hits # {} => top \in hits
  <2>1. hits # {} => \E x \in hits : \A y \in hits : y <= x
    BY <1>1, LargestExists
  <2> QED BY <2>1
<1>6. Latest(Lifecycles)' = Latest(Lifecycles)
  <2>1. top' = top
    BY <1>2
  <2>2. hits # {} => journal'[top'] = journal[top]
    BY <1>1, <1>5, <2>1
  <2>3. CASE hits = {}
    BY <1>2, <1>3, <1>4, <2>3
  <2>4. CASE hits # {}
    BY <1>2, <1>3, <1>4, <2>2, <2>4
  <2> QED BY <2>3, <2>4
<1> QED BY <1>6 DEF Lifecycle

LEMMA SettledKeeps ==
  ASSUME SessionInv, Settled, NEW callers, SessionStepOf(callers)
  PROVE  Settled' /\ (Lifecycle = "finished" => Lifecycle' = "finished" /\ UNCHANGED ledger)
<1>1. ASSUME NEW who, NEW r \in AllRequests, Begin(who, r)
      PROVE  Settled' /\ Lifecycle # "finished"
  <2> DEFINE e == Receipt("started", r, 0)
  <2>1. e \in Entry /\ e.phase = "started" /\ e.request = r /\ journal' = Append(journal, e)
    BY <1>1 DEF SessionInv, JournalShape, Begin, Receipt, Entry
  <2> HIDE DEF e
  <2>2. Lifecycle' = Lifecycle /\ Lifecycle # "finished"
    BY <1>1, <2>1, LifecycleStays DEF SessionInv, Begin, Admitted
  <2>3. \A id \in Ids : /\ Started(id)' <=> Started(id) \/ id = r.id
                        /\ Terminal(id)' <=> Terminal(id)
    BY <2>1, StartedGrows, TerminalGrows DEF SessionInv
  <2>4. Pending = {} /\ exec'.request = r
    BY <1>1 DEF Begin, Admitted, Idle
  <2>5. Pending' \subseteq {r.id}
    BY <2>3, <2>4 DEF Pending
  <2> QED BY <2>2, <2>4, <2>5 DEF Settled
<1>2. ASSUME Dispatch PROVE Settled' /\ Lifecycle # "finished"
  <2>1. exec.pc = "dispatch" /\ exec'.pc = "receipt" /\ exec'.request = exec.request
        /\ UNCHANGED journal
    BY <1>2, DispatchChanges DEF SessionInv
  <2>2. Pending' = Pending /\ Lifecycle' = Lifecycle
    BY <2>1 DEF Pending, Started, Terminal, Lifecycle, Latest
  <2> QED BY <2>1, <2>2 DEF Settled
<1>3. ASSUME WriteReceipt PROVE Settled' /\ Lifecycle # "finished"
  <2> DEFINE r == exec.request
             e == IF exec.ok THEN Receipt("completed", r, exec.cost)
                  ELSE Receipt("failed", r, ObservedActionCost(r))
  <2>1. e \in Entry /\ e.phase \in {"completed", "failed"} /\ e.request = r
    BY <1>3, CostIsNumber DEF SessionInv, JournalShape, WriteReceipt, Receipt, Entry
  <2>2. journal' = Append(journal, e) /\ exec.pc = "receipt"
    BY <1>3 DEF WriteReceipt
  <2> HIDE DEF e
  <2>3. \A id \in Ids : /\ Started(id)' <=> Started(id)
                        /\ Terminal(id)' <=> Terminal(id) \/ id = r.id
    BY <2>1, <2>2, StartedGrows, TerminalGrows DEF SessionInv
  <2>4. Pending' = {}
    <3>1. Pending \subseteq {r.id}
      BY <2>2 DEF Settled
    <3>2. \A id \in Ids : Started(id) /\ ~Terminal(id) => id = r.id
      BY <3>1 DEF Pending
    <3> QED BY <2>3, <3>2 DEF Pending
  <2>5. exec'.pc \in {"idle", "close"}
    BY <1>3 DEF WriteReceipt, Idle, SessionInv, JournalShape
  <2> QED BY <2>2, <2>4, <2>5 DEF Settled
<1>4. ASSUME CloseSession \/ KillAction \/ Expire
      PROVE  Settled' /\ Lifecycle' = Lifecycle /\ UNCHANGED ledger
  <2>1. UNCHANGED <<journal, ledger>> /\ (exec' = Idle \/ exec' = exec)
    BY <1>4 DEF CloseSession, KillAction, Expire
  <2>2. Pending' = Pending /\ Lifecycle' = Lifecycle
    BY <2>1 DEF Pending, Started, Terminal, Lifecycle, Latest
  <2> QED BY <2>1, <2>2 DEF Settled, Idle
<1>5. ASSUME ResolveInterrupted PROVE Settled' /\ Lifecycle # "finished"
  <2>1. PICK e \in Entry : e.phase = "failed" /\ journal' = Append(journal, e)
    BY <1>5, ResolveAppends DEF SessionInv
  <2>2. Lifecycle' = Lifecycle
    BY <2>1, LifecycleStays DEF SessionInv
  <2>3. Pending # {} /\ exec = Idle /\ exec' = Idle
    BY <1>5 DEF ResolveInterrupted
  <2> QED BY <2>2, <2>3 DEF Settled, Idle
<1> QED BY <1>1, <1>2, <1>3, <1>4, <1>5 DEF SessionStepOf

\* A step that changes nothing of the sealing, nor the best once the session is finished.
LEMMA SealStays ==
  ASSUME SealInv, UNCHANGED sealVars, champion' \in {champion, "child"},
         Lifecycle = "finished" => Lifecycle' = "finished" /\ UNCHANGED champion
  PROVE  SealInv'
<1>1. CASE Lifecycle = "finished"
  BY <1>1 DEF SealInv, SealedOnceAfterFinish, Sealed, Subject, sealVars
<1>2. CASE Lifecycle # "finished"
  <2>1. /\ anchors = << >> /\ anchors' = << >> /\ inside' = {}
        /\ \A s \in Sealers : sealers'[s] = "idle"
    BY <1>2 DEF SealInv, sealVars
  <2>2. SealedOnceAfterFinish'
    BY <2>1 DEF SealedOnceAfterFinish
  <2> QED BY <2>1, <2>2 DEF SealInv, sealVars
<1> QED BY <1>1, <1>2

LEMMA RecordKeeps ==
  ASSUME SealInv, NEW s \in Sealers, RecordSealed(s)
  PROVE  SealInv'
<1>0. PICK g : g = Subject(s)
  OBVIOUS
<1>1. PICK outcome \in {"complete", "failed"} :
        /\ anchors' = Append(anchors, [gen |-> g, outcome |-> outcome])
        /\ sealers' = [sealers EXCEPT ![s] = IF outcome = "complete" THEN After(s) ELSE "idle"]
  BY <1>0 DEF RecordSealed, SealerGoes
<1>2. /\ s \in inside /\ inside' = inside \ {s} /\ UNCHANGED champion
      /\ Lifecycle' = Lifecycle
  BY DEF RecordSealed, sessionVars, Lifecycle, Latest
<1>3. /\ inside' = {} /\ Lifecycle = "finished" /\ ~Sealed(g) /\ g \in {"baseline", "child"}
      /\ g = "child" => Sealed("baseline")
  BY <1>0, <1>2 DEF SealInv, Subject
<1>4. /\ Len(anchors) \in Nat
      /\ DOMAIN anchors = 1..Len(anchors) /\ DOMAIN anchors' = 1..Len(anchors) + 1
      /\ \A i \in DOMAIN anchors : anchors'[i] = anchors[i]
      /\ anchors'[Len(anchors) + 1] = [gen |-> g, outcome |-> outcome]
  BY <1>1 DEF SealInv
<1>5. anchors' \in Seq([gen : {"baseline", "child"}, outcome : {"complete", "failed"}])
  BY <1>1, <1>3 DEF SealInv
<1>6. \A h : Sealed(h) => Sealed(h)'
  BY <1>4 DEF Sealed
<1>7. outcome = "complete" => Sealed(g)'
  BY <1>4 DEF Sealed
<1>8. \A t \in Sealers : sealers'[t] = "final" => champion # "baseline" /\ Sealed("baseline")'
  <2>1. sealers'[s] = "final" => champion # "baseline" /\ outcome = "complete" /\ g = "baseline"
    BY <1>0, <1>1 DEF SealInv, After, Subject
  <2>2. \A t \in Sealers : t # s => sealers'[t] = sealers[t]
    BY <1>1 DEF SealInv
  <2> QED BY <1>6, <1>7, <2>1, <2>2 DEF SealInv
<1>9. SealedOnceAfterFinish'
  <2>1. ASSUME NEW i \in DOMAIN anchors', NEW j \in DOMAIN anchors', i < j,
               anchors'[i].outcome = "complete"
        PROVE  anchors'[j].gen # anchors'[i].gen
    <3>1. CASE j \in DOMAIN anchors
      BY <1>4, <2>1, <3>1 DEF SealInv, SealedOnceAfterFinish
    <3>2. CASE j = Len(anchors) + 1
      <4>1. i \in DOMAIN anchors /\ anchors'[i] = anchors[i] /\ anchors'[j].gen = g
        BY <1>4, <2>1, <3>2
      <4> DEFINE R == [gen : {"baseline", "child"}, outcome : {"complete", "failed"}]
      <4>2. anchors[i] \in R
        <5>1. anchors \in Seq(R)
          BY DEF SealInv
        <5>2. i \in 1..Len(anchors)
          BY <1>4, <4>1
        <5> HIDE DEF R
        <5> QED BY <5>1, <5>2
      <4>3. anchors[i] = [gen |-> anchors[i].gen, outcome |-> "complete"]
        BY <2>1, <4>1, <4>2
      <4> QED BY <1>3, <4>1, <4>3 DEF Sealed
    <3> QED BY <1>4, <3>1, <3>2
  <2>2. ASSUME NEW j \in DOMAIN anchors', anchors'[j].gen = "child"
        PROVE  \E k \in 1..j - 1 : anchors'[k] = [gen |-> "baseline", outcome |-> "complete"]
    <3>1. CASE j \in DOMAIN anchors
      BY <1>4, <2>2, <3>1 DEF SealInv, SealedOnceAfterFinish
    <3>2. CASE j = Len(anchors) + 1
      BY <1>3, <1>4, <2>2, <3>2 DEF Sealed
    <3> QED BY <1>4, <3>1, <3>2
  <2> QED BY <1>2, <1>3, <2>1, <2>2 DEF SealedOnceAfterFinish
<1>10. sealers' \in [Sealers -> {"idle", "baseline", "final"}]
  BY <1>1 DEF SealInv, After
<1> QED BY <1>2, <1>3, <1>5, <1>8, <1>9, <1>10 DEF SealInv

LEMMA SealStepKeeps ==
  ASSUME SessionInv, Settled, SealInv, Next
  PROVE  SealInv'
<1>1. CASE SessionStep
  BY <1>1, SealStays, SettledKeeps DEF SessionStep
<1>2. CASE StartSession \/ CloneArm \/ CopyPart \/ RotateIdentity \/ EndClone \/ CloneFails
           \/ KillClone \/ AuditArms \/ WorkInArm
  <2>1. UNCHANGED <<sessionVars, sealVars, champion>>
    BY <1>2 DEF StartSession, CloneArm, CopyPart, RotateIdentity, EndClone, CloneFails,
                KillClone, AuditArms, WorkInArm
  <2>2. Lifecycle' = Lifecycle
    BY <2>1 DEF sessionVars, Lifecycle, Latest
  <2> QED BY <2>1, <2>2, SealStays
<1>3. ASSUME NEW s \in Sealers, SealResearch(s) PROVE SealInv'
  <2>1. /\ sealers[s] = "idle" /\ sealers' = [sealers EXCEPT ![s] = "baseline"]
        /\ UNCHANGED <<champion, inside, anchors>> /\ Status = "finished" /\ Lifecycle' = Lifecycle
    BY <1>3 DEF SealResearch, SealerGoes, sessionVars, Lifecycle, Latest
  <2>2. Lifecycle = "finished"
    BY <2>1 DEF Status
  <2> QED BY <2>1, <2>2 DEF SealInv, SealedOnceAfterFinish, Sealed, Subject
<1>4. ASSUME NEW s \in Sealers, EvaluateSealed(s) PROVE SealInv'
  <2>1. /\ UNCHANGED <<champion, anchors>> /\ Lifecycle' = Lifecycle
        /\ sealers[s] \in {"baseline", "final"} /\ s \notin inside
    BY <1>4 DEF EvaluateSealed, sessionVars, Lifecycle, Latest
  <2>2. CASE sealers' = [sealers EXCEPT ![s] = "idle"] /\ UNCHANGED inside
    BY <2>1, <2>2 DEF SealInv, SealedOnceAfterFinish, Sealed, Subject
  <2>3. CASE sealers' = [sealers EXCEPT ![s] = After(s)] /\ UNCHANGED inside /\ inside = {}
             /\ Sealed(Subject(s))
    BY <2>1, <2>3 DEF SealInv, SealedOnceAfterFinish, Sealed, Subject, After
  <2>4. CASE inside' = {s} /\ UNCHANGED sealers /\ ~Sealed(Subject(s))
    BY <2>1, <2>4 DEF SealInv, SealedOnceAfterFinish, Sealed, Subject
  <2> QED BY <1>4, <2>2, <2>3, <2>4 DEF EvaluateSealed, SealerGoes
<1>5. ASSUME NEW s \in Sealers, KillSealer(s) PROVE SealInv'
  <2>1. /\ UNCHANGED <<champion, anchors>> /\ Lifecycle' = Lifecycle
        /\ sealers' = [sealers EXCEPT ![s] = "idle"] /\ inside' = inside \ {s}
    BY <1>5 DEF KillSealer, SealerGoes, sessionVars, Lifecycle, Latest
  <2> QED BY <2>1 DEF SealInv, SealedOnceAfterFinish, Sealed, Subject
<1> QED BY <1>1, <1>2, <1>3, <1>4, <1>5, RecordKeeps DEF Next

------------------------------------------------------------------------------
(* What the journal says of cost. *)

\* f sums the costs of the first n receipts of j.
Sums(f, j, n) == f = [k \in 0..n |-> IF k = 0 THEN 0 ELSE f[k - 1] + j[k].cost]

LEMMA LeastNatural ==
  ASSUME NEW S \in SUBSET Nat, S # {}
  PROVE  \E x \in S : \A y \in S : x <= y
<1>1. PICK x \in S : \A y \in S : ~(<<y, x>> \in OpToRel(<, Nat))
  BY WFMin, NatLessThanWellFounded
<1>2. \A y \in S : ~(y < x)
  BY <1>1 DEF OpToRel
<1> QED BY <1>2

LEMMA SumExists ==
  ASSUME NEW j, NEW n \in Nat
  PROVE  \E f : Sums(f, j, n)
<1> DEFINE bad == {m \in 0..n : ~\E f : Sums(f, j, m)}
<1>1. SUFFICES ASSUME bad # {} PROVE FALSE
  <2>1. n \in 0..n
    OBVIOUS
  <2> QED BY <2>1
<1>2. bad \in SUBSET Nat
  OBVIOUS
<1>3. PICK m \in bad : \A y \in bad : m <= y
  BY <1>1, <1>2, LeastNatural
<1>4. m \in 0..n /\ ~\E f : Sums(f, j, m)
  BY <1>3
<1>5. m # 0
  <2>1. Sums([k \in 0..0 |-> 0], j, 0)
    BY DEF Sums
  <2> QED BY <1>4, <2>1
<1>6. m - 1 \in 0..n /\ ~(m <= m - 1)
  BY <1>4, <1>5
<1>7. PICK f : Sums(f, j, m - 1)
  BY <1>3, <1>6
<1> DEFINE g == [k \in 0..m |-> IF k = m THEN f[m - 1] + j[m].cost ELSE f[k]]
<1>8. \A k \in 0..m - 1 : f[k] = IF k = 0 THEN 0 ELSE f[k - 1] + j[k].cost
  BY <1>7 DEF Sums
<1>9. \A k \in 0..m : g[k] = IF k = 0 THEN 0 ELSE g[k - 1] + j[k].cost
  <2> TAKE k \in 0..m
  <2>1. CASE k = m
    BY <1>4, <1>5, <2>1
  <2>2. CASE k # m
    <3>1. k \in 0..m - 1 /\ (k # 0 => k - 1 \in 0..m - 1)
      BY <1>4, <2>2
    <3>2. g[k] = f[k] /\ (k # 0 => g[k - 1] = f[k - 1])
      BY <1>4, <2>2, <3>1
    <3> QED BY <1>8, <3>1, <3>2
  <2> QED BY <2>1, <2>2
<1>10. Sums(g, j, m)
  <2>1. g = [k \in 0..m |-> g[k]]
    OBVIOUS
  <2> QED BY <1>9, <2>1 DEF Sums
<1> QED BY <1>4, <1>10

SameCosts(i, j, n) == \A k \in 1..n : i[k].cost = j[k].cost /\ i[k].cost \in Int
SameSums(f, g, n) == \A k \in 0..n : f[k] = g[k] /\ f[k] \in Int

\* Two sums agree on the receipts they share.
LEMMA SumsAgree ==
  ASSUME NEW i, NEW j, NEW n \in Nat, NEW m \in Nat, n <= m, SameCosts(i, j, n),
         NEW f, Sums(f, i, n), NEW g, Sums(g, j, m)
  PROVE  SameSums(f, g, n)
<1> DEFINE bad == {k \in 0..n : ~(f[k] = g[k] /\ f[k] \in Int)}
<1>1. SUFFICES ASSUME bad # {} PROVE FALSE
  BY DEF SameSums
<1>2. bad \in SUBSET Nat
  OBVIOUS
<1>3. PICK k \in bad : \A y \in bad : k <= y
  BY <1>1, <1>2, LeastNatural
<1>4. k \in 0..n /\ k \in 0..m
  BY <1>3
<1>5. /\ f[k] = IF k = 0 THEN 0 ELSE f[k - 1] + i[k].cost
      /\ g[k] = IF k = 0 THEN 0 ELSE g[k - 1] + j[k].cost
  BY <1>4 DEF Sums
<1>6. k # 0 => k - 1 \in 0..n /\ ~(k <= k - 1) /\ k \in 1..n
  BY <1>4
<1>7. k # 0 => /\ f[k - 1] = g[k - 1] /\ f[k - 1] \in Int
               /\ i[k].cost = j[k].cost /\ i[k].cost \in Int
  BY <1>3, <1>6 DEF SameCosts
<1>8. f[k] = g[k] /\ f[k] \in Int
  BY <1>5, <1>7
<1> QED BY <1>3, <1>8

LEMMA ObservedIsSum ==
  ASSUME NEW n \in Nat, n = Len(journal)
  PROVE  \E f : Sums(f, journal, n) /\ ObservedCost = f[n]
<1> DEFINE total == CHOOSE f : Sums(f, journal, n)
<1>1. Sums(total, journal, n)
  BY SumExists
<1>2. ObservedCost = total[n]
  BY DEF ObservedCost, Sums
<1> QED BY <1>1, <1>2

LEMMA ObservedIsSumThen ==
  ASSUME NEW n \in Nat, n = Len(journal')
  PROVE  \E f : Sums(f, journal', n) /\ ObservedCost' = f[n]
<1> DEFINE total == CHOOSE f : Sums(f, journal', n)
<1>1. Sums(total, journal', n)
  BY SumExists
<1>2. ObservedCost' = total[n]
  BY DEF ObservedCost, Sums
<1> QED BY <1>1, <1>2

LEMMA SumIsNumber ==
  ASSUME JournalShape
  PROVE  ObservedCost \in Int
<1>1. PICK n \in Nat : n = Len(journal)
  BY DEF JournalShape
<1>2. \A k \in 1..n : journal[k] \in Entry
  BY <1>1 DEF JournalShape
<1>3. SameCosts(journal, journal, n)
  BY <1>2 DEF Entry, SameCosts
<1>4. PICK f : Sums(f, journal, n) /\ ObservedCost = f[n]
  BY <1>1, ObservedIsSum
<1>5. SameSums(f, f, n)
  BY <1>3, <1>4, SumsAgree
<1>6. n \in 0..n
  OBVIOUS
<1> QED BY <1>4, <1>5, <1>6 DEF SameSums

\* A receipt adds its cost.
LEMMA CostGrows ==
  ASSUME JournalShape, NEW e \in Entry, journal' = Append(journal, e)
  PROVE  ObservedCost \in Int /\ ObservedCost' = ObservedCost + e.cost
<1>1. PICK n \in Nat : n = Len(journal)
  BY DEF JournalShape
<1>2. /\ Len(journal') = n + 1 /\ n + 1 \in Nat /\ n <= n + 1
      /\ \A k \in 1..n : journal[k] = journal'[k] /\ journal[k] \in Entry
      /\ journal'[n + 1] = e
  BY <1>1 DEF JournalShape
<1>3. PICK f : Sums(f, journal, n) /\ ObservedCost = f[n]
  BY <1>1, ObservedIsSum
<1>4. PICK g : Sums(g, journal', n + 1) /\ ObservedCost' = g[n + 1]
  BY <1>2, ObservedIsSumThen
<1>5. f[n] = g[n] /\ f[n] \in Int
  <2>1. SameCosts(journal, journal', n)
    BY <1>2 DEF Entry, SameCosts
  <2>2. SameSums(f, g, n)
    BY <1>2, <1>3, <1>4, <2>1, SumsAgree
  <2>3. n \in 0..n
    OBVIOUS
  <2> QED BY <2>2, <2>3 DEF SameSums
<1>6. g[n + 1] = g[n] + e.cost
  BY <1>2, <1>4 DEF Sums
<1> QED BY <1>3, <1>4, <1>5, <1>6

\* An id is started once and at most one is pending, the one in execution if any.
OneAtATime ==
  /\ \A i, j \in DOMAIN journal :
       /\ journal[i].phase = "started" /\ journal[j].phase = "started"
       /\ journal[i].request.id = journal[j].request.id
       => i = j
  /\ \A a, b \in Pending : a = b
  /\ exec.pc \in {"dispatch", "receipt"} =>
       /\ exec.request.id \in Pending
       /\ \E k \in DOMAIN journal : journal[k].phase = "started" /\ journal[k].request = exec.request

\* What was paid is on the journal, but for what the artifacts of the pending action say.
CostInv ==
  /\ artifacts \in [Paying -> Nat] /\ paid \in Int
  /\ Pending = {} => paid <= ObservedCost
  /\ \A k \in DOMAIN journal :
       journal[k].phase = "started" /\ journal[k].request.id \in Pending =>
         paid <= ObservedCost + ObservedActionCost(journal[k].request)
  /\ exec.pc = "dispatch" => ~exec.ok /\ paid <= ObservedCost
  /\ exec.pc = "receipt" /\ exec.ok => exec.cost = ObservedActionCost(exec.request)

\* An optimizer is frozen before its adoption is on record.
FrozenFirst ==
  /\ Initial \in snapshots
  /\ \A k \in DOMAIN journal :
       journal[k].phase = "completed" /\ journal[k].request.kind = "adopt_optimizer" =>
         journal[k].request.optimizer \in snapshots
  /\ exec.pc = "receipt" /\ exec.ok /\ exec.request.kind = "adopt_optimizer" =>
       exec.request.optimizer \in snapshots

LEMMA JournalGrows ==
  ASSUME JournalShape, NEW e \in Entry, journal' = Append(journal, e)
  PROVE  \E n \in Nat :
           /\ n = Len(journal) /\ DOMAIN journal = 1..n /\ DOMAIN journal' = 1..n + 1
           /\ \A i \in 1..n : journal'[i] = journal[i] /\ journal[i] \in Entry
           /\ journal'[n + 1] = e
<1>1. PICK n \in Nat : n = Len(journal)
  BY DEF JournalShape
<1>2. /\ DOMAIN journal = 1..n /\ DOMAIN journal' = 1..n + 1
      /\ \A i \in 1..n : journal'[i] = journal[i] /\ journal[i] \in Entry
      /\ journal'[n + 1] = e
  BY <1>1 DEF JournalShape
<1> QED BY <1>1, <1>2

LEMMA BeginPending ==
  ASSUME SessionInv, NEW who, NEW r \in AllRequests, Begin(who, r)
  PROVE  /\ \E e \in Entry : /\ e.phase = "started" /\ e.request = r /\ e.cost = 0
                             /\ journal' = Append(journal, e)
         /\ Pending = {} /\ Pending' = {r.id} /\ ~Started(r.id)
<1> DEFINE d == Receipt("started", r, 0)
<1>1. PICK e \in Entry : /\ e.phase = "started" /\ e.request = r /\ e.cost = 0
                         /\ journal' = Append(journal, e)
  <2>1. d \in Entry /\ d.phase = "started" /\ d.request = r /\ d.cost = 0
    BY DEF SessionInv, JournalShape, Receipt, Entry
  <2>2. journal' = Append(journal, d)
    BY DEF Begin
  <2> QED BY <2>1, <2>2
<1>2. Pending = {} /\ ~Terminal(r.id)
  BY DEF Begin, Admitted
<1>3. \A id \in Ids : /\ Started(id)' <=> Started(id) \/ id = r.id
                      /\ Terminal(id)' <=> Terminal(id)
  BY <1>1, StartedGrows, TerminalGrows DEF SessionInv
<1>4. r.id \in Ids
  BY RequestFacts
<1>5. Pending' = {r.id}
  BY <1>2, <1>3, <1>4 DEF Pending
<1>6. ~Started(r.id)
  BY <1>2, <1>4 DEF Pending
<1> QED BY <1>1, <1>2, <1>5, <1>6

\* A receipt that ends the one pending action.
LEMMA EndPending ==
  ASSUME SessionInv, OneAtATime, NEW id \in Pending, NEW e \in Entry,
         e.phase \in {"completed", "failed"}, e.request.id = id,
         journal' = Append(journal, e)
  PROVE  Pending' = {}
<1>1. \A i \in Ids : /\ Started(i)' <=> Started(i)
                     /\ Terminal(i)' <=> Terminal(i) \/ i = id
  BY StartedGrows, TerminalGrows DEF SessionInv
<1>2. \A i \in Ids : Started(i) /\ ~Terminal(i) => i = id
  BY DEF OneAtATime, Pending
<1> QED BY <1>1, <1>2 DEF Pending

LEMMA WritePending ==
  ASSUME SessionInv, OneAtATime, WriteReceipt
  PROVE  /\ \E e \in Entry :
              /\ e.phase = (IF exec.ok THEN "completed" ELSE "failed")
              /\ e.request = exec.request
              /\ e.cost = (IF exec.ok THEN exec.cost ELSE ObservedActionCost(exec.request))
              /\ journal' = Append(journal, e)
         /\ Pending' = {}
<1> DEFINE r == exec.request
           d == IF exec.ok THEN Receipt("completed", r, exec.cost)
                ELSE Receipt("failed", r, ObservedActionCost(r))
<1>1. PICK e \in Entry :
        /\ e.phase = (IF exec.ok THEN "completed" ELSE "failed") /\ e.request = r
        /\ e.cost = (IF exec.ok THEN exec.cost ELSE ObservedActionCost(r))
        /\ journal' = Append(journal, e)
  <2>1. /\ d \in Entry /\ d.phase = (IF exec.ok THEN "completed" ELSE "failed") /\ d.request = r
        /\ d.cost = (IF exec.ok THEN exec.cost ELSE ObservedActionCost(r))
    BY CostIsNumber DEF SessionInv, JournalShape, WriteReceipt, Receipt, Entry
  <2>2. journal' = Append(journal, d)
    BY DEF WriteReceipt
  <2> HIDE DEF d
  <2> QED BY <2>1, <2>2
<1>2. r.id \in Pending
  BY DEF OneAtATime, WriteReceipt
<1>3. Pending' = {}
  BY <1>1, <1>2, EndPending
<1> QED BY <1>1, <1>3

LEMMA ResolvePending ==
  ASSUME SessionInv, OneAtATime, ResolveInterrupted
  PROVE  \E k \in DOMAIN journal, e \in Entry :
           /\ journal[k].phase = "started" /\ journal[k].request.id \in Pending
           /\ e.phase = "failed" /\ e.request = journal[k].request
           /\ e.cost = ObservedActionCost(journal[k].request)
           /\ journal' = Append(journal, e)
           /\ Pending' = {}
<1>1. PICK id \in Pending :
        journal' = Append(journal,
          Receipt("failed", Recorded(id), ObservedActionCost(Recorded(id))))
  BY DEF ResolveInterrupted
<1>2. PICK k \in DOMAIN journal : journal[k].phase = "started" /\ journal[k].request.id = id
  BY DEF Pending, Started
<1> DEFINE r == journal[k].request
           e == Receipt("failed", r, ObservedActionCost(r))
<1>3. Recorded(id) = r
  <2> DEFINE S == {journal[k1] : k1 \in DOMAIN journal}
             c == CHOOSE f \in S : f.phase = "started" /\ f.request.id = id
  <2>1. c \in S /\ c.phase = "started" /\ c.request.id = id
    <3>1. \E f \in S : f.phase = "started" /\ f.request.id = id
      BY <1>2
    <3> QED BY <3>1
  <2>2. PICK i \in DOMAIN journal : c = journal[i]
    BY <2>1
  <2>3. i = k
    BY <1>2, <2>1, <2>2 DEF OneAtATime
  <2>4. Recorded(id) = c.request
    BY DEF Recorded
  <2> QED BY <2>2, <2>3, <2>4
<1>4. r \in AllRequests
  <2>1. journal[k] \in Entry
    BY <1>2 DEF SessionInv, JournalShape
  <2> QED BY <2>1 DEF Entry
<1>5. e \in Entry /\ e.phase = "failed" /\ e.request = r /\ e.cost = ObservedActionCost(r)
  BY <1>4, CostIsNumber DEF SessionInv, JournalShape, Receipt, Entry
<1>6. journal' = Append(journal, e)
  BY <1>1, <1>3
<1> HIDE DEF e
<1>7. Pending' = {}
  BY <1>2, <1>5, <1>6, EndPending
<1> QED BY <1>2, <1>5, <1>6, <1>7

LEMMA OneAtATimeKeeps ==
  ASSUME SessionInv, OneAtATime, NEW callers, SessionStepOf(callers)
  PROVE  OneAtATime'
<1>1. ASSUME NEW who, NEW r \in AllRequests, Begin(who, r) PROVE OneAtATime'
  <2>1. PICK e \in Entry : /\ e.phase = "started" /\ e.request = r
                           /\ journal' = Append(journal, e)
    BY <1>1, BeginPending
  <2>2. Pending' = {r.id} /\ ~Started(r.id) /\ exec'.request = r
    BY <1>1, BeginPending DEF Begin, Idle
  <2>3. PICK n \in Nat :
           /\ n = Len(journal) /\ DOMAIN journal = 1..n /\ DOMAIN journal' = 1..n + 1
           /\ \A i \in 1..n : journal'[i] = journal[i] /\ journal[i] \in Entry
           /\ journal'[n + 1] = e
    BY <2>1, JournalGrows DEF SessionInv
  <2>4. \A i \in 1..n : ~(journal[i].phase = "started" /\ journal[i].request.id = r.id)
    BY <2>2, <2>3 DEF Started
  <2>5. \A i, j \in DOMAIN journal' :
          /\ journal'[i].phase = "started" /\ journal'[j].phase = "started"
          /\ journal'[i].request.id = journal'[j].request.id
          => i = j
    BY <2>1, <2>3, <2>4 DEF OneAtATime
  <2> QED BY <2>1, <2>2, <2>3, <2>5 DEF OneAtATime
<1>2. ASSUME NEW e \in Entry, e.phase # "started", journal' = Append(journal, e), Pending' = {},
             exec'.pc \notin {"dispatch", "receipt"}
      PROVE  OneAtATime'
  <2>1. PICK n \in Nat :
           /\ n = Len(journal) /\ DOMAIN journal = 1..n /\ DOMAIN journal' = 1..n + 1
           /\ \A i \in 1..n : journal'[i] = journal[i] /\ journal[i] \in Entry
           /\ journal'[n + 1] = e
    BY <1>2, JournalGrows DEF SessionInv
  <2> QED BY <1>2, <2>1 DEF OneAtATime
<1>3. ASSUME WriteReceipt PROVE OneAtATime'
  <2>1. exec'.pc \notin {"dispatch", "receipt"}
    BY <1>3 DEF WriteReceipt, Idle, SessionInv, JournalShape
  <2> QED BY <1>2, <1>3, <2>1, WritePending
<1>4. ASSUME ResolveInterrupted PROVE OneAtATime'
  <2>1. exec'.pc \notin {"dispatch", "receipt"}
    BY <1>4 DEF ResolveInterrupted, Idle
  <2> QED BY <1>2, <1>4, <2>1, ResolvePending
<1>5. ASSUME UNCHANGED journal, \/ exec' = Idle \/ exec' = exec
                                \/ exec.pc = "dispatch" /\ exec'.request = exec.request
      PROVE  OneAtATime'
  <2>1. Pending' = Pending
    BY <1>5 DEF Pending, Started, Terminal
  <2> QED BY <1>5, <2>1 DEF OneAtATime, Idle
<1>6. ASSUME Dispatch \/ CloseSession \/ KillAction \/ Expire PROVE OneAtATime'
  BY <1>5, <1>6, DispatchChanges DEF CloseSession, KillAction, Expire, SessionInv
<1> QED BY <1>1, <1>3, <1>4, <1>6 DEF SessionStepOf

LEMMA DispatchEffect ==
  ASSUME JournalShape, Dispatch
  PROVE  LET r == exec.request IN
         \/ \E cost \in (IF r.kind \in Paying THEN Costs ELSE {0}), ok \in BOOLEAN :
              /\ Effect(r, cost) /\ exec'.ok = ok /\ exec'.cost = cost
         \/ /\ exec'.ok = exec.ok
            /\ UNCHANGED <<artifacts, paid, ledger, snapshots, unpriced>>
<1> DEFINE r == exec.request
<1>1. ASSUME NEW cost \in (IF r.kind \in Paying THEN Costs ELSE {0}), NEW ok \in BOOLEAN,
             Effect(r, cost), exec' = [exec EXCEPT !.pc = "receipt", !.ok = ok, !.cost = cost]
      PROVE  exec'.ok = ok /\ exec'.cost = cost
  BY <1>1 DEF JournalShape
<1>2. exec' = [exec EXCEPT !.pc = "receipt"] => exec'.ok = exec.ok
  BY DEF JournalShape
<1>3. \/ \E cost \in (IF r.kind \in Paying THEN Costs ELSE {0}), ok \in BOOLEAN :
           /\ Effect(r, cost)
           /\ exec' = [exec EXCEPT !.pc = "receipt", !.ok = ok, !.cost = cost]
      \/ /\ exec' = [exec EXCEPT !.pc = "receipt"]
         /\ UNCHANGED <<artifacts, paid, ledger, snapshots, unpriced>>
  BY DEF Dispatch
<1> QED BY <1>1, <1>2, <1>3

LEMMA DispatchCost ==
  ASSUME SessionInv, OneAtATime, CostInv, Dispatch
  PROVE  CostInv'
<1> DEFINE r == exec.request
<1>1. /\ exec.pc = "dispatch" /\ exec'.pc = "receipt" /\ exec'.request = r
      /\ UNCHANGED journal
  BY DispatchChanges DEF SessionInv
<1>2. Pending' = Pending /\ ObservedCost' = ObservedCost
  BY <1>1 DEF Pending, Started, Terminal, ObservedCost
<1>3. /\ ~exec.ok /\ paid <= ObservedCost /\ artifacts \in [Paying -> Nat] /\ paid \in Int
      /\ r.id \in Pending
  BY <1>1 DEF CostInv, OneAtATime
<1>4. PICK total \in Int : total = ObservedCost
  BY SumIsNumber DEF SessionInv
<1>5. \A k \in DOMAIN journal :
        journal[k].phase = "started" /\ journal[k].request.id \in Pending =>
          journal[k].request = r
  BY <1>1 DEF OneAtATime
<1>6. ASSUME NEW cost \in (IF r.kind \in Paying THEN Costs ELSE {0}), NEW ok \in BOOLEAN,
             Effect(r, cost), exec'.ok = ok, exec'.cost = cost
      PROVE  CostInv'
  <2>1. cost \in Nat
    BY SessionAssumption
  <2>2. artifacts' \in [Paying -> Nat] /\ ObservedActionCost(r)' = cost
    <3>1. CASE r.kind \in Paying
      <4>1. artifacts' = [artifacts EXCEPT ![r.kind] = cost]
        BY <1>6, <3>1 DEF Effect
      <4> QED BY <1>1, <1>3, <2>1, <3>1, <4>1 DEF ObservedActionCost
    <3>2. CASE r.kind \notin Paying
      BY <1>1, <1>3, <1>6, <3>2 DEF Effect, ObservedActionCost
    <3> QED BY <3>1, <3>2
  <2>3. paid' \in Int /\ paid' <= total + cost
    BY <1>3, <1>4, <1>6, <2>1 DEF Effect
  <2>4. \A k \in DOMAIN journal' :
          journal'[k].phase = "started" /\ journal'[k].request.id \in Pending' =>
            ObservedActionCost(journal[k].request)' = cost
    BY <1>1, <1>2, <1>5, <2>2
  <2>5. Pending' # {}
    BY <1>2, <1>3
  <2> QED BY <1>1, <1>2, <1>4, <1>6, <2>2, <2>3, <2>4, <2>5 DEF CostInv
<1>7. ASSUME exec'.ok = exec.ok, UNCHANGED <<artifacts, paid>>
      PROVE  CostInv'
  <2>1. ~exec'.ok
    BY <1>3, <1>7
  <2>2. \A q : ObservedActionCost(q)' = ObservedActionCost(q)
    BY <1>7 DEF ObservedActionCost
  <2> QED BY <1>1, <1>2, <1>7, <2>1, <2>2 DEF CostInv
<1> QED BY <1>6, <1>7, DispatchEffect DEF SessionInv

LEMMA CostKeeps ==
  ASSUME SessionInv, OneAtATime, CostInv, NEW callers, SessionStepOf(callers)
  PROVE  CostInv'
<1>0. ObservedCost \in Int
  BY SumIsNumber DEF SessionInv
<1>1. ASSUME NEW who, NEW r \in AllRequests, Begin(who, r) PROVE CostInv'
  <2>1. PICK e \in Entry : e.cost = 0 /\ journal' = Append(journal, e)
    BY <1>1, BeginPending
  <2>2. Pending = {} /\ Pending' = {r.id}
    BY <1>1, BeginPending
  <2>3. ObservedCost' = ObservedCost
    BY <1>0, <2>1, CostGrows DEF SessionInv
  <2>4. UNCHANGED <<artifacts, paid>> /\ exec'.pc = "dispatch" /\ ~exec'.ok
    BY <1>1 DEF Begin, Idle
  <2>5. artifacts \in [Paying -> Nat] /\ paid \in Int /\ paid <= ObservedCost
    BY <2>2 DEF CostInv
  <2>6. \A q : ObservedActionCost(q)' \in Nat
    BY <2>4, <2>5 DEF ObservedActionCost
  <2>7. \A k : paid <= ObservedCost + ObservedActionCost(journal[k].request)'
    BY <1>0, <2>5, <2>6
  <2> QED BY <2>2, <2>3, <2>4, <2>5, <2>7 DEF CostInv
<1>2. ASSUME NEW e \in Entry, journal' = Append(journal, e), Pending' = {},
             UNCHANGED <<artifacts, paid>>, exec'.pc \notin {"dispatch", "receipt"},
             NEW k \in DOMAIN journal, journal[k].phase = "started",
             journal[k].request.id \in Pending,
             e.cost = ObservedActionCost(journal[k].request)
      PROVE  CostInv'
  <2>1. ObservedCost' = ObservedCost + ObservedActionCost(journal[k].request)
    BY <1>2, CostGrows DEF SessionInv
  <2>2. paid <= ObservedCost'
    BY <1>2, <2>1 DEF CostInv
  <2> QED BY <1>2, <2>2 DEF CostInv
<1>3. ASSUME WriteReceipt PROVE CostInv'
  <2>1. exec.pc = "receipt" /\ exec'.pc \notin {"dispatch", "receipt"}
        /\ UNCHANGED <<artifacts, paid>>
    BY <1>3 DEF WriteReceipt, Idle, SessionInv, JournalShape
  <2>2. PICK k \in DOMAIN journal : /\ journal[k].phase = "started"
                                    /\ journal[k].request = exec.request
                                    /\ exec.request.id \in Pending
    BY <2>1 DEF OneAtATime
  <2>3. PICK e \in Entry :
          /\ e.cost = (IF exec.ok THEN exec.cost ELSE ObservedActionCost(exec.request))
          /\ journal' = Append(journal, e)
    BY <1>3, WritePending
  <2>4. e.cost = ObservedActionCost(journal[k].request)
    BY <2>1, <2>2, <2>3 DEF CostInv
  <2>5. Pending' = {}
    BY <1>3, WritePending
  <2> QED BY <1>2, <2>1, <2>2, <2>3, <2>4, <2>5
<1>4. ASSUME ResolveInterrupted PROVE CostInv'
  <2>1. exec'.pc \notin {"dispatch", "receipt"} /\ UNCHANGED <<artifacts, paid>>
    BY <1>4 DEF ResolveInterrupted, Idle
  <2> QED BY <1>2, <1>4, <2>1, ResolvePending
<1>5. ASSUME UNCHANGED <<journal, artifacts, paid>>, exec' = Idle \/ exec' = exec
      PROVE  CostInv'
  <2>1. Pending' = Pending /\ ObservedCost' = ObservedCost
    BY <1>5 DEF Pending, Started, Terminal, ObservedCost
  <2>2. \A q : ObservedActionCost(q)' = ObservedActionCost(q)
    BY <1>5 DEF ObservedActionCost
  <2> QED BY <1>5, <2>1, <2>2 DEF CostInv, Idle
<1>6. ASSUME CloseSession \/ KillAction \/ Expire PROVE CostInv'
  BY <1>5, <1>6 DEF CloseSession, KillAction, Expire
<1> QED BY <1>1, <1>3, <1>4, <1>6, DispatchCost DEF SessionStepOf

LEMMA FrozenKeeps ==
  ASSUME SessionInv, OneAtATime, CostInv, FrozenFirst, NEW callers, SessionStepOf(callers)
  PROVE  FrozenFirst'
<1>1. ASSUME NEW e \in Entry, journal' = Append(journal, e), UNCHANGED snapshots,
             exec'.pc # "receipt",
             e.phase = "completed" /\ e.request.kind = "adopt_optimizer" =>
               e.request.optimizer \in snapshots
      PROVE  FrozenFirst'
  <2>1. PICK n \in Nat :
           /\ n = Len(journal) /\ DOMAIN journal = 1..n /\ DOMAIN journal' = 1..n + 1
           /\ \A i \in 1..n : journal'[i] = journal[i] /\ journal[i] \in Entry
           /\ journal'[n + 1] = e
    BY <1>1, JournalGrows DEF SessionInv
  <2> QED BY <1>1, <2>1 DEF FrozenFirst
<1>2. ASSUME NEW who, NEW r \in AllRequests, Begin(who, r) PROVE FrozenFirst'
  <2>1. PICK e \in Entry : e.phase = "started" /\ journal' = Append(journal, e)
    BY <1>2, BeginPending
  <2>2. UNCHANGED snapshots /\ exec'.pc # "receipt"
    BY <1>2 DEF Begin, Idle
  <2> QED BY <1>1, <2>1, <2>2
<1>3. ASSUME WriteReceipt PROVE FrozenFirst'
  <2>1. exec.pc = "receipt" /\ exec'.pc # "receipt" /\ UNCHANGED snapshots
    BY <1>3 DEF WriteReceipt, Idle, SessionInv, JournalShape
  <2>2. PICK e \in Entry : /\ e.phase = (IF exec.ok THEN "completed" ELSE "failed")
                           /\ e.request = exec.request /\ journal' = Append(journal, e)
    BY <1>3, WritePending
  <2> QED BY <1>1, <2>1, <2>2 DEF FrozenFirst
<1>4. ASSUME ResolveInterrupted PROVE FrozenFirst'
  <2>1. PICK e \in Entry : e.phase = "failed" /\ journal' = Append(journal, e)
    BY <1>4, ResolvePending
  <2>2. UNCHANGED snapshots /\ exec'.pc # "receipt"
    BY <1>4 DEF ResolveInterrupted, Idle
  <2> QED BY <1>1, <2>1, <2>2
<1>5. ASSUME Dispatch PROVE FrozenFirst'
  <2>1. exec.pc = "dispatch" /\ UNCHANGED journal /\ exec'.request = exec.request
    BY <1>5, DispatchChanges DEF SessionInv
  <2>2. ~exec.ok
    BY <2>1 DEF CostInv
  <2>3. \/ ~exec'.ok /\ UNCHANGED snapshots
        \/ snapshots' = IF exec.request.kind = "adopt_optimizer"
                        THEN snapshots \cup {exec.request.optimizer} ELSE snapshots
    BY <1>5, <2>2, DispatchEffect DEF SessionInv, Effect
  <2> QED BY <2>1, <2>3 DEF FrozenFirst
<1>6. ASSUME CloseSession \/ KillAction \/ Expire PROVE FrozenFirst'
  <2>1. UNCHANGED <<journal, snapshots>> /\ (exec' = Idle \/ exec' = exec)
    BY <1>6 DEF CloseSession, KillAction, Expire
  <2> QED BY <2>1 DEF FrozenFirst, Idle
<1> QED BY <1>2, <1>3, <1>4, <1>5, <1>6 DEF SessionStepOf

JournalInv == OneAtATime /\ CostInv /\ FrozenFirst

LEMMA JournalStays ==
  ASSUME JournalInv, UNCHANGED sessionVars
  PROVE  JournalInv'
<1>1. Pending' = Pending /\ ObservedCost' = ObservedCost
  BY DEF sessionVars, Pending, Started, Terminal, ObservedCost
<1>2. \A q : ObservedActionCost(q)' = ObservedActionCost(q)
  BY DEF sessionVars, ObservedActionCost
<1> QED BY <1>1, <1>2 DEF sessionVars, JournalInv, OneAtATime, CostInv, FrozenFirst

\* What the invariants say of the properties.
LEMMA ActiveIsFrozen ==
  ASSUME JournalShape, FrozenFirst
  PROVE  ActiveOptimizer \in snapshots
<1> DEFINE hits == {i \in DOMAIN journal : /\ journal[i].phase = "completed"
                                         /\ journal[i].request.kind \in {"adopt_optimizer"}}
           top == CHOOSE i \in hits : \A f \in hits : f <= i
<1>1. hits \subseteq 1..Len(journal) /\ Len(journal) \in Nat
  BY DEF JournalShape
<1>2. Latest({"adopt_optimizer"}) = (IF hits = {} THEN None ELSE journal[top].request)
  BY DEF Latest
<1>3. hits # {} => top \in hits
  <2>1. hits # {} => \E x \in hits : \A y \in hits : y <= x
    BY <1>1, LargestExists
  <2> QED BY <2>1
<1>4. hits # {} => journal[top].request.optimizer \in snapshots
  BY <1>3 DEF FrozenFirst
<1> HIDE DEF top, hits
<1>5. PICK last : last = Latest({"adopt_optimizer"})
  OBVIOUS
<1>6. ActiveOptimizer = IF last = None THEN Initial ELSE last.optimizer
  BY <1>5 DEF ActiveOptimizer
<1>7. last # None => hits # {} /\ last = journal[top].request
  BY <1>2, <1>5
<1> QED BY <1>4, <1>6, <1>7 DEF FrozenFirst

LEMMA SaysTrue ==
  ASSUME SessionInv, JournalInv PROVE JournalIsTrue
<1>1. DispatchedOnce
  BY DEF SessionInv, StartedFirst, DispatchedOnce
<1>2. ActiveOptimizer \in snapshots
  BY ActiveIsFrozen DEF SessionInv, JournalInv
<1>3. Pending = {} => ObservedCost >= paid
  BY SumIsNumber DEF SessionInv, JournalInv, CostInv
<1> QED BY <1>1, <1>2, <1>3 DEF JournalIsTrue

------------------------------------------------------------------------------
LEMMA SessionStarts ==
  ASSUME Init PROVE SessionInv /\ JournalInv
<1>1. journal = << >> /\ exec = Idle /\ ledger = 0 /\ effects = [id \in Ids |-> 0]
      /\ artifacts = [k \in Paying |-> 0]
  BY DEF Init
<1>2. JournalShape
  BY <1>1 DEF JournalShape, Idle
<1>3. StartedFirst
  BY <1>1 DEF StartedFirst, Idle
<1>4. \A kinds : StartedOf(kinds) = {}
  BY <1>1 DEF StartedOf
<1>5. BudgetsHold
  BY <1>4, FS_EmptySet, SessionAssumption DEF BudgetsHold, OperatorCalls, Evaluations
<1>6. JournalInv
  <2>1. Pending = {} /\ DOMAIN journal = {} /\ exec.pc = "idle"
    BY <1>1 DEF Pending, Started, Idle
  <2>2. ObservedCost = 0
    <3>1. PICK f : Sums(f, journal, 0) /\ ObservedCost = f[0]
      BY <1>1, ObservedIsSum
    <3> QED BY <3>1 DEF Sums
  <2>3. paid = 0 /\ artifacts \in [Paying -> Nat] /\ Initial \in snapshots
    BY DEF Init
  <2> QED BY <2>1, <2>2, <2>3 DEF JournalInv, OneAtATime, CostInv, FrozenFirst
<1> QED BY <1>2, <1>3, <1>5, <1>6 DEF SessionInv

LEMMA InitHolds ==
  ASSUME ComparisonInit
  PROVE  SessionInv /\ Settled /\ OwnArm /\ SealInv /\ JournalInv
<1>1. SessionInv /\ JournalInv
  BY SessionStarts DEF ComparisonInit
<1>2. Settled
  BY DEF ComparisonInit, Init, Settled, Pending, Started, Idle
<1>3. OwnArm
  BY DEF ComparisonInit, OwnArm
<1>4. SealInv
  BY DEF ComparisonInit, SealInv, SealedOnceAfterFinish
<1> QED BY <1>1, <1>2, <1>3, <1>4

IInv == SessionInv /\ Settled /\ OwnArm /\ SealInv /\ JournalInv

LEMMA Inductive == Spec => []IInv
<1>1. ComparisonInit => IInv
  BY InitHolds DEF IInv
<1>2. IInv /\ [Next]_vars => IInv'
  <2> SUFFICES ASSUME IInv, [Next]_vars PROVE IInv'
    OBVIOUS
  <2>1. CASE Next
    <3>1. Settled'
      <4>1. CASE SessionStep
        BY <4>1, SettledKeeps DEF SessionStep, IInv
      <4>2. CASE ~SessionStep
        <5>1. UNCHANGED sessionVars
          BY <2>1, <4>2 DEF Next, StartSession, CloneArm, CopyPart, RotateIdentity, EndClone,
               CloneFails, KillClone, AuditArms, WorkInArm, SealResearch, EvaluateSealed,
               RecordSealed, KillSealer
        <5>2. Pending' = Pending /\ Lifecycle' = Lifecycle /\ exec' = exec
          BY <5>1 DEF sessionVars, Pending, Started, Terminal, Lifecycle, Latest
        <5> QED BY <5>2 DEF IInv, Settled, Idle
      <4> QED BY <4>1, <4>2
    <3>2. JournalInv'
      <4>1. CASE SessionStep
        BY <4>1, OneAtATimeKeeps, CostKeeps, FrozenKeeps DEF SessionStep, IInv, JournalInv
      <4>2. CASE ~SessionStep
        BY <2>1, <4>2, JournalStays DEF IInv, Next, StartSession, CloneArm, CopyPart,
           RotateIdentity, EndClone, CloneFails, KillClone, AuditArms, WorkInArm, SealResearch,
           EvaluateSealed, RecordSealed, KillSealer
      <4> QED BY <4>1, <4>2
    <3> QED BY <2>1, <3>1, <3>2, ArmStepKeeps, HostKeepsSession, SealStepKeeps DEF IInv
  <2>2. CASE UNCHANGED vars
    <3>1. SessionInv'
      BY <2>2, QuietKeeps DEF IInv, vars, sessionVars
    <3>2. OwnArm'
      BY <2>2 DEF IInv, OwnArm, vars, comparisonVars, armVars
    <3>3. Pending' = Pending /\ Lifecycle' = Lifecycle /\ exec' = exec
      BY <2>2 DEF vars, sessionVars, Pending, Started, Terminal, Lifecycle, Latest
    <3>4. Settled'
      BY <3>3 DEF IInv, Settled, Idle
    <3>5. SealInv'
      BY <2>2, <3>3, SealStays DEF IInv, vars, comparisonVars
    <3>6. JournalInv'
      BY <2>2, JournalStays DEF IInv, vars
    <3> QED BY <3>1, <3>2, <3>4, <3>5, <3>6 DEF IInv
  <2> QED BY <2>1, <2>2
<1> QED BY <1>1, <1>2, PTL DEF Spec

------------------------------------------------------------------------------
(* The theorems. *)

\* Whatever dies and whoever retries, an action id is dispatched at most once, for any
\* requests, among them different ones with the same id (execute_action).
THEOREM NothingRunsTwice == Spec => []DispatchedOnce
<1>1. IInv => DispatchedOnce
  BY DEF IInv, SessionInv, StartedFirst, DispatchedOnce
<1> QED BY <1>1, Inductive, PTL

\* The journal can be believed: once nothing is in execution or interrupted it covers every
\* cost that was written, whether the action succeeded, failed or was resolved by a user, and
\* the optimizer it names was frozen first (execute_action, resolve_interrupted).
THEOREM JournalAlwaysTrue == Spec => []JournalIsTrue
<1>1. IInv => JournalIsTrue
  BY SaysTrue DEF IInv
<1> QED BY <1>1, Inductive, PTL

\* No kill, failure or resolution lets one more operator, evaluation or counted action
\* begin than the limits of the session say (_assert_sub_budget, _derive_status).
THEOREM BudgetsAlwaysHold == Spec => []BudgetsHold
<1>1. IInv => BudgetsHold
  BY DEF IInv, SessionInv
<1> QED BY <1>1, Inductive, PTL

\* No line of one arm of a comparison reaches the other, wherever the clone is killed and
\* however often the audit is repeated (clone_arm, audit_arm_pair).
THEOREM ArmsAlwaysApart == Spec => []ArmsStayApart
<1>1. IInv => ArmsStayApart
  BY DEF IInv, OwnArm, ArmsStayApart, Merged
<1> QED BY <1>1, Inductive, PTL

\* However many calls of seal_research race, die or are repeated, a generation gets one
\* complete sealed evaluation and none after it, none comes before the finish, and the
\* champion's follows the baseline's (seal_research, seal_agent_champion).
THEOREM SealedDataOpenedOnce == Spec => []SealedOnceAfterFinish
<1>1. IInv => SealedOnceAfterFinish
  BY DEF IInv, SealInv
<1> QED BY <1>1, Inductive, PTL

------------------------------------------------------------------------------
(* The launcher: what its files say together. *)

\* A record of attempts.jsonl.
Attempt == [phase : {"started", "completed", "failed"}, cost : Nat \cup {None},
            rejected : BOOLEAN]

\* Something is used up for good and no attempt is open.
Spent ==
  launched /\ ControllerReasons \cup ExhaustedReasons # {} /\ ~AttemptPending

Withdrawn == \E r \in released : r.kind \in Lifecycles

\* What is acknowledged has been carried out.
QueueInv ==
  /\ DOMAIN queue = {"status", "request", "resolved"}
  /\ queue.status \in {None, "queued", "completed"}
  /\ queue.status # None => queue.request \in Requests
  /\ queue.status = "completed" => queue.resolved \/ Completed(queue.request.id)

\* A stop lasts.
StopInv ==
  /\ attempts \in Seq(Attempt)
  /\ stop => Spent

\* An import saves each directory under its attempt's name before it replaces it.
ImportInv ==
  /\ DOMAIN place = 1..Dirs
  /\ DOMAIN handoff = {"status", "request", "attempt", "old"}
  /\ handoff.attempt \in Nat /\ handoff.attempt <= Len(attempts)
  /\ Prepared => handoff.request \in Requests
  /\ \A x \in DOMAIN backups : x[1] \in Nat /\ x[1] <= handoff.attempt
  /\ Prepared => \A d \in 1..Dirs :
       <<handoff.attempt, d>> \in DOMAIN backups =>
         backups[<<handoff.attempt, d>>] = handoff.old[d]
  /\ ImportLosesNothing

HostFields == {"pc", "request", "replay", "ok", "cost", "back"}

\* The launcher's position fits its files; after a stop it takes from the queue what it
\* looked at, or what replaced a request that was withdrawn.
HostFits ==
  /\ DOMAIN host = HostFields
  /\ host.ok \in BOOLEAN /\ host.cost \in Nat \cup {None}
  /\ host.back \in {"loop", "record"}
  /\ host.pc \in {"return", "submit", "executing", "ack"} => host.request \in Requests
  /\ host.pc = "ack" => Completed(host.request.id)
  /\ host.pc = "close" => Spent
  /\ host.pc \in {"control", "return"} => handoff.attempt < Len(attempts)
  /\ host.pc = "apply" => Prepared
  /\ stop => /\ host.pc \notin {"launch", "start", "control", "return", "record"}
             /\ host.pc = "apply" => host.back = "loop"
             /\ host.pc = "drain" => (Queued /\ queue.request.kind \in Lifecycles) \/ Withdrawn
             /\ host.pc = "submit" => host.request.kind \in Lifecycles \/ Withdrawn

LauncherInv == QueueInv /\ StopInv /\ ImportInv /\ HostFits

------------------------------------------------------------------------------
(* The launcher drives the session by the session's own steps. *)

LEMMA ActionsAreSteps ==
  ASSUME ActionStep \/ ResolveAction \/ TimePasses \/ KillUser \/ KillHost
         \/ \E r \in Requests : Act(r)
  PROVE  SessionNext \/ UNCHANGED sessionVars
<1>1. CASE ActionStep
  BY <1>1 DEF ActionStep, SessionNext, SessionStepOf
<1>2. CASE ResolveAction \/ TimePasses \/ KillUser \/ KillHost
  BY <1>2 DEF ResolveAction, TimePasses, KillUser, KillHost, SessionNext, SessionStepOf
<1>3. CASE \E r \in Requests : Act(r)
  BY <1>3 DEF Act, SessionNext, SessionStepOf, AllRequests
<1> QED BY <1>1, <1>2, <1>3

LEMMA SubmitsAreSteps ==
  ASSUME HostFits, SubmitQueued \/ CloseFinishes
  PROVE  SessionNext \/ UNCHANGED sessionVars
<1>1. CASE SubmitQueued
  <2>1. host.request \in AllRequests
    BY <1>1 DEF SubmitQueued, HostFits, AllRequests
  <2> QED BY <1>1, <2>1 DEF SubmitQueued, Submit, SessionNext, SessionStepOf
<1>2. CASE CloseFinishes
  BY <1>2 DEF CloseFinishes, Submit, SessionNext, SessionStepOf, AllRequests
<1> QED BY <1>1, <1>2

\* The other steps do not touch the session.
LEMMA LauncherRests ==
  ASSUME ProgressionNext
  PROVE  \/ UNCHANGED sessionVars
         \/ SubmitQueued \/ CloseFinishes
         \/ (\E r \in Requests : Act(r)) \/ ActionStep \/ ResolveAction \/ TimePasses
         \/ KillUser \/ KillHost
<1>1. CASE RunController \/ Recover \/ Decide \/ ReadQueue \/ Executed \/ Acknowledge
           \/ CloseBudget \/ CloseReleases \/ Launch \/ StartAttempt \/ ControllerExits
           \/ AcceptReturn
  BY <1>1 DEF RunController, Recover, Decide, ReadQueue, Executed, Acknowledge, CloseBudget,
              CloseReleases, Launch, StartAttempt, ControllerExits, AcceptReturn
<1>2. CASE ApplyMove \/ ApplyQueues \/ RecordAttempt \/ AfterAttempt \/ ResolveDeferred
           \/ ResolveAttempt \/ (\E r \in Requests : Defer(r))
           \/ (\E d \in 1..Dirs : EditDirectory(d))
  BY <1>2 DEF ApplyMove, ApplyQueues, RecordAttempt, AfterAttempt, ResolveDeferred,
              ResolveAttempt, Defer, EditDirectory
<1> QED BY <1>1, <1>2 DEF ProgressionNext, HostStep

LEMMA LauncherSteps ==
  ASSUME HostFits, ProgressionNext
  PROVE  SessionNext \/ UNCHANGED sessionVars
BY LauncherRests, ActionsAreSteps, SubmitsAreSteps

------------------------------------------------------------------------------
(* What the journal says it goes on saying. *)

Grown ==
  /\ \A id \in Ids : Completed(id) => Completed(id)'
  /\ ExhaustedReasons \subseteq ExhaustedReasons'
  /\ unpriced => unpriced'

LEMMA ReceiptsAreAppended ==
  ASSUME SessionInv, JournalInv, NEW callers, SessionStepOf(callers)
  PROVE  \/ UNCHANGED journal
         \/ \E e \in Entry : e.cost >= 0 /\ journal' = Append(journal, e)
<1>0. \A q \in AllRequests : ObservedActionCost(q) \in Nat
  BY DEF JournalInv, CostInv, ObservedActionCost
<1>1. CASE \E who \in callers, r \in AllRequests : Begin(who, r)
  <2>1. PICK e \in Entry : e.cost = 0 /\ journal' = Append(journal, e)
    BY <1>1, BeginPending
  <2> QED BY <2>1
<1>2. CASE WriteReceipt
  <2>1. PICK e \in Entry :
          /\ e.cost = (IF exec.ok THEN exec.cost ELSE ObservedActionCost(exec.request))
          /\ journal' = Append(journal, e)
    BY <1>2, WritePending DEF JournalInv
  <2>2. exec.pc = "receipt" /\ exec.request \in AllRequests
    BY <1>2 DEF WriteReceipt, SessionInv, JournalShape
  <2>3. exec.ok => exec.cost = ObservedActionCost(exec.request)
    BY <2>2 DEF JournalInv, CostInv
  <2>4. e.cost \in Nat
    BY <1>0, <2>1, <2>2, <2>3
  <2> QED BY <2>1, <2>4
<1>3. CASE ResolveInterrupted
  <2>1. PICK k \in DOMAIN journal, e \in Entry :
           /\ e.cost = ObservedActionCost(journal[k].request)
           /\ journal' = Append(journal, e)
    BY <1>3, ResolvePending DEF JournalInv
  <2>2. journal[k] \in Entry
    BY DEF SessionInv, JournalShape
  <2>3. journal[k].request \in AllRequests
    BY <2>2 DEF Entry
  <2> QED BY <1>0, <2>1, <2>3
<1>4. CASE Dispatch \/ CloseSession \/ KillAction \/ Expire
  BY <1>4 DEF Dispatch, CloseSession, KillAction, Expire
<1> QED BY <1>1, <1>2, <1>3, <1>4 DEF SessionStepOf

LEMMA FlagsStay ==
  ASSUME NEW callers, SessionStepOf(callers)
  PROVE  (unpriced => unpriced') /\ (expired => expired')
<1>1. ASSUME Dispatch PROVE (unpriced' = unpriced \/ unpriced' = TRUE) /\ UNCHANGED expired
  BY <1>1 DEF Dispatch, Effect
<1>2. ASSUME NEW who, NEW r, Begin(who, r) PROVE UNCHANGED <<unpriced, expired>>
  BY <1>2 DEF Begin
<1>3. ASSUME WriteReceipt \/ CloseSession \/ KillAction \/ ResolveInterrupted
      PROVE UNCHANGED <<unpriced, expired>>
  BY <1>3 DEF WriteReceipt, CloseSession, KillAction, ResolveInterrupted
<1>4. ASSUME Expire PROVE UNCHANGED unpriced /\ expired' = TRUE
  BY <1>4 DEF Expire
<1>5. (unpriced' = unpriced \/ unpriced' = TRUE) /\ (expired' = expired \/ expired' = TRUE)
  BY <1>1, <1>2, <1>3, <1>4 DEF SessionStepOf
<1>6. ASSUME NEW a, NEW b, b = a \/ b = TRUE, a PROVE b
  <2>1. CASE b = a
    BY <1>6, <2>1
  <2>2. CASE b = TRUE
    BY <2>2
  <2> QED BY <1>6, <2>1, <2>2
<1> QED BY <1>5, <1>6

LEMMA SessionGrows ==
  ASSUME SessionInv, JournalInv, NEW callers, SessionStepOf(callers)
  PROVE  Grown
<1>1. (unpriced => unpriced') /\ (expired => expired')
  BY FlagsStay
<1>2. CASE UNCHANGED journal
  BY <1>1, <1>2 DEF Grown, Completed, ExhaustedReasons, Budgeted, ObservedCost, StartedOf
<1>3. ASSUME NEW e \in Entry, e.cost >= 0, journal' = Append(journal, e)
      PROVE  Grown
  <2>1. PICK n \in Nat :
           /\ n = Len(journal) /\ DOMAIN journal = 1..n /\ DOMAIN journal' = 1..n + 1
           /\ \A i \in 1..n : journal'[i] = journal[i] /\ journal[i] \in Entry
           /\ journal'[n + 1] = e
    BY <1>3, JournalGrows DEF SessionInv
  <2>2. \A id \in Ids : Completed(id) => Completed(id)'
    BY <2>1 DEF Completed
  <2>3. Budgeted >= MaxActions => Budgeted' >= MaxActions
    <3>1. Budgeted \in Nat /\ (Budgeted' = Budgeted \/ Budgeted' = Budgeted + 1)
      BY <1>3, CountGrows DEF SessionInv, Budgeted
    <3> QED BY <3>1, SessionAssumption
  <2>4. ObservedCost >= MaxCost => ObservedCost' >= MaxCost
    <3>1. ObservedCost \in Int /\ ObservedCost' = ObservedCost + e.cost
      BY <1>3, CostGrows DEF SessionInv
    <3>2. e.cost \in Int
      BY DEF Entry
    <3> QED BY <1>3, <3>1, <3>2, SessionAssumption
  <2>5. ExhaustedReasons \subseteq ExhaustedReasons'
    BY <1>1, <2>3, <2>4 DEF ExhaustedReasons
  <2> QED BY <1>1, <2>2, <2>5 DEF Grown
<1> QED BY <1>2, <1>3, ReceiptsAreAppended

LEMMA SessionRests ==
  ASSUME UNCHANGED sessionVars PROVE Grown
BY DEF Grown, Completed, ExhaustedReasons, Budgeted, ObservedCost, StartedOf, sessionVars

------------------------------------------------------------------------------
(* Steps that leave a part alone. *)

LEMMA SpentStays ==
  ASSUME Spent, Grown, UNCHANGED attempts, launched => launched'
  PROVE  Spent'
<1>1. ControllerCost' = ControllerCost /\ Unpriced' = Unpriced
      /\ AttemptPending' = AttemptPending
  BY DEF ControllerCost, Unpriced, AttemptPending
<1>2. ControllerReasons \subseteq ControllerReasons'
  BY <1>1 DEF ControllerReasons, Grown
<1> QED BY <1>1, <1>2 DEF Spent, Grown

LEMMA QueueStays ==
  ASSUME QueueInv, Grown, UNCHANGED queue PROVE QueueInv'
<1>1. \A r \in Requests : r.id \in Ids
  BY DEF Ids, AllRequests
<1> QED BY <1>1, ProgressionAssumption DEF QueueInv, Grown

LEMMA StopStays ==
  ASSUME StopInv, Grown, UNCHANGED <<attempts, stop>>, launched => launched'
  PROVE  StopInv'
BY SpentStays DEF StopInv

LEMMA ImportStays ==
  ASSUME ImportInv, StopInv, StopInv', UNCHANGED <<handoff, place, staged, backups>>,
         Len(attempts) <= Len(attempts')
  PROVE  ImportInv'
<1>1. Len(attempts) \in Nat /\ Len(attempts') \in Nat
  BY DEF StopInv
<1> QED BY <1>1 DEF ImportInv, ImportLosesNothing, Prepared

Looked == (Queued /\ queue.request.kind \in Lifecycles) \/ Withdrawn

LEMMA HostStays ==
  ASSUME HostFits, Grown, UNCHANGED <<host, handoff, stop>>, Len(attempts') = Len(attempts),
         Spent => Spent', Looked => Looked', Withdrawn => Withdrawn'
  PROVE  HostFits'
<1>1. \A r \in Requests : r.id \in Ids
  BY DEF Ids, AllRequests
<1> QED BY <1>1 DEF HostFits, Grown, Prepared, Looked

\* Where the launcher goes.
LEMMA GotoHost ==
  ASSUME HostFits, NEW pc, Goto(pc)
  PROVE  /\ DOMAIN host' = HostFields /\ host'.pc = pc
         /\ host'.request = host.request /\ host'.ok = host.ok /\ host'.cost = host.cost
         /\ host'.back = host.back
BY DEF HostFits, HostFields, Goto

LEMMA OffFits ==
  ASSUME host' = Off PROVE HostFits'
BY DEF HostFits, HostFields, Off

\* A step of the launcher that touches no file another part reads.
HostOnly ==
  /\ UNCHANGED <<sessionVars, queue, handoff, place, staged, backups, attempts, stop, released>>
  /\ launched => launched'

LEMMA HostOnlyFiles ==
  ASSUME LauncherInv, HostOnly
  PROVE  QueueInv' /\ StopInv' /\ ImportInv' /\ Grown
<1>1. Grown
  BY SessionRests DEF HostOnly
<1>2. QueueInv' /\ StopInv'
  BY <1>1, QueueStays, StopStays DEF LauncherInv, HostOnly
<1>3. Len(attempts) <= Len(attempts')
  BY DEF HostOnly, LauncherInv, StopInv
<1> QED BY <1>1, <1>2, <1>3, ImportStays DEF LauncherInv, HostOnly

LEMMA DecideFits ==
  ASSUME LauncherInv, Decide
  PROVE  LauncherInv'
<1>1. HostOnly
  BY DEF Decide, HostOnly
<1>2. QueueInv' /\ StopInv' /\ ImportInv' /\ Grown
  BY <1>1, HostOnlyFiles
<1>3. Spent => Spent'
  BY <1>1, <1>2, SpentStays DEF HostOnly
<1>4. Looked => Looked'
  BY <1>1 DEF HostOnly, Looked, Queued, Withdrawn
<1>5. /\ stop => Spent
      /\ \/ Block
         \/ Goto("drain") /\ (Spent => Queued /\ queue.request.kind \in Lifecycles)
         \/ Goto("close") /\ Spent
         \/ Goto("launch") /\ ~Spent
  BY DEF LauncherInv, StopInv, Decide, Spent, Lifecycles
<1>6. stop' = stop
  BY <1>1 DEF HostOnly
<1>7. CASE Block
  BY <1>2, <1>7, OffFits DEF Block, LauncherInv
<1>8. CASE Goto("drain") /\ (Spent => Queued /\ queue.request.kind \in Lifecycles)
  <2>1. stop' => Looked'
    BY <1>4, <1>5, <1>6, <1>8 DEF Looked
  <2>2. HostFits'
    BY <1>8, <2>1, GotoHost DEF LauncherInv, HostFits, Looked
  <2> QED BY <1>2, <2>2 DEF LauncherInv
<1>9. CASE Goto("close") /\ Spent
  <2>1. HostFits'
    BY <1>3, <1>9, GotoHost DEF LauncherInv, HostFits
  <2> QED BY <1>2, <2>1 DEF LauncherInv
<1>10. CASE Goto("launch") /\ ~Spent
  <2>1. HostFits'
    BY <1>5, <1>6, <1>10, GotoHost DEF LauncherInv, HostFits
  <2> QED BY <1>2, <2>1 DEF LauncherInv
<1> QED BY <1>5, <1>7, <1>8, <1>9, <1>10

LEMMA LoopFits ==
  ASSUME LauncherInv, RunController \/ Recover
  PROVE  LauncherInv'
<1>1. HostOnly
  BY DEF RunController, Recover, HostOnly
<1>2. QueueInv' /\ StopInv' /\ ImportInv' /\ Grown
  BY <1>1, HostOnlyFiles
<1>3. CASE RunController
  BY <1>2, <1>3 DEF RunController, Off, LauncherInv, HostFits, HostFields
<1>4. CASE Recover
  <2>1. CASE host' = Off
    BY <1>2, <2>1, OffFits DEF LauncherInv
  <2>2. CASE host' = [host EXCEPT !.pc = "apply", !.back = "loop"]
    <3>1. Prepared'
      BY <1>1, <1>4 DEF Recover, HostOnly, Prepared
    <3>2. HostFits'
      BY <2>2, <3>1 DEF LauncherInv, HostFits, HostFields
    <3> QED BY <1>2, <3>2 DEF LauncherInv
  <2> QED BY <1>4, <2>1, <2>2 DEF Recover, Block
<1> QED BY <1>3, <1>4

LEMMA ReadQueueFits ==
  ASSUME LauncherInv, ReadQueue
  PROVE  LauncherInv'
<1>1. HostOnly
  BY DEF ReadQueue, HostOnly
<1>2. QueueInv' /\ StopInv' /\ ImportInv' /\ Grown
  BY <1>1, HostOnlyFiles
<1>3. CASE Queued
  <2>1. queue.request \in Requests
    BY <1>3, ProgressionAssumption DEF LauncherInv, QueueInv, Queued
  <2>2. stop' => queue.request.kind \in Lifecycles \/ Withdrawn'
    BY <1>1 DEF ReadQueue, HostOnly, LauncherInv, HostFits, Withdrawn
  <2>3. host' = [host EXCEPT !.pc = "submit", !.request = queue.request,
                             !.replay = Completed(queue.request.id)]
    BY <1>3 DEF ReadQueue
  <2>4. /\ DOMAIN host' = HostFields /\ host'.pc = "submit" /\ host'.request = queue.request
        /\ host'.ok = host.ok /\ host'.cost = host.cost /\ host'.back = host.back
    BY <2>3 DEF LauncherInv, HostFits, HostFields
  <2>5. HostFits'
    BY <2>1, <2>2, <2>4 DEF LauncherInv, HostFits
  <2> QED BY <1>2, <2>5 DEF LauncherInv
<1>4. CASE Goto("loop")
  <2>1. HostFits'
    BY <1>4, GotoHost DEF LauncherInv, HostFits
  <2> QED BY <1>2, <2>1 DEF LauncherInv
<1> QED BY <1>3, <1>4 DEF ReadQueue

\* The launcher's position after a step to a place with nothing to show.
Plain == {"loop", "after", "executing", "closing", "stop", "release"}

LEMMA GotoPlain ==
  ASSUME LauncherInv, NEW pc \in Plain, Goto(pc),
         pc = "executing" => host.request \in Requests
  PROVE  HostFits'
BY GotoHost DEF LauncherInv, HostFits, Plain

LEMMA ExecutedFits ==
  ASSUME LauncherInv, Executed
  PROVE  LauncherInv'
<1>1. HostOnly
  BY DEF Executed, HostOnly
<1>2. QueueInv' /\ StopInv' /\ ImportInv' /\ Grown
  BY <1>1, HostOnlyFiles
<1>3. CASE Goto("ack") /\ Completed(host.request.id) /\ host.request \in Requests
  <2>1. Completed(host.request.id)'
    <3>1. host'.request = host.request /\ UNCHANGED journal
      BY <1>1, <1>3, GotoHost DEF LauncherInv, HostOnly, sessionVars
    <3> QED BY <1>3, <3>1 DEF Completed
  <2>2. HostFits'
    BY <1>3, <2>1, GotoHost DEF LauncherInv, HostFits
  <2> QED BY <1>2, <2>2 DEF LauncherInv
<1>4. CASE Goto("loop")
  BY <1>2, <1>4, GotoPlain DEF LauncherInv, Plain
<1>5. CASE Block
  BY <1>2, <1>5, OffFits DEF LauncherInv, Block
<1> QED BY <1>3, <1>4, <1>5 DEF Executed, LauncherInv, HostFits

LEMMA AfterFits ==
  ASSUME LauncherInv, AfterAttempt
  PROVE  LauncherInv'
<1>1. HostOnly
  BY DEF AfterAttempt, HostOnly
<1>2. QueueInv' /\ StopInv' /\ ImportInv' /\ Grown
  BY <1>1, HostOnlyFiles
<1>3. CASE Goto("loop")
  BY <1>2, <1>3, GotoPlain DEF LauncherInv, Plain
<1>4. CASE Block
  BY <1>2, <1>4, OffFits DEF LauncherInv, Block
<1> QED BY <1>3, <1>4 DEF AfterAttempt

LEMMA LaunchFits ==
  ASSUME LauncherInv, Launch
  PROVE  LauncherInv'
<1>1. HostOnly
  BY DEF Launch, HostOnly
<1>2. QueueInv' /\ StopInv' /\ ImportInv' /\ Grown
  BY <1>1, HostOnlyFiles
<1>3. ~stop' /\ host.pc = "launch"
  BY <1>1 DEF LauncherInv, HostFits, Launch, HostOnly
<1>4. CASE Goto("start")
  <2>1. HostFits'
    BY <1>3, <1>4, GotoHost DEF LauncherInv, HostFits
  <2> QED BY <1>2, <2>1 DEF LauncherInv
<1>5. CASE Goto("after")
  BY <1>2, <1>5, GotoPlain DEF LauncherInv, Plain
<1>6. CASE Block
  BY <1>2, <1>6, OffFits DEF LauncherInv, Block
<1> QED BY <1>4, <1>5, <1>6 DEF Launch

------------------------------------------------------------------------------
(* Steps that take the session on. *)

\* A step of the session, with the launcher's files as they are.
SessionOnly ==
  /\ Grown
  /\ UNCHANGED <<queue, handoff, place, staged, backups, attempts, stop, launched, released>>

LEMMA SessionOnlyFiles ==
  ASSUME LauncherInv, SessionOnly
  PROVE  QueueInv' /\ StopInv' /\ ImportInv'
<1>1. QueueInv' /\ StopInv'
  BY QueueStays, StopStays DEF LauncherInv, SessionOnly
<1>2. Len(attempts) <= Len(attempts')
  BY DEF SessionOnly, LauncherInv, StopInv
<1> QED BY <1>1, <1>2, ImportStays DEF LauncherInv, SessionOnly

LEMMA SubmitFits ==
  ASSUME LauncherInv, Grown, SubmitQueued \/ CloseFinishes
  PROVE  LauncherInv'
<1>1. SessionOnly
  BY DEF SubmitQueued, CloseFinishes, Submit, SessionOnly
<1>2. QueueInv' /\ StopInv' /\ ImportInv'
  BY <1>1, SessionOnlyFiles
<1>3. CASE Block
  BY <1>2, <1>3, OffFits DEF LauncherInv, Block
<1>4. CASE Goto("closing") \/ Goto("loop")
  BY <1>2, <1>4, GotoPlain DEF LauncherInv, Plain
<1>5. CASE SubmitQueued /\ Goto("executing")
  <2>1. host.request \in Requests
    BY <1>5 DEF SubmitQueued, LauncherInv, HostFits
  <2> QED BY <1>2, <1>5, <2>1, GotoPlain DEF LauncherInv, Plain
<1>6. CASE SubmitQueued /\ Completed(host.request.id) /\ Goto("ack")
  <2>1. host.request \in Requests /\ host'.request = host.request
    BY <1>6, GotoHost DEF SubmitQueued, LauncherInv, HostFits
  <2>2. Completed(host.request.id)'
    BY <1>6, <2>1 DEF Grown, Ids, AllRequests
  <2>3. HostFits'
    BY <1>6, <2>1, <2>2, GotoHost DEF LauncherInv, HostFits
  <2> QED BY <1>2, <2>3 DEF LauncherInv
<1> QED BY <1>3, <1>4, <1>5, <1>6 DEF SubmitQueued, CloseFinishes, Submit

LEMMA OutsideFits ==
  ASSUME LauncherInv, Grown,
         ActionStep \/ ResolveAction \/ TimePasses \/ KillUser \/ KillHost
         \/ \E r \in Requests : Act(r)
  PROVE  LauncherInv'
<1>1. SessionOnly /\ (host' = host \/ host' = Off)
  BY DEF ActionStep, ResolveAction, TimePasses, KillUser, KillHost, Act, SessionOnly, hostVars
<1>2. QueueInv' /\ StopInv' /\ ImportInv'
  BY <1>1, SessionOnlyFiles
<1>3. CASE host' = Off
  BY <1>2, <1>3, OffFits DEF LauncherInv
<1>4. CASE host' = host
  <2>1. Spent => Spent'
    BY <1>1, SpentStays DEF SessionOnly
  <2>2. (Looked => Looked') /\ (Withdrawn => Withdrawn')
    BY <1>1 DEF SessionOnly, Looked, Queued, Withdrawn
  <2>3. Len(attempts') = Len(attempts)
    BY <1>1 DEF SessionOnly
  <2>4. HostFits'
    BY <1>1, <1>4, <2>1, <2>2, <2>3, HostStays DEF LauncherInv, SessionOnly
  <2> QED BY <1>2, <2>4 DEF LauncherInv
<1> QED BY <1>1, <1>3, <1>4

------------------------------------------------------------------------------
(* Steps that change the queue. *)

\* Everything but the queue and the launcher's position.
QueueOnly ==
  UNCHANGED <<sessionVars, handoff, place, staged, backups, attempts, stop, launched>>

LEMMA QueueOnlyFiles ==
  ASSUME LauncherInv, QueueOnly
  PROVE  StopInv' /\ ImportInv' /\ Grown
<1>1. Grown
  BY SessionRests DEF QueueOnly
<1>2. StopInv'
  BY <1>1, StopStays DEF LauncherInv, QueueOnly
<1>3. Len(attempts) <= Len(attempts')
  BY DEF QueueOnly, LauncherInv, StopInv
<1> QED BY <1>1, <1>2, <1>3, ImportStays DEF LauncherInv, QueueOnly

LEMMA AcknowledgeFits ==
  ASSUME LauncherInv, Acknowledge
  PROVE  LauncherInv'
<1>1. QueueOnly
  BY DEF Acknowledge, QueueOnly
<1>2. StopInv' /\ ImportInv' /\ Grown
  BY <1>1, QueueOnlyFiles
<1>3. CASE UNCHANGED queue /\ Block
  BY <1>2, <1>3, OffFits, QueueStays DEF LauncherInv, Block
<1>4. CASE /\ Queued /\ queue.request = host.request
           /\ queue' = [queue EXCEPT !.status = "completed"] /\ Goto("loop")
  <2>1. HostFits'
    BY <1>4, GotoPlain DEF Plain
  <2>2. host.request \in Requests /\ Completed(host.request.id)
    BY DEF Acknowledge, LauncherInv, HostFits
  <2>3. /\ DOMAIN queue' = {"status", "request", "resolved"}
        /\ queue'.status = "completed" /\ queue'.request = host.request
    BY <1>4 DEF LauncherInv, QueueInv
  <2>4. Completed(queue.request.id)'
    BY <1>2, <2>2, <2>3 DEF Grown, Ids, AllRequests
  <2>5. QueueInv'
    BY <2>2, <2>3, <2>4 DEF QueueInv
  <2> QED BY <1>2, <2>1, <2>5 DEF LauncherInv
<1> QED BY <1>3, <1>4 DEF Acknowledge

\* A request released from the queue is marked so.
LEMMA ReleaseKeeps ==
  ASSUME QueueInv, Grown, Release
  PROVE  QueueInv'
<1>1. CASE Queued
  <2>1. queue' = [queue EXCEPT !.status = "completed", !.resolved = TRUE]
    BY <1>1 DEF Release
  <2>2. queue.request \in Requests
    BY <1>1, ProgressionAssumption DEF QueueInv, Queued
  <2> QED BY <2>1, <2>2 DEF QueueInv
<1>2. CASE ~Queued
  BY <1>2, QueueStays DEF Release
<1> QED BY <1>1, <1>2

LEMMA CloseReleasesFits ==
  ASSUME LauncherInv, CloseReleases
  PROVE  LauncherInv'
<1>1. QueueOnly
  BY DEF CloseReleases, QueueOnly
<1>2. StopInv' /\ ImportInv' /\ Grown
  BY <1>1, QueueOnlyFiles
<1>3. \/ UNCHANGED queue /\ (Goto("stop") \/ Block)
      \/ Release /\ Goto("stop")
  BY DEF CloseReleases
<1>4. QueueInv'
  BY <1>2, <1>3, QueueStays, ReleaseKeeps DEF LauncherInv
<1>5. HostFits'
  BY <1>3, GotoPlain, OffFits DEF Plain, Block
<1> QED BY <1>2, <1>4, <1>5 DEF LauncherInv

LEMMA ResolveDeferredFits ==
  ASSUME LauncherInv, ResolveDeferred
  PROVE  LauncherInv'
<1>1. QueueOnly
  BY DEF ResolveDeferred, QueueOnly
<1>2. StopInv' /\ ImportInv' /\ Grown
  BY <1>1, QueueOnlyFiles
<1>3. QueueInv'
  BY <1>2, ReleaseKeeps DEF LauncherInv, ResolveDeferred
<1>4. /\ released' = released \cup {queue.request}
      /\ UNCHANGED <<host, handoff, attempts, stop, launched>>
  BY DEF ResolveDeferred
<1>5. (Looked => Looked') /\ (Withdrawn => Withdrawn')
  BY <1>4 DEF Looked, Withdrawn
<1>6. Spent => Spent'
  BY <1>2, <1>4, SpentStays
<1>7. HostFits'
  BY <1>2, <1>4, <1>5, <1>6, HostStays DEF LauncherInv
<1> QED BY <1>2, <1>3, <1>7 DEF LauncherInv

\* A request that is queued does not make another look done.
LEMMA QueueWithKeeps ==
  ASSUME QueueInv, Grown, NEW r \in Requests, Deferrable(r), queue' = QueueWith(r)
  PROVE  QueueInv'
<1>1. CASE queue.request = r
  BY <1>1, QueueStays DEF QueueWith
<1>2. CASE queue.request # r
  BY <1>2 DEF QueueWith, QueueInv
<1> QED BY <1>1, <1>2

LEMMA DeferFits ==
  ASSUME LauncherInv, NEW r \in Requests, Defer(r)
  PROVE  LauncherInv'
<1>1. QueueOnly
  BY DEF Defer, QueueOnly
<1>2. StopInv' /\ ImportInv' /\ Grown
  BY <1>1, QueueOnlyFiles
<1>3. QueueInv'
  BY <1>2, QueueWithKeeps DEF LauncherInv, Defer
<1>4. queue' = QueueWith(r) /\ Deferrable(r)
      /\ UNCHANGED <<host, handoff, attempts, stop, launched, released>>
  BY DEF Defer
<1>5. Queued => queue' = queue
  BY <1>4, ProgressionAssumption DEF Queued, Deferrable, QueueWith
<1>6. (Looked => Looked') /\ (Withdrawn => Withdrawn')
  BY <1>4, <1>5 DEF Looked, Withdrawn, Queued
<1>7. Spent => Spent'
  BY <1>2, <1>4, SpentStays
<1>8. HostFits'
  BY <1>2, <1>4, <1>6, <1>7, HostStays DEF LauncherInv
<1> QED BY <1>2, <1>3, <1>8 DEF LauncherInv

\* After an import the launcher returns to where it came from.
LEMMA RefuseFits ==
  ASSUME LauncherInv, host.pc = "apply", Refuse, UNCHANGED stop
  PROVE  HostFits'
<1>1. CASE host.back = "loop"
  BY <1>1, OffFits DEF Refuse
<1>2. CASE host.back # "loop"
  <2>1. host' = [host EXCEPT !.pc = "record", !.ok = FALSE] /\ ~stop
    BY <1>2 DEF Refuse, LauncherInv, HostFits
  <2> QED BY <2>1 DEF LauncherInv, HostFits, HostFields
<1> QED BY <1>1, <1>2

LEMMA ApplyQueuesFits ==
  ASSUME LauncherInv, ApplyQueues
  PROVE  LauncherInv'
<1>0. host.pc = "apply" /\ Prepared /\ handoff.request \in Requests
      /\ UNCHANGED <<sessionVars, place, staged, backups, attempts, stop, launched, released>>
  BY DEF ApplyQueues, LauncherInv, HostFits, ImportInv
<1>1. Grown
  BY <1>0, SessionRests
<1>2. StopInv'
  BY <1>0, <1>1, StopStays DEF LauncherInv
<1>3. CASE Refuse /\ UNCHANGED <<queue, handoff>>
  <2>1. QueueOnly
    BY <1>0, <1>3 DEF QueueOnly
  <2>2. QueueInv' /\ HostFits'
    BY <1>0, <1>1, <1>3, QueueStays, RefuseFits DEF LauncherInv
  <2> QED BY <2>1, <2>2, QueueOnlyFiles DEF LauncherInv
<1>4. CASE /\ Deferrable(handoff.request) /\ queue' = QueueWith(handoff.request)
           /\ UNCHANGED <<handoff, host>>
  <2>1. QueueOnly
    BY <1>0, <1>4 DEF QueueOnly
  <2>2. QueueInv'
    BY <1>0, <1>1, <1>4, QueueWithKeeps DEF LauncherInv
  <2>3. HostFits'
    BY <1>0, <1>4 DEF LauncherInv, HostFits, Prepared
  <2> QED BY <2>1, <2>2, <2>3, QueueOnlyFiles DEF LauncherInv
<1>5. CASE /\ handoff' = [handoff EXCEPT !.status = "completed"]
           /\ UNCHANGED queue /\ Goto(host.back)
  <2>1. QueueInv'
    BY <1>1, <1>5, QueueStays DEF LauncherInv
  <2>2. ~Prepared' /\ handoff'.attempt = handoff.attempt
        /\ DOMAIN handoff' = {"status", "request", "attempt", "old"}
    BY <1>5 DEF LauncherInv, ImportInv, Prepared
  <2>3. ImportInv'
    BY <1>0, <2>2 DEF LauncherInv, ImportInv, ImportLosesNothing
  <2>4. HostFits'
    BY <1>0, <1>5, GotoHost DEF LauncherInv, HostFits
  <2> QED BY <1>2, <2>1, <2>3, <2>4 DEF LauncherInv
<1> QED BY <1>3, <1>4, <1>5 DEF ApplyQueues

------------------------------------------------------------------------------
(* Steps that change the attempts, which are none after a stop. *)

\* Everything but the attempts and the launcher's position.
AttemptsOnly ==
  /\ UNCHANGED <<sessionVars, queue, handoff, place, staged, backups, stop, launched, released>>
  /\ ~stop
  /\ attempts' \in Seq(Attempt) /\ Len(attempts) <= Len(attempts')

LEMMA AttemptsOnlyFiles ==
  ASSUME LauncherInv, AttemptsOnly
  PROVE  QueueInv' /\ StopInv' /\ ImportInv'
<1>1. Grown
  BY SessionRests DEF AttemptsOnly
<1>2. QueueInv'
  BY <1>1, QueueStays DEF LauncherInv, AttemptsOnly
<1>3. StopInv'
  BY DEF StopInv, AttemptsOnly
<1> QED BY <1>2, <1>3, ImportStays DEF LauncherInv, AttemptsOnly

\* The last attempt is written anew.
LEMMA LastWritten ==
  ASSUME StopInv, NEW a, attempts' = [attempts EXCEPT ![Len(attempts)] = a],
         Len(attempts) # 0 => a \in Attempt
  PROVE  attempts' \in Seq(Attempt) /\ Len(attempts') = Len(attempts)
<1>1. CASE Len(attempts) = 0
  <2>1. attempts = << >>
    BY <1>1, EmptySeq DEF StopInv
  <2>2. attempts' = attempts
    BY <2>1
  <2> QED BY <2>2 DEF StopInv
<1>2. CASE Len(attempts) # 0
  <2>1. Len(attempts) \in 1..Len(attempts)
    BY <1>2, LenProperties DEF StopInv
  <2> QED BY <1>2, <2>1, ExceptSeq DEF StopInv
<1> QED BY <1>1, <1>2


LEMMA LastIsAttempt ==
  ASSUME StopInv, Len(attempts) # 0
  PROVE  attempts[Len(attempts)] \in Attempt
<1>1. Len(attempts) \in 1..Len(attempts)
  BY LenProperties DEF StopInv
<1> QED BY <1>1, ElementOfSeq DEF StopInv

LEMMA ReworkedAttempt ==
  ASSUME NEW a \in Attempt, NEW phase \in {"completed", "failed"},
         NEW cost \in Nat \cup {None}, NEW rejected \in BOOLEAN
  PROVE  /\ [a EXCEPT !.rejected = rejected] \in Attempt
         /\ [a EXCEPT !.phase = phase, !.cost = cost] \in Attempt
BY DEF Attempt

LEMMA StartAttemptFits ==
  ASSUME LauncherInv, StartAttempt
  PROVE  LauncherInv'
<1> DEFINE a == [phase |-> "started", cost |-> 0, rejected |-> FALSE]
<1>1. a \in Attempt
  BY DEF Attempt
<1>2. attempts' = Append(attempts, a) /\ ~stop /\ ~stop'
  BY DEF StartAttempt, LauncherInv, HostFits
<1> HIDE DEF a
<1>3. Len(attempts) \in Nat /\ Len(attempts') = Len(attempts) + 1 /\ attempts' \in Seq(Attempt)
  BY <1>1, <1>2, AppendProperties, LenProperties DEF LauncherInv, StopInv
<1>4. AttemptsOnly
  BY <1>2, <1>3 DEF AttemptsOnly, StartAttempt
<1>5. Goto("control") /\ UNCHANGED handoff
  BY DEF StartAttempt
<1>6. handoff'.attempt < Len(attempts')
  BY <1>3, <1>5 DEF LauncherInv, ImportInv
<1>7. HostFits'
  BY <1>2, <1>5, <1>6, GotoHost DEF LauncherInv, HostFits
<1> QED BY <1>4, <1>7, AttemptsOnlyFiles DEF LauncherInv

LEMMA ControllerFits ==
  ASSUME LauncherInv, ControllerExits
  PROVE  LauncherInv'
<1>1. PICK ok \in BOOLEAN, rejected \in BOOLEAN, cost \in Costs \cup {None}, r \in Requests :
        /\ attempts' = [attempts EXCEPT ![Len(attempts)] =
                          [attempts[Len(attempts)] EXCEPT !.rejected = rejected]]
        /\ \/ host' = [host EXCEPT !.pc = "return", !.ok = TRUE, !.cost = cost, !.request = r]
           \/ \E good \in BOOLEAN :
                host' = [host EXCEPT !.pc = "record", !.ok = good, !.cost = cost,
                                     !.request = None]
  BY ZenonT(60) DEF ControllerExits
<1>2. cost \in Nat \cup {None}
  BY SessionAssumption
<1>3. attempts' \in Seq(Attempt) /\ Len(attempts') = Len(attempts)
  BY <1>1, <1>2, LastIsAttempt, ReworkedAttempt, LastWritten DEF LauncherInv
<1>4. ~stop /\ ~stop' /\ UNCHANGED handoff /\ handoff.attempt < Len(attempts)
  BY DEF ControllerExits, LauncherInv, HostFits
<1>5. Len(attempts) \in Nat
  BY LenProperties DEF LauncherInv, StopInv
<1>6. AttemptsOnly
  BY <1>3, <1>4, <1>5 DEF AttemptsOnly, ControllerExits
<1>7. /\ DOMAIN host' = HostFields /\ host'.pc \in {"return", "record"}
      /\ host'.ok \in BOOLEAN /\ host'.cost = cost /\ host'.back = host.back
      /\ host'.pc = "return" => host'.request \in Requests
  BY <1>1 DEF LauncherInv, HostFits, HostFields
<1>8. HostFits'
  BY <1>2, <1>3, <1>4, <1>7 DEF LauncherInv, HostFits
<1> QED BY <1>6, <1>8, AttemptsOnlyFiles DEF LauncherInv

LEMMA RecordAttemptFits ==
  ASSUME LauncherInv, RecordAttempt
  PROVE  LauncherInv'
<1>1. PICK phase \in {"completed", "failed"} :
        attempts' = [attempts EXCEPT ![Len(attempts)] =
          [attempts[Len(attempts)] EXCEPT !.phase = phase, !.cost = host.cost]]
  BY DEF RecordAttempt
<1>2. host.cost \in Nat \cup {None} /\ ~stop /\ ~stop'
  BY DEF RecordAttempt, LauncherInv, HostFits
<1>3. attempts' \in Seq(Attempt) /\ Len(attempts') = Len(attempts)
  BY <1>1, <1>2, LastIsAttempt, ReworkedAttempt, LastWritten DEF LauncherInv
<1>4. Len(attempts) \in Nat
  BY LenProperties DEF LauncherInv, StopInv
<1>5. AttemptsOnly
  BY <1>2, <1>3, <1>4 DEF AttemptsOnly, RecordAttempt
<1>6. HostFits'
  BY GotoPlain, OffFits DEF RecordAttempt, Plain, Block
<1> QED BY <1>5, <1>6, AttemptsOnlyFiles DEF LauncherInv

LEMMA ResolveAttemptFits ==
  ASSUME LauncherInv, ResolveAttempt
  PROVE  LauncherInv'
<1>1. PICK cost \in Costs \cup {None} :
        attempts' = [attempts EXCEPT ![Len(attempts)] =
          [attempts[Len(attempts)] EXCEPT !.phase = "failed", !.cost = cost]]
  BY DEF ResolveAttempt
<1>2. cost \in Nat \cup {None}
  BY SessionAssumption
<1>3. ~Spent /\ ~stop /\ ~stop'
  BY DEF ResolveAttempt, Spent, LauncherInv, StopInv
<1>4. attempts' \in Seq(Attempt) /\ Len(attempts') = Len(attempts)
  BY <1>1, <1>2, LastIsAttempt, ReworkedAttempt, LastWritten DEF LauncherInv
<1>5. Len(attempts) \in Nat
  BY LenProperties DEF LauncherInv, StopInv
<1>6. AttemptsOnly
  BY <1>3, <1>4, <1>5 DEF AttemptsOnly, ResolveAttempt
<1>7. Grown /\ UNCHANGED <<host, handoff, stop, queue, released>>
  BY SessionRests DEF ResolveAttempt
<1>8. (Looked => Looked') /\ (Withdrawn => Withdrawn')
  BY <1>7 DEF Looked, Withdrawn, Queued
<1>9. HostFits'
  BY <1>3, <1>4, <1>7, <1>8, HostStays DEF LauncherInv
<1> QED BY <1>6, <1>9, AttemptsOnlyFiles DEF LauncherInv

\* The stop is decided while something is used up.
LEMMA CloseBudgetFits ==
  ASSUME LauncherInv, CloseBudget
  PROVE  LauncherInv'
<1>1. /\ UNCHANGED <<sessionVars, queue, handoff, place, staged, backups, attempts, launched>>
      /\ UNCHANGED released
      /\ host.pc = "close"
  BY DEF CloseBudget
<1>2. Grown
  BY <1>1, SessionRests
<1>3. Spent'
  BY <1>1, <1>2, SpentStays DEF LauncherInv, HostFits
<1>4. QueueInv' /\ StopInv'
  BY <1>1, <1>2, <1>3, QueueStays DEF LauncherInv, StopInv
<1>5. Len(attempts) <= Len(attempts')
  BY <1>1 DEF LauncherInv, StopInv
<1>6. ImportInv'
  BY <1>1, <1>4, <1>5, ImportStays DEF LauncherInv
<1>7. HostFits'
  BY GotoPlain, OffFits DEF CloseBudget, Plain, Block
<1> QED BY <1>4, <1>6, <1>7 DEF LauncherInv

------------------------------------------------------------------------------
(* The import. *)

LEMMA AcceptReturnFits ==
  ASSUME LauncherInv, AcceptReturn
  PROVE  LauncherInv'
<1> DEFINE n == Len(attempts)
<1>1. /\ UNCHANGED <<sessionVars, queue, place, backups, attempts, stop, launched, released>>
      /\ staged' = staged \cup {<<n, d>> : d \in 1..Dirs}
      /\ host.pc = "return" /\ ~stop /\ host.request \in Requests
      /\ handoff.attempt < n /\ n \in Nat
  BY LenProperties DEF AcceptReturn, LauncherInv, HostFits, StopInv
<1>2. Grown
  BY <1>1, SessionRests
<1>3. QueueInv' /\ StopInv'
  BY <1>1, <1>2, QueueStays, StopStays DEF LauncherInv
<1>4. CASE UNCHANGED handoff /\ host' = [host EXCEPT !.pc = "record", !.ok = FALSE]
  <2>1. ImportInv'
    BY <1>1, <1>4 DEF LauncherInv, ImportInv, ImportLosesNothing, Prepared
  <2>2. HostFits'
    BY <1>1, <1>4 DEF LauncherInv, HostFits, HostFields
  <2> QED BY <1>3, <2>1, <2>2 DEF LauncherInv
<1>5. CASE /\ handoff' = [status |-> "prepared", request |-> host.request,
                          attempt |-> n, old |-> place]
           /\ host' = [host EXCEPT !.pc = "apply", !.back = "record"]
  <2>1. Prepared' /\ handoff'.attempt = n /\ handoff'.old = place
        /\ handoff'.request \in Requests
        /\ DOMAIN handoff' = {"status", "request", "attempt", "old"}
    BY <1>1, <1>5 DEF Prepared
  <2>2. \A x \in DOMAIN backups : x[1] \in Nat /\ x[1] < n
    BY <1>1 DEF LauncherInv, ImportInv
  <2>3. \A d \in 1..Dirs : <<n, d>> \notin DOMAIN backups
    BY <1>1, <2>2
  <2>4. ImportLosesNothing'
    BY <1>1, <2>1 DEF ImportLosesNothing
  <2>5. ImportInv'
    BY <1>1, <2>1, <2>2, <2>3, <2>4 DEF LauncherInv, ImportInv
  <2>6. HostFits'
    BY <1>1, <1>5, <2>1 DEF LauncherInv, HostFits, HostFields
  <2> QED BY <1>3, <2>5, <2>6 DEF LauncherInv
<1> QED BY <1>4, <1>5 DEF AcceptReturn, CommitHandoff

LEMMA EditDirectoryFits ==
  ASSUME LauncherInv, NEW d \in 1..Dirs, EditDirectory(d)
  PROVE  LauncherInv'
<1>1. /\ UNCHANGED <<sessionVars, queue, handoff, staged, backups, attempts, stop, launched>>
      /\ UNCHANGED <<released, host>>
      /\ place' = [place EXCEPT ![d] = Edited]
  BY DEF EditDirectory
<1>2. Grown
  BY <1>1, SessionRests
<1>3. QueueInv' /\ StopInv'
  BY <1>1, <1>2, QueueStays, StopStays DEF LauncherInv
<1>4. DOMAIN place' = 1..Dirs /\ place'[d] = Edited
      /\ \A x \in 1..Dirs : x # d => place'[x] = place[x]
  BY <1>1 DEF LauncherInv, ImportInv
<1>5. ImportLosesNothing'
  BY <1>1, <1>4 DEF LauncherInv, ImportInv, ImportLosesNothing, Prepared
<1>6. ImportInv'
  BY <1>1, <1>4, <1>5 DEF LauncherInv, ImportInv, Prepared
<1>7. Spent => Spent'
  BY <1>1, <1>2, SpentStays
<1>8. HostFits'
  BY <1>1, <1>2, <1>7, HostStays DEF LauncherInv, Looked, Withdrawn, Queued
<1> QED BY <1>3, <1>6, <1>8 DEF LauncherInv

\* One rename moves a directory the journal described to its backup, or a staged one to
\* the place that is free.
LEMMA MoveFacts ==
  ASSUME LauncherInv, ApplyMove
  PROVE  /\ UNCHANGED <<sessionVars, queue, handoff, attempts, stop, launched, released>>
         /\ host.pc = "apply"
         /\ \/ Refuse /\ UNCHANGED <<place, staged, backups>>
            \/ \E d \in 1..Dirs :
                 LET x == <<handoff.attempt, d>> IN
                 /\ x \in staged /\ UNCHANGED host
                 /\ \/ /\ place[d] # None /\ x \notin DOMAIN backups /\ place[d] = handoff.old[d]
                       /\ backups' = [y \in DOMAIN backups \cup {x} |->
                                        IF y = x THEN place[d] ELSE backups[y]]
                       /\ place' = [place EXCEPT ![d] = None]
                       /\ UNCHANGED staged
                    \/ /\ place[d] = None /\ (handoff.old[d] = None \/ x \in DOMAIN backups)
                       /\ place' = [place EXCEPT ![d] = handoff.attempt]
                       /\ staged' = staged \ {x}
                       /\ UNCHANGED backups
<1> DEFINE todo == ApplyBegins.todo
           d == CHOOSE x \in todo : \A y \in todo : x <= y
           x == <<handoff.attempt, d>>
<1>1. todo = {e \in 1..Dirs : <<handoff.attempt, e>> \in staged}
  BY DEF ApplyBegins
<1>2. todo \in SUBSET Nat /\ todo # {}
  <2>1. todo # {}
    BY DEF ApplyMove
  <2>2. todo \subseteq 1..Dirs /\ 1..Dirs \subseteq Nat
    BY <1>1
  <2> HIDE DEF todo
  <2> QED BY <2>1, <2>2
<1>3. \E e \in todo : \A y \in todo : e <= y
  BY <1>2, LeastNatural
<1>4. d \in todo
  BY <1>3
<1>5. d \in 1..Dirs /\ x \in staged
  BY <1>1, <1>4
<1>6. PICK a \in Nat : a = handoff.attempt
  BY DEF LauncherInv, ImportInv
<1>7. \/ Refuse /\ UNCHANGED <<place, staged, backups>>
      \/ /\ place[d] # None /\ x \notin DOMAIN backups /\ place[d] = handoff.old[d]
         /\ backups' = [y \in DOMAIN backups \cup {x} |->
                          IF y = x THEN place[d] ELSE backups[y]]
         /\ place' = [place EXCEPT ![d] = None]
         /\ UNCHANGED <<staged, host>>
      \/ /\ place[d] = None /\ (handoff.old[d] = None \/ x \in DOMAIN backups)
         /\ place' = [place EXCEPT ![d] = handoff.attempt]
         /\ staged' = staged \ {x}
         /\ UNCHANGED <<backups, host>>
  BY DEF ApplyMove
<1>8. /\ UNCHANGED <<sessionVars, queue, handoff, attempts, stop, launched, released>>
      /\ host.pc = "apply"
  BY DEF ApplyMove
<1> HIDE DEF d, todo
<1> QED BY <1>5, <1>7, <1>8

LEMMA ApplyMoveFits ==
  ASSUME LauncherInv, ApplyMove
  PROVE  LauncherInv'
<1>1. /\ UNCHANGED <<sessionVars, queue, handoff, attempts, stop, launched, released>>
      /\ host.pc = "apply"
  BY MoveFacts
<1>2. Grown
  BY <1>1, SessionRests
<1>3. QueueInv' /\ StopInv'
  BY <1>1, <1>2, QueueStays, StopStays DEF LauncherInv
<1>4. CASE Refuse /\ UNCHANGED <<place, staged, backups>>
  <2>1. ImportInv'
    BY <1>1, <1>4 DEF LauncherInv, ImportInv, ImportLosesNothing, Prepared
  <2>2. HostFits'
    BY <1>1, <1>4, RefuseFits
  <2> QED BY <1>3, <2>1, <2>2 DEF LauncherInv
<1>5. CASE UNCHANGED host /\ ImportInv'
  <2>1. Spent => Spent'
    BY <1>1, <1>2, SpentStays
  <2>2. HostFits'
    BY <1>1, <1>2, <1>5, <2>1, HostStays DEF LauncherInv, Looked, Withdrawn, Queued
  <2> QED BY <1>3, <1>5, <2>2 DEF LauncherInv
<1>6. PICK a \in Nat : a = handoff.attempt
  BY DEF LauncherInv, ImportInv
<1>7. Prepared /\ Prepared' /\ a = handoff'.attempt /\ handoff'.old = handoff.old
  BY <1>1, <1>6 DEF LauncherInv, HostFits, Prepared
<1>8. ASSUME NEW d \in 1..Dirs, place[d] # None, <<a, d>> \notin DOMAIN backups,
             place[d] = handoff.old[d], <<a, d>> \in staged,
             backups' = [y \in DOMAIN backups \cup {<<a, d>>} |->
                           IF y = <<a, d>> THEN place[d] ELSE backups[y]],
             place' = [place EXCEPT ![d] = None], UNCHANGED staged
      PROVE  ImportInv'
  <2>1. DOMAIN place' = 1..Dirs /\ place'[d] = None
        /\ \A e \in 1..Dirs : e # d => place'[e] = place[e]
    BY <1>8 DEF LauncherInv, ImportInv
  <2>2. DOMAIN backups' = DOMAIN backups \cup {<<a, d>>} /\ backups'[<<a, d>>] = handoff.old[d]
        /\ \A x \in DOMAIN backups : backups'[x] = backups[x]
    BY <1>8
  <2>3. ImportLosesNothing'
    <3> SUFFICES ASSUME NEW e \in 1..Dirs
                 PROVE  /\ \/ handoff.old[e] \in {None, place'[e]} \/ place'[e] = Edited
                           \/ <<a, e>> \in DOMAIN backups' /\ backups'[<<a, e>>] = handoff.old[e]
                        /\ <<a, e>> \in staged' \/ place'[e] \in {a, Edited}
      BY <1>7 DEF ImportLosesNothing
    <3>1. CASE e = d
      BY <1>8, <2>2, <3>1
    <3>2. CASE e # d
      BY <1>6, <1>7, <1>8, <2>1, <2>2, <3>2 DEF LauncherInv, ImportInv, ImportLosesNothing
    <3> QED BY <3>1, <3>2
  <2>4. \A x \in DOMAIN backups' : x[1] \in Nat /\ x[1] <= a
    <3>1. <<a, d>>[1] = a
      OBVIOUS
    <3> QED BY <1>6, <2>2, <3>1 DEF LauncherInv, ImportInv
  <2>5. \A e \in 1..Dirs : <<a, e>> \in DOMAIN backups' => backups'[<<a, e>>] = handoff.old[e]
    BY <1>6, <1>7, <2>2 DEF LauncherInv, ImportInv
  <2> QED BY <1>1, <1>6, <1>7, <2>1, <2>3, <2>4, <2>5 DEF LauncherInv, ImportInv
<1>9. ASSUME NEW d \in 1..Dirs, place[d] = None,
             handoff.old[d] = None \/ <<a, d>> \in DOMAIN backups,
             place' = [place EXCEPT ![d] = a], staged' = staged \ {<<a, d>>},
             UNCHANGED backups
      PROVE  ImportInv'
  <2>1. DOMAIN place' = 1..Dirs /\ place'[d] = a
        /\ \A e \in 1..Dirs : e # d => place'[e] = place[e]
    BY <1>9 DEF LauncherInv, ImportInv
  <2>2. \A e \in 1..Dirs : e # d /\ <<a, e>> \in staged => <<a, e>> \in staged'
    BY <1>9
  <2>3. ImportLosesNothing'
    <3> SUFFICES ASSUME NEW e \in 1..Dirs
                 PROVE  /\ \/ handoff.old[e] \in {None, place'[e]} \/ place'[e] = Edited
                           \/ <<a, e>> \in DOMAIN backups' /\ backups'[<<a, e>>] = handoff.old[e]
                        /\ <<a, e>> \in staged' \/ place'[e] \in {a, Edited}
      BY <1>7 DEF ImportLosesNothing
    <3>1. CASE e = d
      BY <1>6, <1>7, <1>9, <2>1, <3>1 DEF LauncherInv, ImportInv
    <3>2. CASE e # d
      BY <1>6, <1>7, <1>9, <2>1, <2>2, <3>2 DEF LauncherInv, ImportInv, ImportLosesNothing
    <3> QED BY <3>1, <3>2
  <2> QED BY <1>1, <1>6, <1>7, <1>9, <2>1, <2>3 DEF LauncherInv, ImportInv
<1> QED BY <1>4, <1>5, <1>6, <1>8, <1>9, MoveFacts

------------------------------------------------------------------------------
(* The launcher's invariant is inductive. *)

LInv == SessionInv /\ JournalInv /\ LauncherInv

\* What a step of the session leaves in order.
LEMMA SessionStepFits ==
  ASSUME SessionInv, JournalInv, SessionNext \/ UNCHANGED sessionVars
  PROVE  SessionInv' /\ JournalInv' /\ Grown
<1>1. CASE SessionNext
  BY <1>1, SessionKeeps, OneAtATimeKeeps, CostKeeps, FrozenKeeps, SessionGrows
     DEF SessionNext, JournalInv
<1>2. CASE UNCHANGED sessionVars
  <2>1. SessionInv'
    BY <1>2, QuietKeeps DEF sessionVars
  <2> QED BY <1>2, <2>1, JournalStays, SessionRests
<1> QED BY <1>1, <1>2

LEMMA LauncherStarts ==
  ASSUME InitProgression PROVE LauncherInv
<1>1. QueueInv
  BY ProgressionAssumption DEF InitProgression, QueueInv
<1>2. StopInv
  BY DEF InitProgression, StopInv
<1>3. ImportInv
  <2>1. attempts = << >> /\ handoff.attempt = 0 /\ ~Prepared
    BY ProgressionAssumption DEF InitProgression, Prepared
  <2> QED BY <2>1 DEF InitProgression, ImportInv, ImportLosesNothing
<1>4. HostFits
  BY DEF InitProgression, HostFits, HostFields, Off
<1> QED BY <1>1, <1>2, <1>3, <1>4 DEF LauncherInv

LEMMA StepFits ==
  ASSUME LauncherInv, Grown, ProgressionNext
  PROVE  LauncherInv'
<1>1. CASE RunController \/ Recover \/ Decide \/ ReadQueue \/ Executed \/ AfterAttempt
           \/ Launch
  BY <1>1, LoopFits, DecideFits, ReadQueueFits, ExecutedFits, AfterFits, LaunchFits
<1>2. CASE SubmitQueued \/ CloseFinishes
  BY <1>2, SubmitFits
<1>3. CASE ActionStep \/ ResolveAction \/ TimePasses \/ KillUser \/ KillHost
           \/ \E r \in Requests : Act(r)
  BY <1>3, OutsideFits
<1>4. CASE Acknowledge \/ CloseReleases \/ ResolveDeferred \/ ApplyQueues
           \/ \E r \in Requests : Defer(r)
  BY <1>4, AcknowledgeFits, CloseReleasesFits, ResolveDeferredFits, ApplyQueuesFits, DeferFits
<1>5. CASE StartAttempt \/ ControllerExits \/ RecordAttempt \/ ResolveAttempt \/ CloseBudget
  BY <1>5, StartAttemptFits, ControllerFits, RecordAttemptFits, ResolveAttemptFits,
     CloseBudgetFits
<1>6. CASE AcceptReturn \/ ApplyMove \/ \E d \in 1..Dirs : EditDirectory(d)
  BY <1>6, AcceptReturnFits, ApplyMoveFits, EditDirectoryFits
<1> QED BY <1>1, <1>2, <1>3, <1>4, <1>5, <1>6 DEF ProgressionNext, HostStep

LEMMA NothingMoves ==
  ASSUME LauncherInv, UNCHANGED progressionVars
  PROVE  LauncherInv'
<1>1. HostOnly /\ UNCHANGED host
  BY DEF progressionVars, hostVars, HostOnly
<1>2. QueueInv' /\ StopInv' /\ ImportInv' /\ Grown
  BY <1>1, HostOnlyFiles
<1>3. Spent => Spent'
  BY <1>1, <1>2, SpentStays DEF HostOnly
<1>4. (Looked => Looked') /\ (Withdrawn => Withdrawn')
  BY <1>1 DEF HostOnly, Looked, Queued, Withdrawn
<1>5. HostFits'
  BY <1>1, <1>2, <1>3, <1>4, HostStays DEF LauncherInv, HostOnly
<1> QED BY <1>2, <1>5 DEF LauncherInv

LEMMA LauncherStepKeeps == LInv /\ [ProgressionNext]_progressionVars => LInv'
<1> SUFFICES ASSUME LInv, [ProgressionNext]_progressionVars PROVE LInv'
  OBVIOUS
<1>1. SessionNext \/ UNCHANGED sessionVars
  BY LauncherSteps DEF LInv, LauncherInv, progressionVars
<1>2. SessionInv' /\ JournalInv' /\ Grown
  BY <1>1, SessionStepFits DEF LInv
<1>3. LauncherInv'
  BY <1>2, StepFits, NothingMoves DEF LInv
<1> QED BY <1>2, <1>3 DEF LInv

LEMMA LauncherInductive == ProgressionSpec => []LInv
<1>1. InitProgression => LInv
  BY SessionStarts, LauncherStarts DEF InitProgression, LInv
<1> QED BY <1>1, LauncherStepKeeps, PTL DEF ProgressionSpec

------------------------------------------------------------------------------
(* The theorems about the launcher. *)

\* Whatever the launcher, a user and their kills do, the session sees only steps of its
\* own: every action goes through execute_action under the session lock, so all that is
\* proved of a session holds of one that a launcher drives (drive_controller).
THEOREM LauncherDrivesASession == ProgressionSpec => SessionSpec
<1>1. InitProgression => Init
  BY DEF InitProgression
<1>2. LInv /\ [ProgressionNext]_progressionVars => [SessionNext]_sessionVars
  BY LauncherSteps DEF LInv, LauncherInv, progressionVars
<1> QED BY <1>1, <1>2, LauncherInductive, PTL DEF ProgressionSpec, SessionSpec

\* A session whose health records nothing has nothing open or failed.
LEMMA HealthyIsDone ==
  ASSUME LInv, exec = Idle, Health = "no_recorded_incidents"
  PROVE  /\ \A id \in Ids : effects[id] > 0 => Completed(id)
         /\ \A a \in DOMAIN attempts : attempts[a].phase = "completed" /\ ~attempts[a].rejected
<1>1. Unresolved = {} /\ Incidents = {}
  BY DEF Health
<1>2. Status # "interrupted"
  <2>1. Status = "interrupted" => "action_outcome_unknown" \in Unresolved
    BY DEF Unresolved
  <2> QED BY <1>1, <2>1
<1>3. Pending = {}
  BY <1>2 DEF Status
<1>4. \A a \in DOMAIN attempts : attempts[a].phase # "started"
  <2>1. (\E a \in DOMAIN attempts : attempts[a].phase = "started")
          => "controller_outcome_pending" \in Unresolved
    BY DEF Unresolved
  <2> QED BY <1>1, <2>1
<1>5. \A a \in DOMAIN attempts : attempts[a].phase # "failed" /\ ~attempts[a].rejected
  BY <1>1 DEF Incidents
<1>6. \A e \in DOMAIN journal : journal[e].phase # "failed"
  BY <1>1 DEF Incidents
<1>7. \A a \in DOMAIN attempts : attempts[a].phase = "completed"
  <2>1. \A a \in DOMAIN attempts : attempts[a] \in Attempt
    BY DEF LInv, LauncherInv, StopInv
  <2>2. \A a \in DOMAIN attempts : attempts[a].phase \in {"started", "completed", "failed"}
    BY <2>1 DEF Attempt
  <2> QED BY <1>4, <1>5, <2>2
<1>8. ASSUME NEW id \in Ids, effects[id] > 0 PROVE Completed(id)
  <2>1. Started(id)
    BY <1>8 DEF LInv, SessionInv, StartedFirst
  <2>2. Terminal(id)
    BY <1>3, <2>1 DEF Pending
  <2> QED BY <1>6, <2>2 DEF Terminal, Completed
<1> QED BY <1>5, <1>7, <1>8

\* Nothing looks done that is not: a queued request is acknowledged only when it was
\* carried out or released, and a session whose health records nothing hides no action
\* and no attempt that did not end well (drain_action, session_health).
THEOREM AckedStaysDone == ProgressionSpec => []AckedIsDone
<1>1. LInv => AckedIsDone
  BY HealthyIsDone DEF LInv, LauncherInv, QueueInv, AckedIsDone
<1> QED BY <1>1, LauncherInductive, PTL

\* An edited directory goes to a backup before it is replaced.
LEMMA EditsAreSaved ==
  ASSUME LInv, [ProgressionNext]_progressionVars, NEW d \in 1..Dirs,
         place[d] = Edited, place'[d] # Edited
  PROVE  \E x \in DOMAIN backups' : x[2] = d /\ backups'[x] = Edited
<1>1. ASSUME UNCHANGED place PROVE FALSE
  BY <1>1
<1>2. ASSUME NEW e \in 1..Dirs, EditDirectory(e) PROVE FALSE
  BY <1>2 DEF EditDirectory, LInv, LauncherInv, ImportInv
<1>3. ApplyMove
  <2>1. \A e \in 1..Dirs : ~EditDirectory(e)
    BY <1>2
  <2>2. ~UNCHANGED progressionVars
    BY <1>1 DEF progressionVars, hostVars
  <2>3. ASSUME RunController \/ ActionStep \/ (\E r \in Requests : Act(r) \/ Defer(r))
               \/ ResolveAction \/ ResolveDeferred \/ ResolveAttempt \/ KillHost \/ KillUser
               \/ TimePasses
        PROVE  FALSE
    BY <1>1, <2>3 DEF RunController, ActionStep, Act, Defer, ResolveAction, ResolveDeferred,
       ResolveAttempt, KillHost, KillUser, TimePasses, hostVars
  <2>4. ASSUME Recover \/ Decide \/ ReadQueue \/ SubmitQueued \/ Executed \/ Acknowledge
               \/ CloseBudget \/ CloseReleases \/ CloseFinishes
        PROVE  FALSE
    BY <1>1, <2>4 DEF Recover, Decide, ReadQueue, SubmitQueued, Executed, Acknowledge,
       CloseBudget, CloseReleases, CloseFinishes, Submit
  <2>5. ASSUME Launch \/ StartAttempt \/ ControllerExits \/ AcceptReturn \/ ApplyQueues
               \/ RecordAttempt \/ AfterAttempt
        PROVE  FALSE
    BY <1>1, <2>5 DEF Launch, StartAttempt, ControllerExits, AcceptReturn, ApplyQueues,
       RecordAttempt, AfterAttempt
  <2> QED BY <2>1, <2>2, <2>3, <2>4, <2>5 DEF ProgressionNext, HostStep
<1>4. PICK e \in 1..Dirs :
        /\ place[e] # None /\ <<handoff.attempt, e>> \notin DOMAIN backups
        /\ backups' = [y \in DOMAIN backups \cup {<<handoff.attempt, e>>} |->
                         IF y = <<handoff.attempt, e>> THEN place[e] ELSE backups[y]]
        /\ place' = [place EXCEPT ![e] = None]
        \/ /\ place[e] = None /\ place' = [place EXCEPT ![e] = handoff.attempt]
  BY <1>1, <1>3, MoveFacts DEF LInv
<1>5. e = d /\ place[d] # None
  <2>1. Edited # None
    BY ProgressionAssumption DEF Edited
  <2>2. DOMAIN place = 1..Dirs
    BY DEF LInv, LauncherInv, ImportInv
  <2> QED BY <1>4, <2>1, <2>2
<1>6. <<handoff.attempt, d>> \in DOMAIN backups' /\ backups'[<<handoff.attempt, d>>] = Edited
  BY <1>4, <1>5
<1>7. <<handoff.attempt, d>>[2] = d
  OBVIOUS
<1> QED BY <1>6, <1>7

\* The import loses no file of the workspace or of the controller's return, wherever it is
\* killed and rolled forward, and moves a user's edit to a backup before it replaces it
\* (commit_handoff, recover_handoff, _apply).
THEOREM ImportsAreSafe == ProgressionSpec => ImportIsSafe
<1>1. LInv /\ [ProgressionNext]_progressionVars /\ LInv' =>
        [/\ ImportLosesNothing'
         /\ \A d \in 1..Dirs :
              place[d] = Edited /\ place'[d] # Edited =>
                \E x \in DOMAIN backups' : x[2] = d /\ backups'[x] = Edited]_progressionVars
  BY EditsAreSaved DEF LInv, LauncherInv, ImportInv
<1> QED BY <1>1, LauncherInductive, PTL DEF ProgressionSpec, ImportIsSafe

\* After a stop no step starts, ends or prices an attempt.
LEMMA NoAttemptAfterStop ==
  ASSUME LInv, [ProgressionNext]_progressionVars, stop
  PROVE  UNCHANGED attempts
<1>1. /\ host.pc \notin {"launch", "start", "control", "return", "record"}
      /\ ~AttemptPending
  BY DEF LInv, LauncherInv, HostFits, StopInv, Spent
<1>2. CASE UNCHANGED progressionVars
  BY <1>2 DEF progressionVars, hostVars
<1>3. CASE StartAttempt \/ ControllerExits \/ RecordAttempt \/ ResolveAttempt
  BY <1>1, <1>3 DEF StartAttempt, ControllerExits, RecordAttempt, ResolveAttempt
<1>4. CASE RunController \/ ActionStep \/ (\E r \in Requests : Act(r) \/ Defer(r))
           \/ ResolveAction \/ ResolveDeferred \/ KillHost \/ KillUser \/ TimePasses
           \/ \E d \in 1..Dirs : EditDirectory(d)
  BY <1>4 DEF RunController, ActionStep, Act, Defer, ResolveAction, ResolveDeferred,
     KillHost, KillUser, TimePasses, hostVars, EditDirectory
<1>5. CASE Recover \/ Decide \/ ReadQueue \/ SubmitQueued \/ Executed \/ Acknowledge
           \/ CloseBudget \/ CloseReleases \/ CloseFinishes
  BY <1>5 DEF Recover, Decide, ReadQueue, SubmitQueued, Executed, Acknowledge,
     CloseBudget, CloseReleases, CloseFinishes, Submit
<1>6. CASE Launch \/ AcceptReturn \/ ApplyMove \/ ApplyQueues \/ AfterAttempt
  BY <1>6 DEF Launch, AcceptReturn, ApplyMove, ApplyQueues, AfterAttempt
<1> QED BY <1>2, <1>3, <1>4, <1>5, <1>6 DEF ProgressionNext, HostStep

\* After a stop the launcher begins the finish, or the request it read from the queue.
LEMMA OnlyLifecyclesAfterStop ==
  ASSUME LInv, [ProgressionNext]_progressionVars, stop,
         host.pc # "off", exec = Idle, exec'.who = "host"
  PROVE  \/ exec'.request.kind \in Lifecycles
         \/ \E r \in released : r.kind \in Lifecycles
<1>1. Idle.who # "host"
  BY ProgressionAssumption DEF Idle
<1>2. ASSUME exec' = exec PROVE FALSE
  BY <1>1, <1>2
<1>3. ASSUME NEW r, Begin("host", r) PROVE exec'.request = r
  BY <1>3 DEF Begin, Idle
<1>4. CASE SubmitQueued
  <2>1. host.pc = "submit" /\ Begin("host", host.request)
    BY <1>2, <1>4 DEF SubmitQueued, Submit, sessionVars
  <2> QED BY <1>3, <2>1 DEF LInv, LauncherInv, HostFits, Withdrawn
<1>5. CASE CloseFinishes
  <2>1. Begin("host", BudgetStop)
    BY <1>2, <1>5 DEF CloseFinishes, Submit, sessionVars
  <2> QED BY <1>3, <2>1 DEF BudgetStop, Lifecycles
<1>6. CASE (\E r \in Requests : Act(r)) \/ ActionStep \/ ResolveAction \/ TimePasses
           \/ KillUser \/ KillHost
  BY <1>1, <1>2, <1>6 DEF Act, Begin, ActionStep, Dispatch, WriteReceipt, CloseSession,
     ResolveAction, ResolveInterrupted, TimePasses, Expire, KillUser, KillHost, KillAction,
     Idle, sessionVars
<1>7. CASE UNCHANGED sessionVars
  BY <1>2, <1>7 DEF sessionVars
<1>8. UNCHANGED sessionVars \/ SubmitQueued \/ CloseFinishes
      \/ (\E r \in Requests : Act(r)) \/ ActionStep \/ ResolveAction \/ TimePasses
      \/ KillUser \/ KillHost
  BY LauncherRests DEF progressionVars
<1> QED BY <1>4, <1>5, <1>6, <1>7, <1>8

\* A stop is a stop: no controller is started after it, and the launcher begins nothing but
\* the finish and requests that end or wake the research, unless a user withdrew such a
\* request between its look at the queue and its reading of it (drive_controller,
\* drain_action).
THEOREM StopsAreKept == ProgressionSpec => NothingPaidAfterStop
<1>1. LInv /\ [ProgressionNext]_progressionVars =>
        [stop => /\ UNCHANGED attempts
                 /\ host.pc # "off" /\ exec = Idle /\ exec'.who = "host" =>
                      \/ exec'.request.kind \in Lifecycles
                      \/ \E r \in released : r.kind \in Lifecycles]_progressionVars
  BY NoAttemptAfterStop, OnlyLifecyclesAfterStop
<1> QED BY <1>1, LauncherInductive, PTL DEF ProgressionSpec, NothingPaidAfterStop

\* What is true of any session is true of one that a launcher drives: the journal can be
\* believed and the budgets hold (execute_action, _assert_sub_budget).
THEOREM DrivenSessionIsTrue == ProgressionSpec => [](JournalIsTrue /\ BudgetsHold)
<1>1. LInv => JournalIsTrue /\ BudgetsHold
  BY SaysTrue DEF LInv, SessionInv
<1> QED BY <1>1, LauncherInductive, PTL
=============================================================================
