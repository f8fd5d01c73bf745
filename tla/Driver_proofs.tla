---------------------------- MODULE Driver_proofs ----------------------------
(***************************************************************************)
(* Proofs about the driver, for every number of rounds, children, faults,    *)
(* failures and retries, and every gate policy.                              *)
(***************************************************************************)
EXTENDS DriverProps, Archive_proofs, FiniteSetTheorems, WellFoundedInduction

------------------------------------------------------------------------------
(* Where the lock holder is. *)

DrvFields == {"pc", "verb", "gen", "parent", "ref", "next", "round", "slot",
              "selected", "todo", "purpose", "label", "fresh"}

\* The steps that own the worktree of the generation at hand.
Working == {"proposing", "guardrail", "commit", "committed"}

\* The steps that handle one generation, and the record operator among them.
Handles ==
  \/ drv.pc \in Working \cup {"fork", "tagged", "leave", "evaluate", "gate", "audit"}
  \/ drv.pc = "record" /\ drv.next \in {"leave", "audit", "done"}
  \/ drv.pc = "evaluating" /\ drv.purpose = "candidate"

\* The steps of a round outside its generations.
Loops ==
  \/ drv.pc \in {"select", "selectFailed", "slots"}
  \/ drv.pc = "record" /\ drv.next \in {"selectFailed", "slots"}

\* A run handles the generation of its slot, within its rounds.
Control ==
  /\ DOMAIN drv = DrvFields
  /\ drv.round \in Nat /\ drv.slot \in Nat
  /\ drv.pc \in {"genesis", "anchor", "round"} => drv.verb = "run"
  /\ drv.pc = "round" => drv.round # 0
  /\ drv.pc = "record" => drv.next \in {"leave", "audit", "done", "selectFailed", "slots"}
  /\ drv.pc = "evaluating" => drv.purpose \in Purposes
  /\ Loops => drv.verb = "run" /\ drv.round \in 1..MaxGen
  /\ drv.pc = "slots" => drv.slot <= Children
  /\ drv.pc \in {"fork", "proposing", "guardrail"} => drv.verb = "run"
  /\ Handles /\ drv.verb = "run" =>
       drv.gen = Slot(drv.round, drv.slot) /\ drv.round \in 1..MaxGen /\ drv.slot < Children

------------------------------------------------------------------------------
(* Worktrees and tags. *)

Tree == [base : Genid, work : {"clean", "dirty", "committed"}]

\* The tree of the generation at hand was forked from the parent at hand, and what is
\* about to be tagged descends from a parent and has no tag.
Lineage ==
  /\ trees \in [Candidates -> Tree \cup {None}]
  /\ DOMAIN commits \subseteq Genid
  /\ drv.pc \in Working =>
       /\ drv.gen \in Candidates
       /\ trees[drv.gen] \in Tree /\ trees[drv.gen].base = drv.parent
  /\ drv.pc = "commit" => trees[drv.gen].work # "committed"
  /\ drv.pc = "committed" => IsParent(drv.parent) /\ ~Tagged(drv.gen)

------------------------------------------------------------------------------
LEMMA IdleFacts ==
  /\ DOMAIN Idle = DrvFields
  /\ Idle.pc = "idle" /\ Idle.round = 0 /\ Idle.slot = 0 /\ Idle.verb = "none"
  /\ Idle.next = "idle" /\ Idle.purpose = None
BY DEF Idle, DrvFields

LEMMA InitControl == Init => Control
BY IdleFacts DEF Init, Control, Handles, Loops, Working, Slot

LEMMA NextSlotControl ==
  ASSUME Control, drv.round \in 1..MaxGen, drv.slot < Children, drv' = NextSlot
  PROVE  Control'
<1>1. /\ DOMAIN drv' = DrvFields /\ drv'.pc = "slots" /\ drv'.verb = "run"
      /\ drv'.round = drv.round /\ drv'.slot = drv.slot + 1
  BY IdleFacts DEF NextSlot, DrvFields
<1> QED BY <1>1, DriverAssumption DEF Control, Handles, Loops, Working

LEMMA IdleControl ==
  ASSUME drv' = Idle PROVE Control'
BY IdleFacts DEF Control, Handles, Loops, Working

LEMMA DoneControl ==
  ASSUME Control, Handles, drv' = Done PROVE Control'
BY NextSlotControl, IdleControl DEF Control, Done

\* A step within the handling of one generation.
LEMMA HandlingControl ==
  ASSUME Control, Handles, NEW pc, drv' = [drv EXCEPT !.pc = pc],
         pc \in Working \cup {"tagged", "evaluate", "gate", "audit"},
         pc \in {"proposing", "guardrail"} => drv.verb = "run"
  PROVE  Control'
<1>1. /\ DOMAIN drv' = DrvFields /\ drv'.pc = pc /\ drv'.verb = drv.verb /\ drv'.gen = drv.gen
      /\ drv'.round = drv.round /\ drv'.slot = drv.slot
  BY DEF Control, DrvFields
<1> QED BY <1>1 DEF Control, Handles, Loops, Working

------------------------------------------------------------------------------
(* Every step keeps the control state in order. *)

LEMMA RunControl ==
  ASSUME Control,
         \/ EnsureGenesis \/ EnsureGenesisAnchor \/ Round
         \/ \E ps \in Answers : Select(ps)
         \/ SelectFails \/ FailUnselected \/ TakeSlot
  PROVE  Control'
<1>1. CASE EnsureGenesis
  <2>1. CASE Goto("anchor")
    BY <1>1, <2>1 DEF EnsureGenesis, At, Goto, Control, DrvFields, Handles, Loops, Working
  <2>2. CASE drv' = Idle
    BY <2>2, IdleControl
  <2>3. CASE Begin(Genesis, "genesis", Get(Row(Genesis), "parent"))
    BY <1>1, <2>3 DEF EnsureGenesis, At, Begin, Control, DrvFields, Handles, Loops, Working, Purposes
  <2> QED BY <1>1, <2>1, <2>2, <2>3 DEF EnsureGenesis
<1>2. CASE EnsureGenesisAnchor
  <2>1. CASE drv' = [drv EXCEPT !.pc = "round", !.round = 1]
    BY <1>2, <2>1 DEF EnsureGenesisAnchor, At, Control, DrvFields, Handles, Loops, Working
  <2>2. CASE Begin(Genesis, "anchor", Get(Row(Genesis), "parent"))
    BY <1>2, <2>2 DEF EnsureGenesisAnchor, At, Begin, Control, DrvFields, Handles, Loops, Working, Purposes
  <2> QED BY <1>2, <2>1, <2>2 DEF EnsureGenesisAnchor
<1>3. CASE Round
  <2>1. drv.pc = "round" /\ drv.verb = "run" /\ drv.round \in Nat \ {0}
    BY <1>3 DEF Round, At, Control
  <2>2. CASE drv.round > MaxGen /\ drv' = [drv EXCEPT !.pc = "final"]
    BY <2>1, <2>2 DEF Control, DrvFields, Handles, Loops, Working
  <2>3. CASE drv' = [drv EXCEPT !.round = @ + 1]
    BY <2>1, <2>3 DEF Control, DrvFields, Handles, Loops, Working
  <2>4. CASE drv.round <= MaxGen /\ drv' = [drv EXCEPT !.pc = "select"]
    BY <2>1, <2>4 DEF Control, DrvFields, Handles, Loops, Working
  <2> QED BY <1>3, <2>1, <2>2, <2>3, <2>4, DriverAssumption DEF Round
<1>4. CASE \E ps \in Answers : Select(ps)
  <2>1. drv.pc = "select" /\ Loops
    BY <1>4 DEF Select, At, Loops
  <2>2. PICK pc \in {"slots", "selectFailed"} : \E todo, selected :
          drv' = [drv EXCEPT !.pc = pc, !.slot = 0, !.todo = todo, !.selected = selected]
    BY <1>4 DEF Select
  <2> QED BY <2>1, <2>2, DriverAssumption DEF Control, DrvFields, Handles, Loops, Working
<1>5. CASE SelectFails
  BY <1>5 DEF SelectFails, At, Control, DrvFields, Handles, Loops, Working
<1>6. CASE FailUnselected
  BY <1>6 DEF FailUnselected, At, Control, DrvFields, Handles, Loops, Working
<1>7. CASE TakeSlot
  <2>1. drv.pc = "slots" /\ Loops
    BY <1>7 DEF TakeSlot, At, Loops
  <2>2. CASE drv' = [Idle EXCEPT !.pc = "round", !.verb = "run", !.round = drv.round + 1]
    BY <2>1, <2>2, IdleFacts DEF Control, DrvFields, Handles, Loops, Working
  <2>3. CASE drv.slot < Children /\ drv' = NextSlot
    BY <2>1, <2>3, NextSlotControl DEF Control
  <2> DEFINE g == Slot(drv.round, drv.slot)
             parent == IF g \in DOMAIN drv.selected THEN drv.selected[g]
                       ELSE IF Tagged(g) THEN Get(Row(g), "parent") ELSE None
             fresh == ~Tagged(g)
             pc == IF ~Tagged(g) THEN "fork" ELSE IF ~Evaluated(g) THEN "evaluate" ELSE "gate"
  <2>4. CASE /\ drv.slot < Children
             /\ drv' = [drv EXCEPT !.gen = g, !.parent = parent, !.fresh = fresh, !.pc = pc]
    <3>1. pc \in {"fork", "evaluate", "gate"}
      OBVIOUS
    <3> HIDE DEF parent, fresh, pc
    <3> QED BY <2>1, <2>4, <3>1 DEF Control, DrvFields, Handles, Loops, Working
  <2>5. drv.slot = Children \/ drv.slot < Children
    BY <2>1, DriverAssumption DEF Control
  <2> QED BY <1>7, <2>2, <2>3, <2>4, <2>5 DEF TakeSlot
<1> QED BY <1>1, <1>2, <1>3, <1>4, <1>5, <1>6, <1>7

LEMMA ProposalControl ==
  ASSUME Control,
         \/ Fork \/ Propose \/ StageFails \/ AdmitProposal
         \/ \E status \in Rejections : RejectProposal(status)
         \/ CommitSnapshot \/ CreateTag \/ CommitLine \/ Leave,
         drv.pc = "commit" => trees[drv.gen].work \in {"clean", "dirty"}
  PROVE  Control'
<1>1. ASSUME Handles, NEW ref, ThenRecord(ref, "leave")
      PROVE  Control'
  BY <1>1 DEF ThenRecord, Control, DrvFields, Handles, Loops, Working
<1>2. CASE Fork
  <2>1. drv.pc = "fork" /\ Handles
    BY <1>2 DEF Fork, At, Handles
  <2>2. Goto("proposing") \/ ThenRecord(drv.parent, "leave")
    BY <1>2 DEF Fork
  <2> QED BY <1>1, <2>1, <2>2, HandlingControl DEF Goto, Working, Control
<1>3. CASE Propose
  BY <1>3, HandlingControl DEF Propose, At, Goto, Handles, Working, Control
<1>4. CASE StageFails \/ \E status \in Rejections : RejectProposal(status)
  BY <1>1, <1>4 DEF StageFails, RejectProposal, At, Handles, Working
<1>5. CASE AdmitProposal
  BY <1>5, HandlingControl DEF AdmitProposal, At, Goto, Handles, Working
<1>6. CASE CommitSnapshot
  <2>1. drv.pc = "commit" /\ Handles
    BY <1>6 DEF CommitSnapshot, At, Handles, Working
  <2>2. CASE drv' = [drv EXCEPT !.pc = "leave", !.next = "slots"]
    BY <2>1, <2>2 DEF Control, DrvFields, Handles, Loops, Working
  <2>3. drv' = Idle \/ drv' = [drv EXCEPT !.pc = "leave", !.next = "slots"] \/ Goto("committed")
    BY <1>6, <2>1 DEF CommitSnapshot
  <2> QED BY <2>1, <2>2, <2>3, IdleControl, HandlingControl DEF Goto, Working
<1>7. CASE CreateTag
  BY <1>7, HandlingControl DEF CreateTag, At, Goto, Handles, Working
<1>8. CASE CommitLine
  BY <1>8 DEF CommitLine, At, Control, DrvFields, Handles, Loops, Working
<1>9. CASE Leave
  BY <1>9, DoneControl, HandlingControl DEF Leave, At, Handles
<1> QED BY <1>2, <1>3, <1>4, <1>5, <1>6, <1>7, <1>8, <1>9

LEMMA EvaluationControl ==
  ASSUME Control,
         \/ EvalChild
         \/ \E r \in Results : FinishEvaluation(r[1], r[2])
         \/ GateDecides \/ GateFails \/ RecordTerminal \/ Audit \/ FinishRun
  PROVE  Control'
<1>1. CASE EvalChild
  <2>1. drv.pc = "evaluate" /\ Handles
    BY <1>1 DEF EvalChild, At, Handles
  <2>2. ASSUME NEW p, Begin(drv.gen, "candidate", p) PROVE Control'
    BY <2>1, <2>2 DEF Begin, Control, DrvFields, Handles, Loops, Working, Purposes
  <2>3. \/ drv' = [drv EXCEPT !.pc = "gate"] \/ drv' = Done \/ drv' = Idle
        \/ \E p : Begin(drv.gen, "candidate", p)
    BY <1>1 DEF EvalChild
  <2> QED BY <2>1, <2>2, <2>3, DoneControl, IdleControl, HandlingControl
<1>2. CASE \E r \in Results : FinishEvaluation(r[1], r[2])
  <2>1. PICK complete \in BOOLEAN : drv' = AfterEvaluation(complete) /\ drv.pc = "evaluating"
    BY <1>2 DEF FinishEvaluation, At
  <2> DEFINE cleared == [drv EXCEPT !.purpose = None, !.label = None]
  <2>2. drv' = Idle \/ (drv.verb = "run"
        /\ (\/ drv.purpose = "genesis" /\ drv' = [cleared EXCEPT !.pc = "anchor"]
            \/ drv.purpose = "anchor" /\ drv' = [cleared EXCEPT !.pc = "round", !.round = 1]
            \/ drv.purpose = "candidate" /\ drv' = [cleared EXCEPT !.pc = "gate"]
            \/ drv.purpose = "candidate" /\ drv' = NextSlot))
    BY <2>1 DEF AfterEvaluation, Control, Purposes
  <2>3. drv.purpose = "candidate" => Handles
    BY <2>1 DEF Handles
  <2>4. CASE drv' = [cleared EXCEPT !.pc = "anchor"] /\ drv.verb = "run"
    BY <2>4 DEF Control, DrvFields, Handles, Loops, Working
  <2>5. CASE drv' = [cleared EXCEPT !.pc = "round", !.round = 1] /\ drv.verb = "run"
    BY <2>5 DEF Control, DrvFields, Handles, Loops, Working
  <2>6. CASE drv' = [cleared EXCEPT !.pc = "gate"] /\ Handles
    BY <2>6 DEF Control, DrvFields, Handles, Loops, Working
  <2>7. CASE drv' = NextSlot /\ Handles /\ drv.verb = "run"
    BY <2>7, NextSlotControl DEF Control
  <2> HIDE DEF cleared
  <2> QED BY <2>2, <2>3, <2>4, <2>5, <2>6, <2>7, IdleControl
<1>3. CASE GateDecides \/ GateFails
  BY <1>3, ZenonT(60) DEF GateDecides, GateFails, ThenRecord, AfterGate, At, Control, DrvFields, Handles, Loops, Working
<1>4. CASE RecordTerminal
  <2>1. drv.pc = "record" /\ (drv' = Idle \/ drv' = AfterRecord)
    BY <1>4 DEF RecordTerminal, At
  <2>2. CASE drv.next = "slots" /\ drv' = AfterRecord
    <3>1. drv' = [Idle EXCEPT !.pc = "slots", !.verb = "run", !.round = drv.round,
                              !.selected = drv.selected]
      BY <2>2 DEF AfterRecord
    <3>2. Loops
      BY <2>1, <2>2 DEF Loops
    <3> QED BY <3>1, <3>2, IdleFacts, DriverAssumption DEF Control, DrvFields, Handles, Loops, Working
  <2>3. CASE drv.next = "done" /\ drv' = AfterRecord
    BY <2>1, <2>3, DoneControl DEF AfterRecord, Handles
  <2>4. CASE drv.next \in {"selectFailed", "leave", "audit"} /\ drv' = AfterRecord
    <3>1. drv' = [drv EXCEPT !.pc = drv.next]
      BY <2>4 DEF AfterRecord
    <3> QED BY <2>1, <2>4, <3>1 DEF Control, DrvFields, Handles, Loops, Working
  <2> QED BY <2>1, <2>2, <2>3, <2>4, IdleControl DEF Control
<1>5. CASE Audit
  BY <1>5, DoneControl DEF Audit, At, Handles
<1>6. CASE FinishRun
  <2>1. drv.pc = "final" /\ (drv' = Idle \/ \E b, p : Begin(b, "anchor", p))
    BY <1>6 DEF FinishRun, At
  <2>2. ASSUME NEW b, NEW p, Begin(b, "anchor", p) PROVE Control'
    BY <2>1, <2>2, ZenonT(60) DEF Begin, Control, DrvFields, Handles, Loops, Working, Purposes
  <2> QED BY <2>1, <2>2, IdleControl
<1> QED BY <1>1, <1>2, <1>3, <1>4, <1>5, <1>6

LEMMA VerbControl ==
  ASSUME Control, VerbStep PROVE Control'
<1>1. CASE UNCHANGED drv
  BY <1>1 DEF Control, Handles, Loops
<1>3. CASE StartRun
  BY <1>3, IdleFacts DEF StartRun, Control, DrvFields, Handles, Loops, Working
<1>4. ASSUME NEW g, AgentCommit(g) \/ AgentEval(g) \/ Retry(g) \/ Finalize(g) PROVE Control'
  <2>1. CASE AgentCommit(g)
    BY <2>1, IdleFacts DEF AgentCommit, Control, DrvFields, Handles, Loops, Working
  <2>2. CASE AgentEval(g)
    BY <2>2, IdleFacts DEF AgentEval, Control, DrvFields, Handles, Loops, Working
  <2>3. CASE Retry(g)
    BY <2>3, IdleFacts DEF Retry, Control, DrvFields, Handles, Loops, Working
  <2>4. CASE Finalize(g)
    BY <2>4, IdleFacts DEF Finalize, Control, DrvFields, Handles, Loops, Working
  <2> QED BY <1>4, <2>1, <2>2, <2>3, <2>4
<1>5. ASSUME NEW g, SealChampion(g) PROVE Control'
  BY <1>5, IdleFacts DEF SealChampion, Control, DrvFields, Handles, Loops, Working, Purposes
<1>6. \/ UNCHANGED drv \/ StartRun
      \/ \E g : AgentCommit(g) \/ AgentEval(g) \/ Retry(g) \/ Finalize(g) \/ SealChampion(g)
  BY DEF VerbStep, AgentFork, AgentEdit, UserResetsTree, Annotate, Repair, UserDeletesStrays
<1> QED BY <1>1, <1>3, <1>4, <1>5, <1>6

LEMMA FaultControl ==
  ASSUME FaultStep PROVE Control'
BY IdleControl DEF FaultStep, Kill, KillInStamp, Interrupt

LEMMA ControlKept ==
  ASSUME Control, Lineage, [Next]_vars PROVE Control'
<1>1. CASE UNCHANGED vars
  BY <1>1 DEF vars, Control, Handles, Loops
<1>2. drv.pc = "commit" => trees[drv.gen].work \in {"clean", "dirty"}
  BY DEF Lineage, Tree, Working
<1>3. CASE RunStep
  BY <1>2, <1>3, RunControl, ProposalControl, EvaluationControl DEF RunStep
<1> QED BY <1>1, <1>3, VerbControl, FaultControl DEF Next

------------------------------------------------------------------------------
(* Every step keeps the lineage in order. *)

Forest == trees \in [Candidates -> Tree \cup {None}]

LEMMA ClearedForest ==
  ASSUME Forest, NEW g, trees' = [trees EXCEPT ![g] = None] \/ trees' = trees
  PROVE  Forest'
BY DEF Forest

LEMMA ReplantedForest ==
  ASSUME Forest, NEW g, NEW t \in Tree, trees' = [trees EXCEPT ![g] = t]
  PROVE  Forest' /\ (g \in Candidates => trees'[g] = t)
BY DEF Forest

LEMMA ReworkedTree ==
  ASSUME NEW t \in Tree, NEW work \in {"clean", "dirty", "committed"}
  PROVE  /\ [t EXCEPT !.work = work] \in Tree
         /\ [t EXCEPT !.work = work].base = t.base
         /\ [t EXCEPT !.work = work].work = work
BY DEF Tree

LEMMA SlotCandidates ==
  ASSUME Control, Handles, drv.verb = "run" PROVE drv.gen \in Candidates
<1>1. drv.slot \in 0..Children - 1 /\ drv.round \in 1..MaxGen /\ drv.gen = <<drv.round, drv.slot>>
  BY DriverAssumption DEF Control, Slot
<1> QED BY <1>1 DEF Candidates

\* The steps that neither plant nor work on a tree.
LEMMA RestsOutside ==
  ASSUME Lineage, Forest', commits' = commits, drv'.pc \notin Working
  PROVE  Lineage'
BY DEF Lineage, Forest, Working

LEMMA RunOutside ==
  ASSUME Control, Lineage,
         \/ EnsureGenesis \/ EnsureGenesisAnchor \/ Round
         \/ \E ps \in Answers : Select(ps)
         \/ SelectFails \/ FailUnselected \/ TakeSlot
  PROVE  Lineage'
<1>1. trees' = trees /\ commits' = commits
  BY DEF EnsureGenesis, EnsureGenesisAnchor, Begin, Round, Select, SelectFails, FailUnselected,
         TakeSlot, durable
<1>2. drv'.pc \notin Working
  <2>1. CASE EnsureGenesis
    <3>1. \/ Goto("anchor") \/ drv' = Idle
          \/ Begin(Genesis, "genesis", Get(Row(Genesis), "parent"))
      BY <2>1 DEF EnsureGenesis
    <3>2. CASE drv' = Idle
      BY <3>2, IdleFacts DEF Working
    <3>3. CASE Goto("anchor") \/ Begin(Genesis, "genesis", Get(Row(Genesis), "parent"))
      BY <3>3 DEF Begin, Goto, Control, DrvFields, Working
    <3> QED BY <3>1, <3>2, <3>3
  <2>2. CASE EnsureGenesisAnchor
    BY <2>2 DEF EnsureGenesisAnchor, Begin, Control, DrvFields, Working
  <2>3. CASE Round
    <3>1. drv.round \in Nat
      BY DEF Control
    <3>2. \/ drv' = [drv EXCEPT !.pc = "final"] \/ drv' = [drv EXCEPT !.pc = "select"]
          \/ drv' = [drv EXCEPT !.round = @ + 1] /\ drv.pc = "round"
      BY <2>3, <3>1, DriverAssumption DEF Round, At
    <3> QED BY <3>2 DEF Control, DrvFields, Working
  <2>4. CASE \E ps \in Answers : Select(ps)
    <3>1. PICK pc \in {"slots", "selectFailed"} : \E todo, selected :
            drv' = [drv EXCEPT !.pc = pc, !.slot = 0, !.todo = todo, !.selected = selected]
      BY <2>4 DEF Select
    <3> QED BY <3>1 DEF Control, DrvFields, Working
  <2>5. CASE SelectFails \/ FailUnselected
    BY <2>5 DEF SelectFails, FailUnselected, Control, DrvFields, Working
  <2>6. CASE TakeSlot
    <3> DEFINE g == Slot(drv.round, drv.slot)
               parent == IF g \in DOMAIN drv.selected THEN drv.selected[g]
                         ELSE IF Tagged(g) THEN Get(Row(g), "parent") ELSE None
               fresh == ~Tagged(g)
               pc == IF ~Tagged(g) THEN "fork" ELSE IF ~Evaluated(g) THEN "evaluate" ELSE "gate"
    <3>1. CASE drv' = [drv EXCEPT !.gen = g, !.parent = parent, !.fresh = fresh, !.pc = pc]
      <4>1. pc \notin Working
        BY DEF Working
      <4> HIDE DEF parent, fresh, pc
      <4> QED BY <3>1, <4>1 DEF Control, DrvFields
    <3>2. CASE drv' = NextSlot
      BY <3>2 DEF NextSlot, Idle, Working
    <3>3. CASE drv' = [Idle EXCEPT !.pc = "round", !.verb = "run", !.round = drv.round + 1]
      BY <3>3 DEF Idle, Working
    <3> QED BY <2>6, <3>1, <3>2, <3>3 DEF TakeSlot
  <2> QED BY <2>1, <2>2, <2>3, <2>4, <2>5, <2>6
<1> QED BY <1>1, <1>2, RestsOutside DEF Forest, Lineage

LEMMA DoneOutside ==
  drv' = Done \/ drv' = Idle => drv'.pc \notin Working
BY IdleFacts DEF Done, NextSlot, DrvFields, Working

LEMMA ProposalLineage ==
  ASSUME Control, Lineage,
         \/ Fork \/ Propose \/ StageFails \/ AdmitProposal
         \/ \E status \in Rejections : RejectProposal(status)
         \/ CommitSnapshot \/ CreateTag \/ CommitLine \/ Leave
  PROVE  Lineage'
<1> USE DEF At
<1>1. Forest
  BY DEF Forest, Lineage
<1>2. ASSUME NEW ref, ThenRecord(ref, "leave") PROVE drv'.pc \notin Working
  BY <1>2 DEF ThenRecord, Control, DrvFields, Working
<1>3. ASSUME NEW pc, Goto(pc)
      PROVE  drv'.pc = pc /\ drv'.gen = drv.gen /\ drv'.parent = drv.parent
  BY <1>3 DEF Goto, Control, DrvFields
<1>4. CASE Fork
  <2>1. CASE IsParent(drv.parent)
    <3> DEFINE t == [base |-> drv.parent, work |-> "clean"]
    <3>1. t \in Tree
      BY <2>1 DEF Tree, IsParent, Tagged, Lineage
    <3>2. drv.gen \in Candidates
      BY <1>4, SlotCandidates DEF Fork, Handles, Control
    <3>3. trees' = [trees EXCEPT ![drv.gen] = t] /\ Goto("proposing") /\ commits' = commits
      BY <1>4, <2>1 DEF Fork
    <3>4. Forest' /\ trees'[drv.gen] = t
      BY <1>1, <3>1, <3>2, <3>3, ReplantedForest
    <3> QED BY <1>3, <3>1, <3>2, <3>3, <3>4 DEF Lineage, Forest, Working
  <2>2. CASE ~IsParent(drv.parent)
    BY <1>1, <1>2, <1>4, <2>2, RestsOutside DEF Fork, Forest
  <2> QED BY <2>1, <2>2
<1>5. CASE Propose
  <2>1. /\ drv.gen \in Candidates
        /\ trees[drv.gen] \in Tree /\ trees[drv.gen].base = drv.parent
    BY <1>5 DEF Propose, Lineage, Working
  <2>2. PICK work \in {"clean", "dirty"} :
          trees' = [trees EXCEPT ![drv.gen] = [trees[drv.gen] EXCEPT !.work = work]]
    BY <1>5, <2>1 DEF Propose, Lineage
  <2> DEFINE t == [trees[drv.gen] EXCEPT !.work = work]
  <2>3. t \in Tree /\ t.base = drv.parent
    <3>1. work \in {"clean", "dirty", "committed"}
      BY <2>2
    <3> HIDE DEF t
    <3>2. PICK t0 \in Tree : t0 = trees[drv.gen]
      BY <2>1
    <3>3. t = [t0 EXCEPT !.work = work]
      BY <3>2 DEF t
    <3> QED BY <2>1, <3>1, <3>2, <3>3, ReworkedTree, ZenonT(60)
  <2> HIDE DEF t
  <2>4. Forest' /\ trees'[drv.gen] = t
    BY <1>1, <2>1, <2>2, <2>3, ReplantedForest DEF t
  <2> QED BY <1>3, <1>5, <2>1, <2>3, <2>4 DEF Propose, Lineage, Forest, Working
<1>6. CASE StageFails \/ \E status \in Rejections : RejectProposal(status)
  BY <1>1, <1>2, <1>6, RestsOutside DEF StageFails, RejectProposal, Forest
<1>7. CASE AdmitProposal
  <2>1. trees' = trees /\ commits' = commits /\ trees[drv.gen].work = "dirty"
        /\ drv.pc = "guardrail" /\ Goto("commit")
    BY <1>7 DEF AdmitProposal, durable
  <2> QED BY <1>3, <2>1 DEF Lineage, Working
<1>8. CASE CommitSnapshot
  <2>1. /\ drv.pc = "commit" /\ drv.gen \in Candidates
        /\ trees[drv.gen] \in Tree /\ trees[drv.gen].base = drv.parent
        /\ commits' = commits
    BY <1>8 DEF CommitSnapshot, Lineage, Working
  <2>2. CASE KeepTreeUnlessRun /\ drv' = Idle
    BY <1>1, <2>1, <2>2, ClearedForest, DoneOutside, RestsOutside DEF KeepTreeUnlessRun
  <2>3. CASE drv' = [drv EXCEPT !.pc = "leave", !.next = "slots"] /\ trees' = trees
    <3>1. drv'.pc \notin Working
      BY <2>3 DEF Control, DrvFields, Working
    <3> QED BY <1>1, <2>1, <2>3, <3>1, RestsOutside DEF Forest
  <2>4. CASE /\ ~CommitRefused(drv.gen) /\ archive' = archive /\ Goto("committed")
             /\ trees' = [trees EXCEPT ![drv.gen].work = "committed"]
    <3> DEFINE t == [trees[drv.gen] EXCEPT !.work = "committed"]
    <3>1. t \in Tree /\ t.base = drv.parent
      BY <2>1, ReworkedTree
    <3>2. trees' = [trees EXCEPT ![drv.gen] = t]
      BY <2>1, <2>4 DEF Lineage
    <3> HIDE DEF t
    <3>3. Forest' /\ trees'[drv.gen] = t
      BY <1>1, <2>1, <3>1, <3>2, ReplantedForest
    <3>4. IsParent(drv.parent) /\ ~Tagged(drv.gen)
      BY <2>4 DEF CommitRefused
    <3>5. (IsParent(drv.parent) /\ ~Tagged(drv.gen))'
      BY <1>3, <2>1, <2>4, <3>4 DEF IsParent, Tagged, Row
    <3> QED BY <1>3, <2>1, <2>4, <3>1, <3>3, <3>5 DEF Lineage, Forest, Working
  <2>5. trees[drv.gen].work \in {"clean", "dirty"}
    BY <2>1 DEF Lineage, Tree
  <2> QED BY <1>8, <2>2, <2>3, <2>4, <2>5 DEF CommitSnapshot
<1>9. CASE CreateTag
  <2>1. drv.gen \in Candidates /\ Goto("tagged") /\ trees' = trees
    BY <1>9 DEF CreateTag, Lineage, Working
  <2>2. DOMAIN commits' = DOMAIN commits \cup {drv.gen}
    BY <1>9 DEF CreateTag
  <2> QED BY <1>3, <2>1, <2>2 DEF Lineage, Working, Genid
<1>10. CASE CommitLine
  BY <1>1, <1>10, RestsOutside DEF CommitLine, Control, DrvFields, Working, Forest
<1>11. CASE Leave
  <2>1. drv'.pc \notin Working
    BY <1>11, DoneOutside DEF Leave, Control, DrvFields, Working
  <2> QED BY <1>1, <1>11, <2>1, ClearedForest, RestsOutside DEF Leave, NoTree
<1> QED BY <1>4, <1>5, <1>6, <1>7, <1>8, <1>9, <1>10, <1>11

LEMMA EvaluationOutside ==
  ASSUME Control, Lineage,
         \/ EvalChild
         \/ \E r \in Results : FinishEvaluation(r[1], r[2])
         \/ GateDecides \/ GateFails \/ RecordTerminal \/ Audit \/ FinishRun
  PROVE  Lineage'
<1>1. Forest
  BY DEF Forest, Lineage
<1>2. commits' = commits /\ Forest'
  <2>1. CASE RecordTerminal
    BY <1>1, <2>1, ClearedForest DEF RecordTerminal, KeepTreeUnlessRun
  <2>2. CASE ~RecordTerminal
    BY <1>1, <2>2 DEF EvalChild, FinishEvaluation, Stamp, Begin, GateDecides, GateFails, Audit,
                      FinishRun, durable, Forest
  <2> QED BY <2>1, <2>2 DEF RecordTerminal
<1>3. drv'.pc \notin Working
  <2>1. CASE EvalChild
    <3>1. \/ drv' = [drv EXCEPT !.pc = "gate"] \/ drv' = Done \/ drv' = Idle
          \/ \E p : Begin(drv.gen, "candidate", p)
      BY <2>1 DEF EvalChild
    <3> QED BY <3>1, DoneOutside DEF Begin, Control, DrvFields, Working
  <2>2. CASE \E r \in Results : FinishEvaluation(r[1], r[2])
    <3>1. PICK complete \in BOOLEAN : drv' = AfterEvaluation(complete) /\ drv.pc = "evaluating"
      BY <2>2 DEF FinishEvaluation, At
    <3> DEFINE cleared == [drv EXCEPT !.purpose = None, !.label = None]
    <3>2. \/ drv' = Idle \/ drv' = NextSlot
          \/ drv' = [cleared EXCEPT !.pc = "anchor"] \/ drv' = [cleared EXCEPT !.pc = "gate"]
          \/ drv' = [cleared EXCEPT !.pc = "round", !.round = 1]
      BY <3>1 DEF AfterEvaluation, Control, Purposes
    <3>3. drv' = NextSlot => drv'.pc \notin Working
      BY DEF NextSlot, Idle, Working
    <3> QED BY <3>2, <3>3, DoneOutside DEF Control, DrvFields, Working
  <2>3. CASE GateDecides \/ GateFails
    BY <2>3 DEF GateDecides, GateFails, ThenRecord, Control, DrvFields, Working
  <2>4. CASE RecordTerminal
    <3>1. drv' = Idle \/ drv' = AfterRecord
      BY <2>4 DEF RecordTerminal
    <3>2. \/ drv' = Idle \/ drv' = Done
          \/ drv.next \in {"selectFailed", "leave", "audit"} /\ drv' = [drv EXCEPT !.pc = drv.next]
          \/ drv' = [Idle EXCEPT !.pc = "slots", !.verb = "run", !.round = drv.round,
                                 !.selected = drv.selected]
      BY <2>4, <3>1 DEF AfterRecord, Control, RecordTerminal, At
    <3> QED BY <3>2, DoneOutside, IdleFacts, ZenonT(60) DEF Control, DrvFields, Working
  <2>5. CASE Audit
    BY <2>5, DoneOutside DEF Audit
  <2>6. CASE FinishRun
    <3>1. drv' = Idle \/ \E b, p : Begin(b, "anchor", p)
      BY <2>6 DEF FinishRun
    <3> QED BY <3>1, DoneOutside DEF Begin, Control, DrvFields, Working
  <2> QED BY <2>1, <2>2, <2>3, <2>4, <2>5, <2>6
<1> QED BY <1>2, <1>3, RestsOutside

\* Between verbs the user's and the agent's worktrees come and go.
LEMMA VerbLineage ==
  ASSUME Control, Lineage, VerbStep PROVE Lineage'
<1>1. Forest /\ commits' = commits
  BY DEF Forest, Lineage, VerbStep, StartRun, AgentFork, AgentEdit, AgentCommit, UserResetsTree,
         AgentEval, Retry, Finalize, SealChampion, Annotate, Repair, UserDeletesStrays, durable
<1>2. drv.pc = "idle"
  BY DEF VerbStep, StartRun, AgentFork, AgentEdit, AgentCommit, UserResetsTree, AgentEval, Retry,
         Finalize, SealChampion, Annotate, Repair, UserDeletesStrays, Idling
<1>3. CASE \E g \in Candidates : AgentCommit(g)
  <2>1. PICK g \in Candidates : AgentCommit(g)
    BY <1>3
  <2>2. trees[g] \in Tree /\ trees[g].work # "committed"
    BY <2>1 DEF AgentCommit, Lineage
  <2>3. /\ drv'.pc = "commit" /\ drv'.gen = g /\ drv'.parent = trees[g].base
        /\ trees' = trees
    BY <2>1, IdleFacts DEF AgentCommit, durable, DrvFields
  <2> QED BY <1>1, <2>1, <2>2, <2>3 DEF Lineage, Forest, Working
<1>4. CASE \E g \in Candidates, p \in Genid : AgentFork(g, p)
  <2>1. PICK g \in Candidates, p \in Genid : AgentFork(g, p)
    BY <1>4
  <2> DEFINE t == [base |-> p, work |-> "clean"]
  <2>2. t \in Tree
    BY <2>1 DEF Tree
  <2>3. Forest'
    BY <1>1, <2>1, <2>2, ReplantedForest DEF AgentFork
  <2> QED BY <1>1, <1>2, <2>1, <2>3, RestsOutside DEF AgentFork, Working
<1>5. CASE \E g \in Candidates : AgentEdit(g) \/ UserResetsTree(g)
  <2>1. PICK g \in Candidates : AgentEdit(g) \/ UserResetsTree(g)
    BY <1>5
  <2>2. trees[g] \in Tree /\ drv' = drv
    BY <1>1, <2>1 DEF AgentEdit, UserResetsTree, Forest
  <2>3. PICK work \in {"clean", "dirty"} :
          trees' = [trees EXCEPT ![g] = [trees[g] EXCEPT !.work = work]]
    BY <1>1, <2>1 DEF AgentEdit, UserResetsTree, Forest
  <2> DEFINE t == [trees[g] EXCEPT !.work = work]
  <2>4. t \in Tree
    <3>1. PICK t0 \in Tree : t0 = trees[g]
      BY <2>2
    <3> QED BY <2>3, <3>1, ReworkedTree
  <2> HIDE DEF t
  <2>5. Forest'
    BY <1>1, <2>3, <2>4, ReplantedForest DEF t
  <2> QED BY <1>1, <1>2, <2>2, <2>5, RestsOutside DEF Working
<1>6. CASE Repair
  BY <1>1, <1>2, <1>6, RestsOutside DEF Repair, Forest, Working
<1>7. CASE \/ StartRun \/ UserDeletesStrays
           \/ \E g \in Genid : \/ AgentEval(g) \/ Retry(g) \/ Finalize(g)
                              \/ SealChampion(g) \/ Annotate(g)
  <2>1. trees' = trees
    BY <1>7 DEF StartRun, UserDeletesStrays, AgentEval, Retry, Finalize, SealChampion, Annotate, durable
  <2>2. drv'.pc \notin Working
    <3>1. CASE drv' = drv
      BY <1>2, <3>1 DEF Working
    <3>2. CASE StartRun
      BY <3>2, IdleFacts DEF StartRun, DrvFields, Working
    <3>3. ASSUME NEW g, AgentEval(g) \/ Retry(g) PROVE drv'.pc \notin Working
      BY <3>3, IdleFacts DEF AgentEval, Retry, DrvFields, Working
    <3>4. ASSUME NEW g, Finalize(g) \/ SealChampion(g) PROVE drv'.pc \notin Working
      BY <3>4, IdleFacts, ZenonT(60) DEF Finalize, SealChampion, DrvFields, Working
    <3> QED BY <1>7, <3>1, <3>2, <3>3, <3>4 DEF UserDeletesStrays, Annotate
  <2> QED BY <1>1, <2>1, <2>2, RestsOutside DEF Forest
<1> QED BY <1>3, <1>4, <1>5, <1>6, <1>7 DEF VerbStep

LEMMA FaultOutside ==
  ASSUME Control, Lineage, FaultStep PROVE Lineage'
<1>1. Forest' /\ commits' = commits
  BY ClearedForest DEF FaultStep, Kill, KillInStamp, Interrupt, Stamp, KeepTreeUnlessRun,
     Lineage, Forest
<1>2. drv'.pc \notin Working
  BY DoneOutside DEF FaultStep, Kill, KillInStamp, Interrupt
<1> QED BY <1>1, <1>2, RestsOutside

------------------------------------------------------------------------------
(* The lineage, proved. *)

LineageInv == Control /\ Lineage

LEMMA LineageInvKept ==
  ASSUME LineageInv, [Next]_vars PROVE LineageInv'
<1>1. CASE UNCHANGED vars
  BY <1>1 DEF vars, LineageInv, Lineage, Working, IsParent, Tagged, Row, Control, Handles, Loops
<1>2. CASE Next
  BY <1>2, ControlKept, RunOutside, ProposalLineage, EvaluationOutside, VerbLineage, FaultOutside
  DEF LineageInv, Next, RunStep
<1> QED BY <1>1, <1>2

LEMMA InitLineageInv == Init => LineageInv
<1> SUFFICES ASSUME Init PROVE Lineage
  BY InitControl DEF LineageInv
<1> QED BY IdleFacts DEF Init, Lineage, Working, Genid

\* The verbs that leave every tag alone.
LEMMA OnlyCreateTagTags ==
  ASSUME [Next]_vars, ~CreateTag PROVE commits' = commits
<1>1. CASE RunStep
  BY <1>1 DEF RunStep, EnsureGenesis, EnsureGenesisAnchor, Begin, Round, Select, SelectFails,
     FailUnselected, TakeSlot, Fork, Propose, StageFails, AdmitProposal, RejectProposal,
     CommitSnapshot, CommitLine, Leave, EvalChild, FinishEvaluation, Stamp, GateDecides,
     GateFails, RecordTerminal, Audit, FinishRun, durable
<1>2. CASE VerbStep
  BY <1>2 DEF VerbStep, StartRun, AgentFork, AgentEdit, AgentCommit, UserResetsTree,
     AgentEval, Retry, Finalize, SealChampion, Annotate, Repair, UserDeletesStrays, durable
<1>3. CASE FaultStep
  BY <1>3 DEF FaultStep, Kill, KillInStamp, Interrupt, Stamp
<1> QED BY <1>1, <1>2, <1>3 DEF Next, vars

\* A tag is never moved, and a new one descends from a valid parent: CreateTag is the
\* only step that tags, commit_child has checked its parent and that the generation has
\* no tag yet, and no other verb runs in between.
THEOREM LineageOnlyGrows == Spec => LineageGrows
<1> DEFINE Grows == \A g \in DOMAIN commits \cup DOMAIN commits' :
                      IF Tagged(g) THEN g \in DOMAIN commits' /\ commits'[g] = commits[g]
                                   ELSE IsParent(commits'[g])
<1>1. ASSUME LineageInv, [Next]_vars PROVE Grows
  <2>1. CASE CreateTag
    <3>1. /\ IsParent(drv.parent) /\ ~Tagged(drv.gen)
          /\ trees[drv.gen].base = drv.parent
      BY <1>1, <2>1 DEF LineageInv, Lineage, CreateTag, At, Working
    <3>2. commits' = [g \in DOMAIN commits \cup {drv.gen} |->
                       IF g = drv.gen THEN trees[g].base ELSE commits[g]]
      BY <2>1 DEF CreateTag
    <3> QED BY <3>1, <3>2 DEF Tagged
  <2>2. CASE ~CreateTag
    BY <1>1, <2>2, OnlyCreateTagTags DEF Tagged
  <2> QED BY <2>1, <2>2
<1>2. LineageInv /\ [Next]_vars => [Grows]_vars
  BY <1>1
<1>3. LineageInv /\ [Next]_vars => LineageInv'
  BY LineageInvKept
<1> QED BY <1>2, <1>3, InitLineageInv, PTL DEF Spec, LineageGrows

------------------------------------------------------------------------------
(* What stands in every generation's ledger. *)

Named == Genid \cup {None}
Scored == Scores \cup {None}

CompleteAnchors(m) ==
  {e \in m.lines : Get(e, "purpose") = "anchor" /\ e["outcome"] = "benchmark_complete"}

\* A complete sealed evaluation among the lines is the only one, and shows.
AnchoredOnce(m) ==
  /\ \A e, f \in CompleteAnchors(m) : e = f
  /\ CompleteAnchors(m) # {} => HasCompleteAnchor(m)

\* The reason on record is a verdict on the score on record.
VerdictOn(row) ==
  \E score, against \in Scores :
    /\ Get(row, "reason") = <<score, against>>
    /\ score = Get(row, "score")
    /\ IF GatePolicy = "strict" THEN score > against ELSE score >= against

\* What has been admitted and shows a certified score was admitted on that score; a
\* row that lost its receipt has nothing to say.
Judged(row) ==
  /\ Get(row, "valid_parent") = TRUE /\ Get(row, "score") # None
  /\ Get(row, "receipt_certified") = TRUE
  => VerdictOn(row)

Standing(g, m) ==
  /\ DOMAIN m = LedgerFields /\ Shape(m.row, m.top)
  /\ Get(m.row, "parent") \in Named /\ Get(m.row, "score") \in Scored
  /\ \A k \in DOMAIN m.evals : Get(m.evals[k], "score") \in Scored
  /\ AnchoredOnce(m)
  /\ g # Genesis /\ GatePolicy # "parent_eligible" => Judged(m.row)

LEMMA PlainShape ==
  ASSUME NEW row, NEW top, Shape(row, top), NEW e, Plain(e), NEW r, MergesPlain(row, r, e)
  PROVE  Shape(r, top)
<1>1. top = "dev" => r["outcome"] = row["outcome"] /\ "outcome" \in DOMAIN r
  <2>1. top = "dev" => "outcome" \in DOMAIN row
    BY DEF Shape, Stamped
  <2> QED BY <2>1 DEF MergesPlain, Get, EvaluatedFields
<1>2. Get(e, "status") # "complete"
  BY DEF Plain
<1> QED BY <1>1, <1>2 DEF Shape, MergesPlain

\* A plain line is no sealed evaluation.
LEMMA PlainAnchors ==
  ASSUME NEW m, AnchoredOnce(m), NEW e, Plain(e), NEW l,
         l.lines = m.lines \cup {e}, l.evals = m.evals
  PROVE  AnchoredOnce(l) /\ (HasCompleteAnchor(l) <=> HasCompleteAnchor(m))
<1>1. Get(e, "purpose") # "anchor"
  BY NoneAssumption DEF Plain, EvaluatedFields, Get
<1>2. CompleteAnchors(l) = CompleteAnchors(m)
  BY <1>1 DEF CompleteAnchors
<1>3. HasCompleteAnchor(l) <=> HasCompleteAnchor(m)
  BY DEF HasCompleteAnchor
<1> QED BY <1>2, <1>3 DEF AnchoredOnce

\* A line that is neither an evaluation nor a verdict.
SaysNothing(e) ==
  /\ Plain(e) /\ "reason" \notin DOMAIN e
  /\ Get(e, "valid_parent") # TRUE /\ Get(e, "parent") \in Named

LEMMA PlainJudged ==
  ASSUME NEW row, Judged(row), NEW e, SaysNothing(e), NEW r, MergesPlain(row, r, e)
  PROVE  Judged(r)
<1>1. SUFFICES ASSUME Get(r, "valid_parent") = TRUE, Get(r, "score") # None,
                      Get(r, "receipt_certified") = TRUE
               PROVE  VerdictOn(r)
  BY DEF Judged
<1>2. Get(r, "score") = Get(row, "score") /\ Get(row, "valid_parent") = TRUE
      /\ Get(row, "receipt_certified") = TRUE
  BY <1>1 DEF MergesPlain, SaysNothing, EvaluatedFields
<1>3. Get(r, "reason") = Get(row, "reason")
  BY DEF MergesPlain, SaysNothing, FreeFields, Unprotected, RecordedFields, EvaluationFields,
         Stamped, Reserved
<1>4. VerdictOn(row)
  BY <1>1, <1>2 DEF Judged
<1> QED BY <1>2, <1>3, <1>4 DEF VerdictOn

LEMMA PlainStanding ==
  ASSUME NEW g, NEW m, Standing(g, m), NEW e, Plain(e), Get(e, "parent") \in Named,
         g # Genesis /\ GatePolicy # "parent_eligible" =>
           \A r : MergesPlain(m.row, r, e) => Judged(r),
         NEW z, NEW receipt, NEW l, l = Record(m, z, e, receipt)
  PROVE  Standing(g, l) /\ (HasCompleteAnchor(l) <=> HasCompleteAnchor(m))
<1>1. CASE e \in m.lines
  <2>1. l = m
    BY <1>1 DEF Record
  <2> QED BY <2>1
<1>2. CASE e \notin m.lines
  <2>1. DOMAIN m = LedgerFields /\ Plain(e) /\ Shape(m.row, m.top) /\ AnchoredOnce(m)
    BY DEF Standing
  <2>2. PICK row : row = m.row
    OBVIOUS
  <2>3. PICK r : r = MergeEventFields(row, e)
    OBVIOUS
  <2>4. /\ DOMAIN l = LedgerFields /\ l.row = r /\ l.top = m.top /\ l.evals = m.evals
        /\ l.lines = m.lines \cup {e}
    BY <1>2, <2>1, <2>2, <2>3, PlainRecord
  <2>5. MergesPlain(row, r, e)
    BY <2>1, <2>2, <2>3, PlainMergeFields DEF Shape
  <2>6. Shape(r, m.top)
    BY <2>1, <2>2, <2>5, PlainShape
  <2>7. AnchoredOnce(l) /\ (HasCompleteAnchor(l) <=> HasCompleteAnchor(m))
    BY <2>1, <2>4, PlainAnchors
  <2>8. Get(r, "parent") \in Named
    <3>1. Get(row, "parent") \in Named /\ Get(e, "parent") \in Named
      BY <2>2 DEF Standing
    <3>2. "parent" \in Unprotected
      BY DEF Unprotected, RecordedFields, EvaluationFields, Stamped, Reserved
    <3> QED BY <2>5, <3>1, <3>2 DEF MergesPlain, FreeFields, Get
  <2>9. Get(r, "score") \in Scored
    BY <2>2, <2>5 DEF MergesPlain, Standing, Scored
  <2>10. g # Genesis /\ GatePolicy # "parent_eligible" => Judged(r)
    BY <2>2, <2>5
  <2> QED BY <2>4, <2>6, <2>7, <2>8, <2>9, <2>10 DEF Standing
<1> QED BY <1>1, <1>2

LEMMA NothingStanding ==
  ASSUME NEW g, NEW m, Standing(g, m), NEW e, SaysNothing(e), NEW z, NEW receipt,
         NEW l, l = Record(m, z, e, receipt)
  PROVE  Standing(g, l) /\ (HasCompleteAnchor(l) <=> HasCompleteAnchor(m))
<1>1. Plain(e) /\ Get(e, "parent") \in Named
  BY DEF SaysNothing
<1>2. ASSUME g # Genesis /\ GatePolicy # "parent_eligible", NEW r, MergesPlain(m.row, r, e)
      PROVE  Judged(r)
  <2>1. PICK row : row = m.row
    OBVIOUS
  <2>2. Judged(row) /\ MergesPlain(row, r, e)
    BY <1>2, <2>1 DEF Standing
  <2> QED BY <2>2, PlainJudged
<1> QED BY <1>1, <1>2, PlainStanding

\* A verdict that meets the rule on the score that the row shows, if it shows one.
RightVerdict(row, score, against) ==
  /\ against \in Scores /\ (Get(row, "score") # None => score = Get(row, "score"))
  /\ IF GatePolicy = "strict" THEN score > against ELSE score >= against

LEMMA GateStanding ==
  ASSUME NEW g, NEW m, Standing(g, m), NEW accept \in BOOLEAN, NEW reason,
         GatePolicy # "parent_eligible" /\ accept =>
           \E score, against : /\ reason = <<score, against>>
                              /\ RightVerdict(m.row, score, against),
         NEW e, e = GateEvent(accept, reason), NEW z, NEW receipt,
         NEW l, l = Record(m, z, e, receipt)
  PROVE  Standing(g, l) /\ (HasCompleteAnchor(l) <=> HasCompleteAnchor(m))
<1>1. Plain(e) /\ e["valid_parent"] = accept
  BY PlainLines
<1>2. /\ Get(e, "parent") = None /\ Get(e, "valid_parent") = accept
      /\ "reason" \in DOMAIN e /\ e["reason"] = reason
  BY DEF GateEvent, Get
<1>3. Get(e, "parent") \in Named
  BY <1>2 DEF Named
<1>4. ASSUME g # Genesis /\ GatePolicy # "parent_eligible", NEW r, MergesPlain(m.row, r, e)
      PROVE  Judged(r)
  <2>1. PICK row : row = m.row
    OBVIOUS
  <2>2. SUFFICES ASSUME Get(r, "valid_parent") = TRUE, Get(r, "score") # None PROVE VerdictOn(r)
    BY DEF Judged
  <2>3. MergesPlain(row, r, e)
    BY <1>4, <2>1
  <2>4. accept
    BY <1>2, <2>2, <2>3 DEF MergesPlain
  <2>5. PICK score, against : reason = <<score, against>> /\ RightVerdict(row, score, against)
    BY <1>4, <2>1, <2>4
  <2>6. Get(r, "score") = Get(row, "score") /\ Get(row, "score") # None
    BY <2>2, <2>3 DEF MergesPlain
  <2>7. Get(row, "score") \in Scores
    BY <2>1, <2>6 DEF Standing, Scored
  <2>8. "reason" \in Unprotected
    BY DEF Unprotected, RecordedFields, EvaluationFields, Stamped, Reserved
  <2>9. Get(r, "reason") = <<score, against>>
    BY <1>2, <2>3, <2>5, <2>8 DEF MergesPlain, FreeFields
  <2> QED BY <2>5, <2>6, <2>7, <2>9 DEF VerdictOn, RightVerdict
<1> QED BY <1>1, <1>3, <1>4, PlainStanding

------------------------------------------------------------------------------
(* An evaluation's line. *)

\* A development evaluation shows nothing admitted that was not.
LEMMA DevJudged ==
  ASSUME NEW row, Judged(row), NEW e, EvaluationShape(e), e["valid_parent"] = FALSE,
         NEW receipt \in BOOLEAN, NEW r, Becomes(row, r, e, receipt)
  PROVE  Judged(r)
<1>1. SUFFICES ASSUME Get(r, "valid_parent") = TRUE, Get(r, "score") # None,
                      Get(r, "receipt_certified") = TRUE
               PROVE  VerdictOn(r)
  BY DEF Judged
<1>2. ~receipt
  BY <1>1 DEF Becomes
<1>3. {"reason", "score", "valid_parent", "receipt_certified"} \subseteq RecordedFields \ {"note"}
  BY DEF RecordedFields, EvaluationFields, Stamped
<1>4. \A k \in {"reason", "score", "valid_parent", "receipt_certified"} : Get(r, k) = Get(row, k)
  BY <1>1, <1>2, <1>3 DEF Becomes
<1>5. VerdictOn(row)
  BY <1>1, <1>4 DEF Judged
<1> QED BY <1>4, <1>5 DEF VerdictOn

LEMMA DevStanding ==
  ASSUME NEW g, NEW m, Standing(g, m), NEW purpose \in {"genesis", "candidate"},
         purpose = "genesis" => g = Genesis,
         NEW e, NEW outcome, NEW score \in Scored, NEW attempt,
         LineOf(e, purpose, outcome, score, attempt), e["parent"] \in Named,
         g # Genesis => e["valid_parent"] = FALSE, NEW receipt \in BOOLEAN,
         NEW z \in BOOLEAN, z <=> g = Genesis, NEW l, l = Record(m, z, e, receipt)
  PROVE  Standing(g, l)
<1>1. CASE e \in m.lines
  <2>1. l = m
    BY <1>1 DEF Record
  <2> QED BY <2>1
<1>2. CASE e \notin m.lines
  <2>1. PICK n : n = Merge(m, z, e, receipt)
    OBVIOUS
  <2>2. DOMAIN m = LedgerFields /\ Shape(m.row, m.top) /\ (purpose = "genesis" => z)
    BY DEF Standing
  <2>3. SameLines(m, n) /\ n.top = "dev" /\ n.evals = m.evals /\ Becomes(m.row, n.row, e, receipt)
    BY <2>1, <2>2, DevMerge
  <2>4. /\ DOMAIN l = LedgerFields
        /\ l.row = n.row /\ l.top = n.top /\ l.evals = n.evals
        /\ l.lines = m.lines \cup {e}
    BY <1>2, <2>1, <2>2, <2>3, RecordFacts
  <2>5. PICK row, r : row = m.row /\ r = l.row /\ Becomes(row, r, e, receipt)
    BY <2>3, <2>4
  <2>6. Shape(r, "dev")
    BY <2>5, NoneAssumption DEF Becomes, Shape
  <2>7. e["score"] = score /\ Get(e, "purpose") = purpose /\ EvaluationShape(e)
    BY DEF LineOf, EvaluationShape, Stamped, Get
  <2>8. Get(r, "parent") \in Named /\ Get(r, "score") \in Scored
    BY <2>5, <2>7 DEF Becomes, Standing
  <2>9. AnchoredOnce(l)
    <3>1. CompleteAnchors(l) = CompleteAnchors(m)
      BY <2>4, <2>7 DEF CompleteAnchors
    <3>2. HasCompleteAnchor(l) <=> HasCompleteAnchor(m)
      BY <2>3, <2>4 DEF HasCompleteAnchor
    <3> QED BY <3>1, <3>2 DEF AnchoredOnce, Standing
  <2>10. g # Genesis /\ GatePolicy # "parent_eligible" => Judged(r)
    <3>1. SUFFICES ASSUME g # Genesis /\ GatePolicy # "parent_eligible" PROVE Judged(r)
      OBVIOUS
    <3>2. Judged(row) /\ e["valid_parent"] = FALSE
      BY <2>5, <3>1 DEF Standing
    <3> QED BY <2>5, <2>7, <3>2, DevJudged
  <2> QED BY <2>3, <2>4, <2>5, <2>6, <2>8, <2>9, <2>10 DEF Standing
<1> QED BY <1>1, <1>2

\* A sealed evaluation of a generation that has no complete one.
LEMMA AnchorStanding ==
  ASSUME NEW g, NEW m, Standing(g, m), ~HasCompleteAnchor(m),
         NEW e, NEW outcome, NEW score \in Scored, NEW attempt,
         LineOf(e, "anchor", outcome, score, attempt), NEW receipt \in BOOLEAN,
         NEW z, NEW l, l = Record(m, z, e, receipt)
  PROVE  Standing(g, l)
<1>1. CASE e \in m.lines
  <2>1. l = m
    BY <1>1 DEF Record
  <2> QED BY <2>1
<1>2. CASE e \notin m.lines
  <2>1. PICK n : n = Merge(m, z, e, receipt)
    OBVIOUS
  <2>2. DOMAIN m = LedgerFields
    BY DEF Standing
  <2>3. SameLines(m, n) /\ n.top = m.top /\ n.row = m.row /\ AddsAnchor(m, n, e)
    BY <2>1, <2>2, AnchorMerge
  <2>4. /\ DOMAIN l = LedgerFields
        /\ l.row = m.row /\ l.top = m.top /\ l.evals = n.evals
        /\ l.lines = m.lines \cup {e}
    BY <1>2, <2>1, <2>2, <2>3, RecordFacts
  <2>5. PICK x : n.evals = Overlay(m.evals, [k \in {AnchorKey} |-> x]) /\ AnchorEntry(x, e)
    BY <2>3 DEF AddsAnchor
  <2>6. /\ DOMAIN l.evals = DOMAIN m.evals \cup {AnchorKey}
        /\ l.evals[AnchorKey] = x
        /\ \A k \in DOMAIN m.evals : k # AnchorKey => l.evals[k] = m.evals[k]
    BY <2>4, <2>5 DEF Overlay
  <2>7. e["score"] = score
    BY DEF LineOf
  <2>8. \A k \in DOMAIN l.evals : Get(l.evals[k], "score") \in Scored
    BY <2>5, <2>6, <2>7 DEF AnchorEntry, Standing
  <2>9. CompleteAnchors(m) = {}
    BY DEF Standing, AnchoredOnce
  <2>10. CompleteAnchors(l) \subseteq {e}
    BY <2>4, <2>9 DEF CompleteAnchors
  <2>11. CompleteAnchors(l) # {} => HasCompleteAnchor(l)
    <3>1. CompleteAnchors(l) # {} => e["outcome"] = "benchmark_complete"
      BY <2>10 DEF CompleteAnchors
    <3> QED BY <2>5, <2>6, <3>1 DEF HasCompleteAnchor, AnchorEntry
  <2>12. AnchoredOnce(l)
    BY <2>10, <2>11 DEF AnchoredOnce
  <2> QED BY <2>4, <2>8, <2>12 DEF Standing
<1> QED BY <1>1, <1>2

------------------------------------------------------------------------------
(* The names the lock holder carries, and the evaluation in progress. *)

Ledgers == DOMAIN archive = Genid /\ \A g \in Genid : Standing(g, archive[g])

\* Whoever handles a generation does so for a parent, and parents are generations.
Naming ==
  /\ drv.parent \in Named /\ drv.label \in Named
  /\ Handles \/ drv.pc = "evaluating" => drv.gen \in Genid
  /\ (Handles /\ drv.verb = "run") \/ drv.pc = "gate" => drv.parent \in Genid
  /\ \A g \in DOMAIN drv.selected : drv.selected[g] \in Genid

\* Sealed tasks are opened only where no complete sealed evaluation is on record.
Evaluating ==
  drv.pc = "evaluating" =>
    /\ drv.purpose = "genesis" => drv.gen = Genesis
    /\ drv.purpose = "anchor" => ~HasCompleteAnchor(archive[drv.gen])

DriverInv == Control /\ Lineage /\ Ledgers /\ Naming /\ Evaluating

LEMMA Elsewhere ==
  ASSUME ~Handles', drv'.pc # "evaluating", drv'.parent \in Named, drv'.label \in Named,
         \A g \in DOMAIN drv'.selected : drv'.selected[g] \in Genid
  PROVE  Naming' /\ Evaluating'
<1>1. drv'.pc # "gate"
  BY DEF Handles
<1> QED BY <1>1 DEF Naming, Evaluating

\* A step that goes on with the same generation for the same parent.
LEMMA Carried ==
  ASSUME Naming, drv'.parent = drv.parent, drv'.gen = drv.gen, drv'.verb = drv.verb,
         drv'.selected = drv.selected, drv'.label \in {drv.label, None},
         drv'.pc # "evaluating", Handles, drv'.pc = "gate" => drv.verb = "run"
  PROVE  Naming' /\ Evaluating'
<1>1. drv'.label \in Named
  BY DEF Naming, Named
<1> QED BY <1>1 DEF Naming, Evaluating

LEMMA BeginNaming ==
  ASSUME Control, Naming, NEW g \in Genid, NEW purpose \in Purposes, NEW label \in Named,
         Begin(g, purpose, label),
         purpose = "candidate" => drv.verb # "run" \/ drv.parent \in Genid,
         purpose = "genesis" => g = Genesis,
         purpose = "anchor" => ~HasCompleteAnchor(archive[g])
  PROVE  Naming' /\ Evaluating'
<1>1. /\ drv'.pc = "evaluating" /\ drv'.gen = g /\ drv'.purpose = purpose
      /\ drv'.label = label /\ drv'.parent = drv.parent /\ drv'.verb = drv.verb
      /\ drv'.selected = drv.selected /\ archive' = archive
  BY DEF Begin, Control, DrvFields
<1>2. Handles' => purpose = "candidate"
  BY <1>1 DEF Handles, Working
<1> QED BY <1>1, <1>2 DEF Naming, Evaluating

\* A step of the lock holder back to idle, or to the next slot or round.
LEMMA IdleNaming ==
  ASSUME Naming, drv' = Idle \/ drv' = NextSlot \/ drv' = Done PROVE Naming' /\ Evaluating'
<1>1. drv' = Idle \/ drv' = NextSlot
  BY DEF Done
<1>2. CASE drv' = Idle
  <2>1. Idle.parent = None /\ Idle.label = None /\ Idle.selected = << >> /\ DOMAIN << >> = {}
        /\ Idle.pc = "idle"
    BY DEF Idle
  <2> QED BY <1>2, <2>1, Elsewhere DEF Handles, Working, Named
<1>3. CASE drv' = NextSlot
  <2>1. /\ drv'.parent = None /\ drv'.label = None /\ drv'.selected = drv.selected
        /\ drv'.pc = "slots"
    BY <1>3 DEF NextSlot, Idle
  <2> QED BY <2>1, Elsewhere DEF Handles, Working, Named, Naming
<1> QED BY <1>1, <1>2, <1>3

LEMMA RowParent ==
  ASSUME Ledgers, NEW g \in Genid PROVE Get(Row(g), "parent") \in Named
BY DEF Ledgers, Standing, Row

LEMMA RunNaming ==
  ASSUME DriverInv,
         \/ EnsureGenesis \/ EnsureGenesisAnchor \/ Round
         \/ \E ps \in Answers : Select(ps)
         \/ SelectFails \/ FailUnselected \/ TakeSlot
  PROVE  Naming' /\ Evaluating'
<1>0. Control /\ Naming /\ Ledgers /\ Genesis \in Genid
  BY DEF DriverInv, Genid
<1>1. ASSUME drv'.pc \in {"anchor", "round", "final", "select", "selectFailed", "slots"},
             drv'.parent = drv.parent, drv'.label = drv.label, drv'.selected = drv.selected
      PROVE  Naming' /\ Evaluating'
  BY <1>0, <1>1, Elsewhere DEF Handles, Working, Naming
<1>2. CASE EnsureGenesis
  <2>1. \/ Goto("anchor") \/ drv' = Idle
        \/ Begin(Genesis, "genesis", Get(Row(Genesis), "parent"))
    BY <1>2 DEF EnsureGenesis
  <2>2. CASE Goto("anchor")
    BY <1>0, <1>1, <2>2 DEF Goto, Control, DrvFields
  <2> QED BY <1>0, <2>1, <2>2, IdleNaming, BeginNaming, RowParent DEF Purposes
<1>3. CASE EnsureGenesisAnchor
  <2>1. CASE drv' = [drv EXCEPT !.pc = "round", !.round = 1]
    BY <1>0, <1>1, <2>1 DEF Control, DrvFields
  <2>2. \/ drv' = [drv EXCEPT !.pc = "round", !.round = 1]
        \/ ~HasCompleteAnchor(archive[Genesis])
           /\ Begin(Genesis, "anchor", Get(Row(Genesis), "parent"))
    BY <1>3 DEF EnsureGenesisAnchor
  <2> QED BY <1>0, <2>1, <2>2, BeginNaming, RowParent DEF Purposes
<1>4. CASE Round
  <2>1. drv.round \in Nat
    BY <1>0 DEF Control
  <2>2. \/ drv' = [drv EXCEPT !.pc = "final"] \/ drv' = [drv EXCEPT !.pc = "select"]
        \/ drv' = [drv EXCEPT !.round = @ + 1] /\ drv.pc = "round"
    BY <1>4, <2>1, DriverAssumption DEF Round, At
  <2> QED BY <1>0, <1>1, <2>2 DEF Control, DrvFields
<1>5. CASE \E ps \in Answers : Select(ps)
  <2>1. PICK ps \in Answers : Select(ps)
    BY <1>5
  <2>2. \A i \in DOMAIN ps : ps[i] \in Genid
    BY <2>1 DEF Answers
  <2> DEFINE pending == PendingIn(drv.round)
             covered == {g \in pending : Len(ps) = 1 \/ g[2] + 1 \in DOMAIN ps}
             chosen == [g \in covered |-> IF Len(ps) = 1 THEN ps[1] ELSE ps[g[2] + 1]]
  <2>3. \A g \in DOMAIN chosen : chosen[g] \in Genid
    <3>1. Len(ps) = 1 => 1 \in DOMAIN ps
      BY <2>1 DEF Answers
    <3> QED BY <2>2, <3>1
  <2>4. PICK pc \in {"slots", "selectFailed"} : \E todo :
          drv' = [drv EXCEPT !.pc = pc, !.slot = 0, !.todo = todo, !.selected = chosen]
    BY <2>1 DEF Select
  <2> HIDE DEF chosen
  <2>5. drv'.pc = pc /\ drv'.parent = drv.parent /\ drv'.label = drv.label /\ drv'.selected = chosen
    BY <1>0, <2>4 DEF Control, DrvFields
  <2> QED BY <1>0, <2>3, <2>5, Elsewhere DEF Handles, Working, Naming
<1>6. CASE SelectFails
  <2>1. /\ drv'.pc = "selectFailed" /\ drv'.parent = drv.parent /\ drv'.label = drv.label
        /\ drv'.selected = << >> /\ DOMAIN << >> = {}
    BY <1>0, <1>6 DEF SelectFails, Control, DrvFields
  <2> QED BY <1>0, <2>1, Elsewhere DEF Handles, Working, Naming
<1>7. CASE FailUnselected
  <2>1. /\ drv'.pc = "record" /\ drv'.parent = drv.parent /\ drv'.label = drv.label
        /\ drv'.selected = drv.selected /\ drv'.next \in {"slots", "selectFailed"}
    BY <1>0, <1>7 DEF FailUnselected, Control, DrvFields
  <2> QED BY <1>0, <2>1, Elsewhere DEF Handles, Working, Naming
<1>8. CASE TakeSlot
  <2> DEFINE g == Slot(drv.round, drv.slot)
             parent == IF g \in DOMAIN drv.selected THEN drv.selected[g]
                       ELSE IF Tagged(g) THEN Get(Row(g), "parent") ELSE None
             fresh == ~Tagged(g)
             pc == IF ~Tagged(g) THEN "fork" ELSE IF ~Evaluated(g) THEN "evaluate" ELSE "gate"
  <2>1. CASE drv' = [Idle EXCEPT !.pc = "round", !.verb = "run", !.round = drv.round + 1]
    <3>1. /\ drv'.pc = "round" /\ drv'.parent = None /\ drv'.label = None
          /\ drv'.selected = << >> /\ DOMAIN << >> = {}
      BY <2>1 DEF Idle
    <3> QED BY <3>1, Elsewhere DEF Handles, Working, Named
  <2>2. CASE drv' = NextSlot
    BY <1>0, <2>2, IdleNaming
  <2>3. CASE /\ drv.slot < Children /\ parent # None
             /\ drv' = [drv EXCEPT !.gen = g, !.parent = parent, !.fresh = fresh, !.pc = pc]
    <3>1. pc \in {"fork", "evaluate", "gate"}
      OBVIOUS
    <3>2. drv.pc = "slots" /\ drv.round \in 1..MaxGen /\ drv.slot \in Nat
      BY <1>0, <1>8 DEF TakeSlot, At, Control, Loops
    <3>3. g \in Candidates /\ g \in Genid
      <4>1. drv.slot \in 0..Children - 1
        BY <2>3, <3>2, DriverAssumption
      <4> QED BY <3>2, <4>1 DEF Slot, Candidates, Genid
    <3>4. parent \in Genid
      BY <1>0, <2>3, <3>3, RowParent DEF Naming, Named
    <3> HIDE DEF g, parent, fresh, pc
    <3>5. /\ drv'.pc = pc /\ drv'.gen = g /\ drv'.parent = parent /\ drv'.label = drv.label
          /\ drv'.selected = drv.selected
      BY <1>0, <2>3 DEF Control, DrvFields
    <3> QED BY <1>0, <3>1, <3>3, <3>4, <3>5 DEF Naming, Evaluating, Named
  <2>4. drv.slot = Children \/ drv.slot < Children
    BY <1>0, <1>8, DriverAssumption DEF TakeSlot, At, Control
  <2> QED BY <1>8, <2>1, <2>2, <2>3, <2>4 DEF TakeSlot
<1> QED BY <1>2, <1>3, <1>4, <1>5, <1>6, <1>7, <1>8

LEMMA ProposalNaming ==
  ASSUME DriverInv,
         \/ Fork \/ Propose \/ StageFails \/ AdmitProposal
         \/ \E status \in Rejections : RejectProposal(status)
         \/ CommitSnapshot \/ CreateTag \/ CommitLine \/ Leave
  PROVE  Naming' /\ Evaluating'
<1>0. Control /\ Naming
  BY DEF DriverInv
<1>1. ASSUME Handles, NEW pc \in Working \cup {"tagged", "evaluate"}, Goto(pc)
      PROVE  Naming' /\ Evaluating'
  <2>1. /\ drv'.pc = pc /\ drv'.gen = drv.gen /\ drv'.parent = drv.parent
        /\ drv'.label = drv.label /\ drv'.verb = drv.verb /\ drv'.selected = drv.selected
    BY <1>0, <1>1 DEF Goto, Control, DrvFields
  <2> QED BY <1>0, <1>1, <2>1, Carried DEF Working
<1>2. ASSUME Handles, NEW ref, ThenRecord(ref, "leave") PROVE Naming' /\ Evaluating'
  <2>1. /\ drv'.pc = "record" /\ drv'.gen = drv.gen /\ drv'.parent = drv.parent
        /\ drv'.label = drv.label /\ drv'.verb = drv.verb /\ drv'.selected = drv.selected
    BY <1>0, <1>2 DEF ThenRecord, Control, DrvFields
  <2> QED BY <1>0, <1>2, <2>1, Carried
<1>3. ASSUME Handles, NEW next, drv' = [drv EXCEPT !.pc = "leave", !.next = next]
      PROVE  Naming' /\ Evaluating'
  <2>1. /\ drv'.pc = "leave" /\ drv'.gen = drv.gen /\ drv'.parent = drv.parent
        /\ drv'.label = drv.label /\ drv'.verb = drv.verb /\ drv'.selected = drv.selected
    BY <1>0, <1>3 DEF Control, DrvFields
  <2> QED BY <1>0, <1>3, <2>1, Carried
<1>4. Handles
  BY DEF Fork, Propose, StageFails, AdmitProposal, RejectProposal, CommitSnapshot, CreateTag,
         CommitLine, Leave, At, Handles, Working
<1>5. CASE Fork \/ Propose \/ AdmitProposal \/ CreateTag
  BY <1>1, <1>2, <1>4, <1>5 DEF Fork, Propose, AdmitProposal, CreateTag, Working
<1>6. CASE StageFails \/ \E status \in Rejections : RejectProposal(status)
  BY <1>2, <1>4, <1>6 DEF StageFails, RejectProposal
<1>7. CASE CommitSnapshot
  <2>1. trees[drv.gen].work \in {"clean", "dirty"}
    BY <1>7 DEF DriverInv, Lineage, Tree, Working, CommitSnapshot, At
  <2>2. drv' = Idle \/ drv' = [drv EXCEPT !.pc = "leave", !.next = "slots"] \/ Goto("committed")
    BY <1>7, <2>1 DEF CommitSnapshot
  <2> QED BY <1>0, <1>1, <1>3, <1>4, <2>2, IdleNaming DEF Working
<1>8. CASE CommitLine
  BY <1>3, <1>4, <1>8 DEF CommitLine
<1>9. CASE Leave
  BY <1>0, <1>1, <1>4, <1>9, IdleNaming DEF Leave, Goto
<1> QED BY <1>5, <1>6, <1>7, <1>8, <1>9

\* The parents an evaluation may be recorded for.
LEMMA EvaluationParentsNamed ==
  ASSUME Ledgers, NEW g \in Genid, NEW p \in EvaluationParents(g) PROVE p \in Named
<1>1. "parent" \in DOMAIN Row(g) \/ Get(Row(g), "parent") = None
  BY DEF Get
<1>2. Get(Row(g), "parent") \in Named
  BY RowParent
<1>3. \/ Get(Row(g), "parent") # None /\ p = Row(g)["parent"]
      \/ p = Genesis \/ p \in BestRows
  BY DEF EvaluationParents
<1>4. BestRows \subseteq Genid /\ Genesis \in Genid
  BY DEF BestRows, ValidParents, Genid
<1> QED BY <1>1, <1>2, <1>3, <1>4 DEF Get, Named

LEMMA EvaluationNaming ==
  ASSUME DriverInv,
         \/ EvalChild
         \/ \E r \in Results : FinishEvaluation(r[1], r[2])
         \/ GateDecides \/ GateFails \/ RecordTerminal \/ Audit \/ FinishRun
  PROVE  Naming' /\ Evaluating'
<1>0. Control /\ Naming /\ Ledgers
  BY DEF DriverInv
<1>1. ASSUME Handles, NEW pc \in {"record", "gate", "leave", "audit"},
             pc = "gate" => drv.verb = "run",
             drv'.pc = pc, drv'.gen = drv.gen, drv'.parent = drv.parent,
             drv'.label \in {drv.label, None}, drv'.verb = drv.verb,
             drv'.selected = drv.selected
      PROVE  Naming' /\ Evaluating'
  BY <1>0, <1>1, Carried
<1>2. CASE EvalChild
  <2>1. drv.pc = "evaluate" /\ Handles /\ drv.gen \in Genid
    BY <1>0, <1>2 DEF EvalChild, At, Handles, Naming
  <2>2. CASE drv' = [drv EXCEPT !.pc = "gate"] /\ drv.verb = "run"
    <3>1. /\ drv'.pc = "gate" /\ drv'.gen = drv.gen /\ drv'.parent = drv.parent
          /\ drv'.label = drv.label /\ drv'.verb = drv.verb /\ drv'.selected = drv.selected
      BY <1>0, <2>2 DEF Control, DrvFields
    <3> QED BY <1>1, <2>1, <2>2, <3>1
  <2>3. ASSUME NEW p \in EvaluationParents(drv.gen), Begin(drv.gen, "candidate", p)
        PROVE  Naming' /\ Evaluating'
    <3>1. p \in Named /\ (drv.verb = "run" => drv.parent \in Genid)
      BY <1>0, <2>1, EvaluationParentsNamed DEF Naming
    <3> QED BY <1>0, <2>1, <2>3, <3>1, BeginNaming DEF Purposes
  <2>4. \/ drv' = [drv EXCEPT !.pc = "gate"] /\ drv.verb = "run"
        \/ drv' = Done \/ drv' = Idle
        \/ \E p \in EvaluationParents(drv.gen) : Begin(drv.gen, "candidate", p)
    BY <1>2 DEF EvalChild
  <2> QED BY <1>0, <2>2, <2>3, <2>4, IdleNaming
<1>3. CASE \E r \in Results : FinishEvaluation(r[1], r[2])
  <2>1. PICK complete \in BOOLEAN : drv' = AfterEvaluation(complete) /\ drv.pc = "evaluating"
    BY <1>3 DEF FinishEvaluation, At
  <2> DEFINE cleared == [drv EXCEPT !.purpose = None, !.label = None]
  <2>2. drv' = Idle \/ (drv.verb = "run"
        /\ (\/ drv.purpose = "genesis" /\ drv' = [cleared EXCEPT !.pc = "anchor"]
            \/ drv.purpose = "anchor" /\ drv' = [cleared EXCEPT !.pc = "round", !.round = 1]
            \/ drv.purpose = "candidate" /\ drv' = [cleared EXCEPT !.pc = "gate"]
            \/ drv.purpose = "candidate" /\ drv' = NextSlot))
    BY <1>0, <2>1 DEF AfterEvaluation, Control, Purposes
  <2>3. CASE \/ drv' = [cleared EXCEPT !.pc = "anchor"]
             \/ drv' = [cleared EXCEPT !.pc = "round", !.round = 1]
    <3>1. /\ drv'.pc \in {"anchor", "round"} /\ drv'.parent = drv.parent
          /\ drv'.label = None /\ drv'.selected = drv.selected
      BY <1>0, <2>3 DEF Control, DrvFields
    <3> QED BY <1>0, <3>1, Elsewhere DEF Handles, Working, Naming, Named
  <2>4. CASE /\ drv.verb = "run" /\ drv.purpose = "candidate"
             /\ drv' = [cleared EXCEPT !.pc = "gate"]
    <3>1. Handles
      BY <2>1, <2>4 DEF Handles
    <3>2. /\ drv'.pc = "gate" /\ drv'.gen = drv.gen /\ drv'.parent = drv.parent
          /\ drv'.label = None /\ drv'.verb = drv.verb /\ drv'.selected = drv.selected
      BY <1>0, <2>4 DEF Control, DrvFields
    <3> QED BY <1>1, <2>4, <3>1, <3>2
  <2> HIDE DEF cleared
  <2> QED BY <1>0, <2>2, <2>3, <2>4, IdleNaming
<1>4. CASE GateDecides \/ GateFails
  <2>1. Handles
    BY <1>4 DEF GateDecides, GateFails, At, Handles
  <2>2. \E ref, next : ThenRecord(ref, next)
    BY <1>4 DEF GateDecides, GateFails
  <2>3. /\ drv'.pc = "record" /\ drv'.gen = drv.gen /\ drv'.parent = drv.parent
        /\ drv'.label = drv.label /\ drv'.verb = drv.verb /\ drv'.selected = drv.selected
    BY <1>0, <2>2 DEF ThenRecord, Control, DrvFields
  <2> QED BY <1>1, <2>1, <2>3
<1>5. CASE RecordTerminal
  <2>1. drv.pc = "record" /\ (drv' = Idle \/ drv' = AfterRecord)
    BY <1>5 DEF RecordTerminal, At
  <2>2. \/ drv' = Idle \/ drv' = Done
        \/ drv.next = "selectFailed" /\ drv' = [drv EXCEPT !.pc = drv.next]
        \/ drv.next \in {"leave", "audit"} /\ drv' = [drv EXCEPT !.pc = drv.next]
        \/ drv' = [Idle EXCEPT !.pc = "slots", !.verb = "run", !.round = drv.round,
                               !.selected = drv.selected]
    BY <1>0, <2>1 DEF AfterRecord, Control
  <2>3. CASE drv.next = "selectFailed" /\ drv' = [drv EXCEPT !.pc = drv.next]
    <3>1. /\ drv'.pc = "selectFailed" /\ drv'.parent = drv.parent
          /\ drv'.label = drv.label /\ drv'.selected = drv.selected
      BY <1>0, <2>3 DEF Control, DrvFields
    <3> QED BY <1>0, <3>1, Elsewhere DEF Handles, Working, Naming
  <2>4. CASE drv.next \in {"leave", "audit"} /\ drv' = [drv EXCEPT !.pc = drv.next]
    <3>1. Handles
      BY <2>1, <2>4 DEF Handles
    <3>2. /\ drv'.pc = drv.next /\ drv'.gen = drv.gen /\ drv'.parent = drv.parent
          /\ drv'.label = drv.label /\ drv'.verb = drv.verb /\ drv'.selected = drv.selected
      BY <1>0, <2>4 DEF Control, DrvFields
    <3> QED BY <1>1, <2>4, <3>1, <3>2
  <2>5. CASE drv' = [Idle EXCEPT !.pc = "slots", !.verb = "run", !.round = drv.round,
                                 !.selected = drv.selected]
    <3>1. /\ drv'.pc = "slots" /\ drv'.parent = None /\ drv'.label = None
          /\ drv'.selected = drv.selected
      BY <2>5 DEF Idle
    <3> QED BY <1>0, <3>1, Elsewhere DEF Handles, Working, Naming, Named
  <2> QED BY <1>0, <2>2, <2>3, <2>4, <2>5, IdleNaming
<1>6. CASE Audit
  BY <1>0, <1>6, IdleNaming DEF Audit
<1>7. CASE FinishRun
  <2>1. \/ drv' = Idle
        \/ \E b \in BestRows : /\ ~HasCompleteAnchor(archive[b])
                              /\ Begin(b, "anchor", Get(Row(b), "parent"))
    BY <1>7 DEF FinishRun
  <2>2. BestRows \subseteq Genid
    BY DEF BestRows, ValidParents
  <2> QED BY <1>0, <2>1, <2>2, IdleNaming, BeginNaming, RowParent DEF Purposes
<1> QED BY <1>2, <1>3, <1>4, <1>5, <1>6, <1>7

LEMMA VerbNaming ==
  ASSUME DriverInv, VerbStep PROVE Naming' /\ Evaluating'
<1>0. Control /\ Naming /\ Ledgers /\ Candidates \subseteq Genid
  BY DEF DriverInv, Genid
<1>1. drv.pc = "idle"
  BY DEF VerbStep, StartRun, AgentFork, AgentEdit, AgentCommit, UserResetsTree, AgentEval, Retry,
         Finalize, SealChampion, Annotate, Repair, UserDeletesStrays, Idling
<1>2. CASE drv' = drv
  <2>1. ~Handles' /\ drv'.pc # "evaluating"
    BY <1>1, <1>2 DEF Handles, Working
  <2> QED BY <1>0, <1>2, <2>1, Elsewhere DEF Naming
<1>3. CASE StartRun
  <2>1. /\ drv'.pc = "genesis" /\ drv'.parent = None /\ drv'.label = None
        /\ drv'.selected = << >> /\ DOMAIN << >> = {}
    BY <1>3 DEF StartRun, Idle
  <2> QED BY <2>1, Elsewhere DEF Handles, Working, Named
<1>4. ASSUME NEW g \in Candidates, AgentCommit(g) PROVE Naming' /\ Evaluating'
  <2>1. trees[g].base \in Genid
    BY <1>4 DEF AgentCommit, DriverInv, Lineage, Tree
  <2>2. /\ drv'.pc = "commit" /\ drv'.gen = g /\ drv'.parent = trees[g].base
        /\ drv'.label = None /\ drv'.verb = "agent" /\ drv'.selected = << >> /\ DOMAIN << >> = {}
    BY <1>4 DEF AgentCommit, Idle
  <2> QED BY <1>0, <2>1, <2>2 DEF Naming, Evaluating, Named
<1>5. ASSUME NEW g \in Genid, AgentEval(g) \/ Retry(g) PROVE Naming' /\ Evaluating'
  <2>1. /\ drv'.pc = "evaluate" /\ drv'.gen = g /\ drv'.parent = None /\ drv'.label = None
        /\ drv'.verb # "run" /\ drv'.selected = << >> /\ DOMAIN << >> = {}
    <3>1. CASE AgentEval(g)
      BY <3>1 DEF AgentEval, Idle
    <3>2. CASE Retry(g)
      BY <3>2 DEF Retry, Idle
    <3> QED BY <1>5, <3>1, <3>2
  <2> QED BY <2>1 DEF Naming, Evaluating, Named
<1>6. ASSUME NEW g \in Genid, Finalize(g) PROVE Naming' /\ Evaluating'
  <2>1. /\ drv'.pc = "gate" /\ drv'.gen = g /\ drv'.parent = Row(g)["parent"]
        /\ drv'.label = None /\ drv'.selected = << >> /\ DOMAIN << >> = {}
    BY <1>6 DEF Finalize, Idle
  <2>2. Row(g)["parent"] \in Genid
    <3>1. Get(Row(g), "parent") # None /\ Get(Row(g), "parent") \in Named
      BY <1>0, <1>6, RowParent DEF Finalize
    <3> QED BY <3>1 DEF Get, Named
  <2> QED BY <2>1, <2>2 DEF Naming, Evaluating, Named
<1>7. ASSUME NEW g \in Genid, SealChampion(g) PROVE Naming' /\ Evaluating'
  <2>1. /\ drv'.pc = "evaluating" /\ drv'.gen = g /\ drv'.parent = None
        /\ drv'.label = Get(Row(g), "parent") /\ drv'.purpose = "anchor"
        /\ drv'.selected = << >> /\ DOMAIN << >> = {}
    BY <1>7 DEF SealChampion, Idle
  <2>2. ~HasCompleteAnchor(archive[g]) /\ archive' = archive
    BY <1>7 DEF SealChampion
  <2>3. ~Handles'
    BY <2>1 DEF Handles, Working
  <2> QED BY <1>0, <2>1, <2>2, <2>3, RowParent DEF Naming, Evaluating, Named, Handles
<1> QED BY <1>2, <1>3, <1>4, <1>5, <1>6, <1>7
        DEF VerbStep, AgentFork, AgentEdit, UserResetsTree, Annotate, Repair, UserDeletesStrays

LEMMA FaultNaming ==
  ASSUME DriverInv, FaultStep PROVE Naming' /\ Evaluating'
BY IdleNaming DEF FaultStep, Kill, KillInStamp, Interrupt, DriverInv

------------------------------------------------------------------------------
(* Every line keeps what stands in the ledgers. *)

LEMMA SameElsewhere ==
  ASSUME Ledgers, NEW g, NEW l, archive' = [archive EXCEPT ![g] = l],
         g \in Genid => Standing(g, l)
  PROVE  Ledgers'
<1>1. DOMAIN archive' = Genid
  BY DEF Ledgers
<1>2. \A h \in Genid : archive'[h] = IF h = g THEN l ELSE archive[h]
  BY DEF Ledgers
<1>3. \A h \in Genid : Standing(h, archive'[h])
  BY <1>2 DEF Ledgers
<1> HIDE DEF Ledgers
<1>4. Ledgers' <=> DOMAIN archive' = Genid /\ \A h \in Genid : Standing(h, archive'[h])
  BY DEF Ledgers, Standing, AnchoredOnce, CompleteAnchors, HasCompleteAnchor, Judged, VerdictOn,
         Shape
<1> QED BY <1>1, <1>3, <1>4

LEMMA NothingLedgers ==
  ASSUME Ledgers, NEW g, NEW e, SaysNothing(e), AppendEvent(g, e) PROVE Ledgers'
<1>1. PICK l : l = Record(archive[g], g = Genesis, e, FALSE)
  OBVIOUS
<1>2. archive' = [archive EXCEPT ![g] = l]
  BY <1>1 DEF AppendEvent
<1>3. ASSUME g \in Genid PROVE Standing(g, l)
  <2>1. PICK m, z, receipt : m = archive[g] /\ z = (g = Genesis) /\ receipt = FALSE
    OBVIOUS
  <2>2. l = Record(m, z, e, receipt) /\ Standing(g, m)
    BY <1>1, <1>3, <2>1 DEF Ledgers
  <2> QED BY <2>2, NothingStanding
<1> QED BY <1>2, <1>3, SameElsewhere

\* The lines that say nothing.
LEMMA NothingLines ==
  ASSUME NEW p \in Named
  PROVE  /\ SaysNothing(OperatorFailed(p)) /\ SaysNothing(CommitEvent(p))
         /\ SaysNothing(RecordEvent) /\ SaysNothing(RecordError) /\ SaysNothing(AuditEvent)
         /\ \A s \in Rejections : SaysNothing(Discarded(p, s))
<1>1. None \in Named
  BY DEF Named
<1>2. \A s : s # "complete" => SaysNothing(Discarded(p, s))
  BY PlainLines, NoneAssumption DEF SaysNothing, Discarded, Get
<1>3. SaysNothing(CommitEvent(p))
  BY PlainLines, NoneAssumption DEF SaysNothing, CommitEvent, Get
<1>4. SaysNothing(RecordEvent) /\ SaysNothing(RecordError) /\ SaysNothing(AuditEvent)
  BY <1>1, PlainLines, NoneAssumption DEF SaysNothing, RecordEvent, RecordError, AuditEvent, Get
<1> QED BY <1>2, <1>3, <1>4 DEF OperatorFailed, Rejections

LEMMA MatchedScored ==
  ASSUME Ledgers, NEW p \in Genid, NEW g PROVE MatchedScore(p, g) \in Scored
<1>1. PICK m, hash : m = archive[p] /\ hash = Get(Row(g), "task_set_hash")
  OBVIOUS
<1>2. /\ Get(m.row, "score") \in Scored
      /\ \A k \in DOMAIN m.evals : Get(m.evals[k], "score") \in Scored
  BY <1>1 DEF Ledgers, Standing
<1> DEFINE aux == {k \in DOMAIN m.evals : Get(m.evals[k], "task_set_hash") = hash}
<1>3. aux # {} => (CHOOSE k \in aux : TRUE) \in aux
  OBVIOUS
<1>4. aux # {} => Get(m.evals[CHOOSE k \in aux : TRUE], "score") \in Scored
  BY <1>2, <1>3
<1>5. MatchedScore(p, g) =
        IF hash = None THEN None
        ELSE IF Get(m.row, "task_set_hash") = hash THEN Get(m.row, "score")
        ELSE IF aux = {} THEN None
        ELSE Get(m.evals[CHOOSE k \in aux : TRUE], "score")
  BY <1>1 DEF MatchedScore, Row
<1> HIDE DEF aux
<1> QED BY <1>2, <1>4, <1>5 DEF Scored

\* What the gate prints, and what it accepts.
LEMMA GateLedgers ==
  ASSUME DriverInv, GateDecides PROVE Ledgers'
<1>1. PICK g, p : g = drv.gen /\ p = drv.parent
  OBVIOUS
<1>2. Ledgers /\ g \in Genid /\ p \in Genid
  BY <1>1 DEF DriverInv, GateDecides, At, Naming, Handles
<1>3. PICK accept, reason : accept = GateAccepts(p, g) /\ reason = GateReason(p, g)
  OBVIOUS
<1>4. accept \in BOOLEAN
  BY <1>3, DriverAssumption DEF GateAccepts
<1>5. PICK e : e = GateEvent(accept, reason)
  OBVIOUS
<1>6. PICK m, z, receipt : m = archive[g] /\ z = (g = Genesis) /\ receipt = FALSE
  OBVIOUS
<1>7. PICK l : l = Record(m, z, e, receipt)
  OBVIOUS
<1>8. archive' = [archive EXCEPT ![g] = l]
  BY <1>1, <1>3, <1>5, <1>6, <1>7 DEF GateDecides, AppendEvent
<1>9. Standing(g, m)
  BY <1>2, <1>6 DEF Ledgers
<1>10. ASSUME GatePolicy # "parent_eligible", accept
       PROVE  \E score, against : reason = <<score, against>> /\ RightVerdict(m.row, score, against)
  <2>1. PICK score, against : score = ScoreOrZero(g) /\ against = MatchedScore(p, g)
    OBVIOUS
  <2>2. reason = <<score, against>>
    BY <1>3, <1>10, <2>1 DEF GateReason
  <2>3. against \in Scored /\ against # None
    BY <1>2, <1>3, <1>10, <2>1, MatchedScored, DriverAssumption DEF GateAccepts
  <2>4. IF GatePolicy = "strict" THEN score > against ELSE score >= against
    BY <1>3, <1>10, <2>1, DriverAssumption DEF GateAccepts
  <2>5. Get(m.row, "score") # None => score = Get(m.row, "score")
    BY <1>6, <2>1 DEF ScoreOrZero, Row, Get
  <2>6. RightVerdict(m.row, score, against)
    BY <2>3, <2>4, <2>5 DEF RightVerdict, Scored
  <2> QED BY <2>2, <2>6
<1>11. Standing(g, l)
  BY <1>4, <1>5, <1>7, <1>9, <1>10, GateStanding
<1> QED BY <1>2, <1>8, <1>11, SameElsewhere

\* The line of the evaluation in progress.
LEMMA StampLedgers ==
  ASSUME DriverInv, drv.pc = "evaluating", NEW outcome \in Outcomes, NEW score \in Scored,
         NEW receipt \in BOOLEAN, Stamp(outcome, score, receipt)
  PROVE  Ledgers'
<1>1. PICK g, purpose, label, attempt :
        /\ g = drv.gen /\ purpose = drv.purpose /\ label = drv.label
        /\ attempt = attempts[drv.gen][drv.purpose]
  OBVIOUS
<1>2. /\ Ledgers /\ g \in Genid /\ label \in Named /\ purpose \in AnyPurpose
      /\ purpose = "genesis" => g = Genesis
      /\ purpose = "anchor" => ~HasCompleteAnchor(archive[g])
  BY <1>1 DEF DriverInv, Naming, Evaluating, Control, Purposes, AnyPurpose
<1>3. PICK z \in BOOLEAN : z <=> g = Genesis
  OBVIOUS
<1>4. PICK e : e = LineFor(z, purpose, label, outcome, score, attempt)
  OBVIOUS
<1>5. LineOf(e, purpose, outcome, score, attempt) /\ e["parent"] = label
      /\ GatedLine(z, purpose, outcome, e)
  BY <1>2, <1>4, EvaluationLines
<1>6. EvaluationLine(outcome, score) = e
  BY <1>1, <1>3, <1>4 DEF EvaluationLine, LineFor
<1>7. PICK m : m = archive[g]
  OBVIOUS
<1>8. PICK l : l = Record(m, z, e, receipt)
  OBVIOUS
<1>9. archive' = [archive EXCEPT ![g] = l]
  BY <1>1, <1>3, <1>6, <1>7, <1>8 DEF Stamp
<1>10. Standing(g, m)
  BY <1>2, <1>7 DEF Ledgers
<1>11. CASE purpose = "anchor"
  <2>1. LineOf(e, "anchor", outcome, score, attempt) /\ ~HasCompleteAnchor(m)
    BY <1>2, <1>5, <1>7, <1>11
  <2>2. Standing(g, l)
    BY <1>8, <1>10, <2>1, AnchorStanding
  <2> QED BY <1>2, <1>9, <2>2, SameElsewhere
<1>12. CASE purpose \in {"genesis", "candidate"}
  <2>1. g # Genesis => e["valid_parent"] = FALSE
    BY <1>2, <1>3, <1>5, <1>12 DEF GatedLine
  <2>2. Standing(g, l)
    BY <1>2, <1>3, <1>5, <1>8, <1>10, <1>12, <2>1, DevStanding, ZenonT(60)
  <2> QED BY <1>2, <1>9, <2>2, SameElsewhere
<1> QED BY <1>2, <1>11, <1>12 DEF AnyPurpose

LEMMA RunLedgers ==
  ASSUME DriverInv, RunStep PROVE Ledgers'
<1>0. Ledgers /\ drv.parent \in Named /\ None \in Named
  BY DEF DriverInv, Naming, Named
<1>1. CASE UNCHANGED archive
  BY <1>0, <1>1 DEF Ledgers
<1>2. ASSUME NEW g, NEW p \in Named,
             \/ AppendEvent(g, OperatorFailed(p)) \/ AppendEvent(g, CommitEvent(p))
             \/ AppendEvent(g, RecordEvent) \/ AppendEvent(g, RecordError)
             \/ AppendEvent(g, AuditEvent)
             \/ \E s \in Rejections : AppendEvent(g, Discarded(p, s))
      PROVE  Ledgers'
  BY <1>0, <1>2, NothingLedgers, NothingLines
<1>3. CASE FailUnselected
  BY <1>0, <1>2, <1>3 DEF FailUnselected
<1>4. CASE Fork
  BY <1>0, <1>1, <1>2, <1>4 DEF Fork
<1>5. CASE StageFails \/ \E status \in Rejections : RejectProposal(status)
  BY <1>0, <1>2, <1>5 DEF StageFails, RejectProposal
<1>6. CASE CommitSnapshot
  <2>1. trees[drv.gen].work \in {"clean", "dirty"}
    BY <1>6 DEF DriverInv, Lineage, Tree, Working, CommitSnapshot, At
  <2>2. UNCHANGED archive \/ AppendEvent(drv.gen, Discarded(drv.parent, "no_proposal"))
    BY <1>6, <2>1 DEF CommitSnapshot
  <2> QED BY <1>0, <1>1, <1>2, <2>2 DEF Rejections
<1>7. CASE CommitLine
  BY <1>0, <1>2, <1>7 DEF CommitLine
<1>8. CASE EvalChild
  <2>1. drv.gen \in Genid
    BY <1>8 DEF EvalChild, At, DriverInv, Naming, Handles
  <2>2. \/ UNCHANGED archive
        \/ \E p \in EvaluationParents(drv.gen) :
             AppendEvent(drv.gen, Discarded(p, "invalid_proposal"))
    BY <1>8 DEF EvalChild, Begin, durable
  <2> QED BY <1>0, <1>1, <1>2, <2>1, <2>2, EvaluationParentsNamed DEF Rejections
<1>9. CASE \E r \in Results : FinishEvaluation(r[1], r[2])
  <2>1. PICK r \in Results : FinishEvaluation(r[1], r[2])
    BY <1>9
  <2>2. r[1] \in Outcomes /\ r[2] \in Scored
    BY DriverAssumption DEF Results, Scored, Outcomes
  <2>3. Stamp(r[1], r[2], TRUE) /\ drv.pc = "evaluating"
    BY <2>1 DEF FinishEvaluation, At
  <2>4. PICK outcome, score : outcome = r[1] /\ score = r[2]
    OBVIOUS
  <2>5. PICK receipt \in BOOLEAN : receipt = TRUE
    OBVIOUS
  <2>6. Stamp(outcome, score, receipt) /\ outcome \in Outcomes /\ score \in Scored
    BY <2>2, <2>3, <2>4, <2>5
  <2> QED BY <2>3, <2>6, StampLedgers
<1>10. CASE GateDecides
  BY <1>10, GateLedgers
<1>11. CASE GateFails
  BY <1>0, <1>2, <1>11 DEF GateFails
<1>12. CASE RecordTerminal
  BY <1>0, <1>1, <1>2, <1>12 DEF RecordTerminal
<1>13. CASE Audit
  BY <1>0, <1>1, <1>2, <1>13 DEF Audit
<1>14. CASE \/ EnsureGenesis \/ EnsureGenesisAnchor \/ Round
            \/ \E ps \in Answers : Select(ps)
            \/ SelectFails \/ TakeSlot \/ Propose \/ AdmitProposal \/ CreateTag \/ Leave
            \/ FinishRun
  BY <1>1, <1>14 DEF EnsureGenesis, EnsureGenesisAnchor, Round, Select, SelectFails, TakeSlot,
                     Propose, AdmitProposal, CreateTag, Leave, FinishRun, Begin, durable
<1> QED BY <1>3, <1>4, <1>5, <1>6, <1>7, <1>8, <1>9, <1>10, <1>11, <1>12, <1>13, <1>14 DEF RunStep

LEMMA OtherLedgers ==
  ASSUME DriverInv, VerbStep \/ FaultStep PROVE Ledgers'
<1>0. Ledgers
  BY DEF DriverInv
<1>1. CASE UNCHANGED archive
  BY <1>0, <1>1 DEF Ledgers
<1>2. ASSUME NEW g, Annotate(g) PROVE Ledgers'
  <2>1. None \in Named
    BY DEF Named
  <2> QED BY <1>0, <1>2, <2>1, NothingLedgers, NothingLines DEF Annotate
<1>3. CASE VerbStep
  BY <1>1, <1>2, <1>3 DEF VerbStep, StartRun, AgentFork, AgentEdit, AgentCommit, UserResetsTree,
     AgentEval, Retry, Finalize, SealChampion, Repair, UserDeletesStrays, durable
<1>4. ASSUME drv.pc = "evaluating", NEW r, r \in Results \/ r = <<"cancelled", None>>,
             NEW receipt \in BOOLEAN, Stamp(r[1], r[2], receipt)
      PROVE  Ledgers'
  <2>1. CASE r \in Results
    BY <2>1, <1>4, DriverAssumption, StampLedgers DEF Results, Scored, Outcomes
  <2>2. CASE r = <<"cancelled", None>>
    <3>1. r[1] = "cancelled" /\ r[2] = None
      BY <2>2
    <3>2. r[1] \in Outcomes /\ r[2] \in Scored
      BY <3>1 DEF Outcomes, Scored
    <3> QED BY <1>4, <3>2, StampLedgers
  <2> QED BY <1>4, <2>1, <2>2
<1>5. CASE Kill
  BY <1>1, <1>5 DEF Kill
<1>6. CASE \E r \in Results : KillInStamp(r[1], r[2])
  <2>1. PICK r \in Results : KillInStamp(r[1], r[2])
    BY <1>6
  <2>2. PICK receipt \in BOOLEAN : receipt = FALSE
    OBVIOUS
  <2>3. Stamp(r[1], r[2], receipt) /\ drv.pc = "evaluating"
    BY <2>1, <2>2 DEF KillInStamp, At
  <2> QED BY <1>4, <2>3
<1>7. CASE Interrupt
  <2>1. CASE drv.pc = "evaluating"
    <3>1. PICK r : r = <<"cancelled", None>>
      OBVIOUS
    <3>2. PICK receipt \in BOOLEAN : receipt = TRUE
      OBVIOUS
    <3>3. r[1] = "cancelled" /\ r[2] = None
      BY <3>1
    <3>4. Stamp(r[1], r[2], receipt)
      BY <1>7, <2>1, <3>2, <3>3 DEF Interrupt, At
    <3> QED BY <1>4, <2>1, <3>1, <3>4
  <2>2. CASE drv.pc # "evaluating"
    BY <1>1, <1>7, <2>2 DEF Interrupt, At
  <2> QED BY <2>1, <2>2
<1> QED BY <1>3, <1>5, <1>6, <1>7 DEF FaultStep

------------------------------------------------------------------------------
(* The invariant of the driver. *)

LEMMA InitDriverInv == Init => DriverInv
<1> SUFFICES ASSUME Init PROVE DriverInv
  OBVIOUS
<1>1. Control /\ Lineage
  BY InitLineageInv DEF LineageInv
<1>2. Naming /\ Evaluating
  <2>1. drv.parent = None /\ drv.label = None /\ drv.pc = "idle" /\ drv.selected = << >>
    BY DEF Init, Idle
  <2>2. DOMAIN << >> = {}
    OBVIOUS
  <2> QED BY <2>1, <2>2 DEF Naming, Evaluating, Handles, Working, Named
<1>3. PICK m : m = Empty
  OBVIOUS
<1>4. ASSUME NEW g PROVE Standing(g, m)
  <2>1. DOMAIN << >> = {}
    OBVIOUS
  <2>2. /\ DOMAIN m = LedgerFields /\ m.row = << >> /\ m.top = None /\ m.lines = {}
        /\ m.evals = << >>
    BY <1>3 DEF Empty, LedgerFields
  <2>3. Get(<< >>, "parent") = None /\ Get(<< >>, "score") = None
        /\ Get(<< >>, "status") # "complete" /\ Get(<< >>, "valid_parent") # TRUE
    BY <2>1, NoneAssumption DEF Get
  <2>4. Shape(m.row, m.top)
    BY <2>1, <2>2, <2>3, NoneAssumption DEF Shape
  <2>5. AnchoredOnce(m)
    BY <2>2 DEF AnchoredOnce, CompleteAnchors
  <2>6. Judged(m.row)
    BY <2>2, <2>3 DEF Judged
  <2> QED BY <2>1, <2>2, <2>3, <2>4, <2>5, <2>6 DEF Standing, Named, Scored
<1>5. PICK z, e, receipt : z = TRUE /\ e = Scaffold /\ receipt = FALSE
  OBVIOUS
<1>6. SaysNothing(e)
  <2>1. Plain(Scaffold)
    BY PlainLines
  <2> QED BY <1>5, <2>1, NoneAssumption DEF SaysNothing, Scaffold, Get, Named
<1>7. PICK l : l = Record(m, z, e, receipt)
  OBVIOUS
<1>8. Standing(Genesis, l)
  BY <1>4, <1>6, <1>7, NothingStanding
<1>9. Ledgers
  <2>1. archive = [g \in Genid |-> IF g = Genesis THEN l ELSE m]
    BY <1>3, <1>5, <1>7 DEF Init
  <2> QED BY <1>4, <1>8, <2>1 DEF Ledgers
<1> QED BY <1>1, <1>2, <1>9 DEF DriverInv

LEMMA DriverInvKept ==
  ASSUME DriverInv, [Next]_vars PROVE DriverInv'
<1>1. Control' /\ Lineage'
  BY LineageInvKept DEF LineageInv, DriverInv
<1>2. CASE UNCHANGED vars
  <2>1. Naming' /\ Evaluating'
    BY <1>2 DEF vars, DriverInv, Naming, Evaluating, Handles
  <2>2. Ledgers'
    BY <1>2 DEF vars, DriverInv, Ledgers
  <2> QED BY <1>1, <2>1, <2>2 DEF DriverInv
<1>3. CASE RunStep
  <2>1. Naming' /\ Evaluating'
    BY <1>3, RunNaming, ProposalNaming, EvaluationNaming DEF RunStep
  <2> QED BY <1>1, <1>3, <2>1, RunLedgers DEF DriverInv
<1>4. CASE VerbStep \/ FaultStep
  BY <1>1, <1>4, VerbNaming, FaultNaming, OtherLedgers DEF DriverInv
<1> QED BY <1>2, <1>3, <1>4 DEF Next

LEMMA DriverInvariant == Spec => []DriverInv
BY InitDriverInv, DriverInvKept, PTL DEF Spec

LEMMA AtMostOne ==
  ASSUME NEW S, \A e, f \in S : e = f PROVE Cardinality(S) <= 1
<1>1. CASE S = {}
  BY <1>1, FS_EmptySet
<1>2. CASE S # {}
  <2>1. PICK e \in S : TRUE
    BY <1>2
  <2>2. S = {e}
    BY <2>1
  <2>3. Cardinality(S) = 1
    BY <2>2, FS_Singleton
  <2> QED BY <2>3
<1> QED BY <1>1, <1>2

\* The sealed tasks are spent once: seal, the genesis anchor and the final anchor each
\* look for a complete sealed evaluation when they begin, no other verb runs until
\* theirs ends, and once such a line is written the lookup finds it for ever.
THEOREM SealedTasksSpentOnce == Spec => []SealedOnce
<1>1. ASSUME DriverInv PROVE SealedOnce
  <2>1. SUFFICES ASSUME NEW g \in Genid
                 PROVE  Cardinality({e \in archive[g].lines :
                          Get(e, "purpose") = "anchor" /\ e["outcome"] = "benchmark_complete"}) <= 1
    BY DEF SealedOnce
  <2>2. PICK m : m = archive[g]
    OBVIOUS
  <2>3. \A e, f \in CompleteAnchors(m) : e = f
    BY <1>1, <2>2 DEF DriverInv, Ledgers, Standing, AnchoredOnce
  <2>4. Cardinality(CompleteAnchors(m)) <= 1
    BY <2>3, AtMostOne
  <2> QED BY <2>2, <2>4 DEF CompleteAnchors
<1> QED BY <1>1, DriverInvariant, PTL

\* The verdict on record judged the score on record: the gate prints the score it
\* compared, only a certified evaluation changes the score, and that same line takes
\* the verdict back.
THEOREM VerdictJudgedScore == Spec => []VerdictOnRecord
<1>1. ASSUME DriverInv PROVE VerdictOnRecord
  <2>1. SUFFICES ASSUME GatePolicy # "parent_eligible", NEW g \in ValidParents \ {Genesis}
                 PROVE  \E score, against \in Scores :
                          /\ Get(Row(g), "reason") = <<score, against>>
                          /\ score = Row(g)["score"]
                          /\ IF GatePolicy = "strict" THEN score > against
                                                      ELSE score >= against
    BY DEF VerdictOnRecord
  <2>2. PICK m, row : m = archive[g] /\ row = Row(g)
    OBVIOUS
  <2>3. g \in Genid /\ g # Genesis /\ IsParentRecord(row) /\ row = m.row
    BY <2>2 DEF ValidParents, IsParent, Row
  <2>4. Standing(g, m)
    BY <1>1, <2>2, <2>3 DEF DriverInv, Ledgers
  <2>5. Judged(row)
    BY <2>1, <2>3, <2>4 DEF Standing
  <2>6. Get(row, "score") # None
    BY <2>3 DEF IsParentRecord
  <2>7. VerdictOn(row)
    BY <2>3, <2>5, <2>6 DEF Judged, IsParentRecord
  <2>8. Get(row, "score") = row["score"]
    BY <2>6 DEF Get
  <2> QED BY <2>2, <2>7, <2>8 DEF VerdictOn
<1> QED BY <1>1, DriverInvariant, PTL

------------------------------------------------------------------------------
(* Without retries nothing is evaluated twice, and no parent is unmade. *)

Slots(r) == {Slot(r, i) : i \in 0..Children - 1}

\* The generations that select left without a parent, until each is failed.
Failing == drv.pc = "selectFailed" \/ (drv.pc = "record" /\ drv.next = "selectFailed")

Unfinished ==
  /\ drv.pc = "select" => PendingIn(drv.round) # {}
  /\ Failing => drv.todo # {} /\ drv.todo \subseteq Slots(drv.round) \ ValidParents
  /\ drv.pc \in {"fork", "proposing", "guardrail"} => ~Tagged(drv.gen)
  /\ drv.pc = "gate" => archive[drv.gen].awaiting
  /\ drv.pc = "evaluating" =>
       /\ drv.purpose = "candidate" => ~Evaluated(drv.gen)
       /\ drv.purpose = "genesis" => ~IsParent(Genesis)

CandidateLines(m) == {e \in m.lines : Get(e, "purpose") = "candidate"}

\* One evaluation at most, which shows; a parent awaits no gate, and generation zero
\* never does.
Spent(g, m) ==
  /\ \A e, f \in CandidateLines(m) : e = f
  /\ CandidateLines(m) # {} => Get(m.row, "outcome") \in Outcomes
  /\ m.awaiting => ~IsParentRecord(m.row) /\ g # Genesis

NoRetry ==
  /\ DOMAIN budget = {"faults", "failures", "retries"} /\ budget.retries = 0
  /\ drv.verb # "retry"

SpentOnce == \A g \in Genid : Spent(g, archive[g])

OnceInv == DriverInv /\ NoRetry /\ Unfinished /\ SpentOnce

\* Lines that say nothing about the evaluation, the verdict or the gate.
Harmless == {RecordEvent, RecordError, AuditEvent} \cup {CommitEvent(p) : p \in Named}

Ends == {Discarded(p, s) : p \in Named, s \in Rejections \cup {"operator_failed"}}

LEMMA HarmlessFacts ==
  ASSUME NEW e \in Harmless
  PROVE  /\ Plain(e) /\ Get(e, "purpose") = None
         /\ DOMAIN e \cap {"valid_parent", "verdict", "reason", "pending_gate_record", "score",
                          "task_set_hash"} = {}
<1>1. Plain(e)
  BY PlainLines DEF Harmless
<1>2. DOMAIN e \subseteq {"record_attempted", "record_error", "audit", "parent", "mutated"}
  BY DEF Harmless, RecordEvent, RecordError, AuditEvent, CommitEvent
<1>3. Get(e, "purpose") = None
  BY <1>2 DEF Get
<1> QED BY <1>1, <1>2, <1>3

LEMMA EndsFacts ==
  ASSUME NEW e \in Ends
  PROVE  Plain(e) /\ Get(e, "purpose") = None /\ e["valid_parent"] = FALSE
         /\ "valid_parent" \in DOMAIN e
<1>1. PICK p \in Named, s \in Rejections \cup {"operator_failed"} : e = Discarded(p, s)
  BY DEF Ends
<1>2. s # "complete"
  BY <1>1 DEF Rejections
<1>4. Plain(Discarded(p, s))
  BY <1>2, PlainLines
<1>5. Discarded(p, s)["valid_parent"] = FALSE
  BY DEF Discarded
<1>3. Get(e, "purpose") = None /\ "valid_parent" \in DOMAIN e
  BY <1>1 DEF Discarded, Get
<1> QED BY <1>1, <1>3, <1>4, <1>5

\* What a line does not mention stays.
LEMMA Unmentioned ==
  ASSUME NEW row, NEW e, NEW k, k \notin DOMAIN e
  PROVE  Get(MergeEventFields(row, e), k) = Get(row, k)
BY DEF MergeEventFields, Overlay, Only, Get

LEMMA ParentFields ==
  ASSUME NEW row, NEW r,
         \A k \in EvaluatedFields \cup {"pending_gate_record", "valid_parent", "verdict",
                                        "task_set_hash", "score"} : Get(r, k) = Get(row, k)
  PROVE  IsParentRecord(r) <=> IsParentRecord(row)
BY DEF IsParentRecord, EvaluatedFields

\* A plain line adds no evaluation, and the row stays evaluated.
LEMMA PlainSpent ==
  ASSUME NEW g, NEW m, Standing(g, m), Spent(g, m), NEW e, Plain(e),
         NEW z, NEW receipt, NEW l, l = Record(m, z, e, receipt), e \notin m.lines
  PROVE  /\ \A f, h \in CandidateLines(l) : f = h
         /\ CandidateLines(l) # {} => Get(l.row, "outcome") \in Outcomes
         /\ l.awaiting <=> m.awaiting /\ ~IsGateRecord(e)
         /\ MergesPlain(m.row, l.row, e) /\ l.row = MergeEventFields(m.row, e)
<1>1. DOMAIN m = LedgerFields /\ Shape(m.row, m.top)
  BY DEF Standing
<1>2. PICK row : row = m.row
  OBVIOUS
<1>3. PICK r : r = MergeEventFields(row, e)
  OBVIOUS
<1>4. l.row = r /\ l.lines = m.lines \cup {e} /\ (l.awaiting <=> m.awaiting /\ ~IsGateRecord(e))
  BY <1>1, <1>2, <1>3, PlainRecord
<1>5. MergesPlain(row, r, e)
  BY <1>1, <1>2, <1>3, PlainMergeFields DEF Shape
<1>6. Get(e, "purpose") # "candidate"
  BY NoneAssumption DEF Plain, EvaluatedFields, Get
<1>7. CandidateLines(l) = CandidateLines(m)
  BY <1>4, <1>6 DEF CandidateLines
<1>8. Get(r, "outcome") = Get(row, "outcome")
  BY <1>5 DEF MergesPlain, EvaluatedFields
<1> QED BY <1>2, <1>3, <1>4, <1>5, <1>7, <1>8 DEF Spent

LEMMA HarmlessSpent ==
  ASSUME NEW g, NEW m, Standing(g, m), Spent(g, m), NEW e \in Harmless,
         NEW z, NEW receipt, NEW l, l = Record(m, z, e, receipt)
  PROVE  Spent(g, l) /\ (IsParentRecord(l.row) <=> IsParentRecord(m.row))
<1>1. CASE e \in m.lines
  BY <1>1 DEF Record
<1>2. CASE e \notin m.lines
  <2>1. Plain(e) /\ DOMAIN e \cap {"valid_parent", "verdict", "pending_gate_record", "score",
                                     "task_set_hash"} = {}
    BY HarmlessFacts
  <2>2. /\ \A f, h \in CandidateLines(l) : f = h
        /\ CandidateLines(l) # {} => Get(l.row, "outcome") \in Outcomes
        /\ l.awaiting <=> m.awaiting /\ ~IsGateRecord(e)
        /\ MergesPlain(m.row, l.row, e) /\ l.row = MergeEventFields(m.row, e)
    BY <1>2, <2>1, PlainSpent
  <2>3. PICK row, r : row = m.row /\ r = l.row
    OBVIOUS
  <2>4. \A k \in EvaluatedFields : Get(r, k) = Get(row, k)
    BY <2>2, <2>3 DEF MergesPlain
  <2>5. \A k \in {"valid_parent", "verdict", "pending_gate_record", "score", "task_set_hash"} :
          Get(r, k) = Get(row, k)
    BY <2>1, <2>2, <2>3, Unmentioned
  <2>7. IsParentRecord(r) <=> IsParentRecord(row)
    BY <2>4, <2>5, ParentFields
  <2> QED BY <2>2, <2>3, <2>7 DEF Spent
<1> QED BY <1>1, <1>2

LEMMA EndsSpent ==
  ASSUME NEW g, NEW m, Standing(g, m), Spent(g, m), NEW e \in Ends,
         NEW z, NEW receipt, NEW l, l = Record(m, z, e, receipt)
  PROVE  Spent(g, l) /\ (IsParentRecord(l.row) => IsParentRecord(m.row))
<1>1. CASE e \in m.lines
  BY <1>1 DEF Record
<1>2. CASE e \notin m.lines
  <2>1. Plain(e) /\ Get(e, "valid_parent") = FALSE
    BY EndsFacts DEF Get
  <2>2. /\ \A f, h \in CandidateLines(l) : f = h
        /\ CandidateLines(l) # {} => Get(l.row, "outcome") \in Outcomes
        /\ l.awaiting <=> m.awaiting /\ ~IsGateRecord(e)
        /\ MergesPlain(m.row, l.row, e)
    BY <1>2, <2>1, PlainSpent
  <2>3. Get(l.row, "valid_parent") = FALSE
    BY <2>1, <2>2 DEF MergesPlain
  <2>4. ~IsParentRecord(l.row)
    BY <2>3 DEF IsParentRecord
  <2> QED BY <2>2, <2>4 DEF Spent
<1> QED BY <1>1, <1>2

LEMMA GateSpent ==
  ASSUME NEW g, NEW m, Standing(g, m), Spent(g, m), NEW accept \in BOOLEAN, NEW reason,
         NEW e, e = GateEvent(accept, reason),
         NEW z, NEW receipt, NEW l, l = Record(m, z, e, receipt)
  PROVE  Spent(g, l)
<1>1. CASE e \in m.lines
  BY <1>1 DEF Record
<1>2. CASE e \notin m.lines
  <2>1. Plain(e)
    BY PlainLines
  <2>2. IsGateRecord(e)
    BY DEF IsGateRecord, GateEvent, Stamped
  <2>3. /\ \A f, h \in CandidateLines(l) : f = h
        /\ CandidateLines(l) # {} => Get(l.row, "outcome") \in Outcomes
        /\ ~l.awaiting
    BY <1>2, <2>1, <2>2, PlainSpent
  <2> QED BY <2>3 DEF Spent
<1> QED BY <1>1, <1>2

\* The genesis evaluation, or the only evaluation of a candidate.
LEMMA DevSpent ==
  ASSUME NEW g, NEW m, Standing(g, m), Spent(g, m), NEW purpose \in {"genesis", "candidate"},
         purpose = "genesis" => g = Genesis,
         purpose = "candidate" => Get(m.row, "outcome") \notin Outcomes,
         NEW e, NEW outcome, NEW score, NEW attempt,
         LineOf(e, purpose, outcome, score, attempt),
         NEW receipt \in BOOLEAN, NEW z \in BOOLEAN, z <=> g = Genesis,
         GatedLine(z, purpose, outcome, e), NEW l, l = Record(m, z, e, receipt)
  PROVE  /\ Spent(g, l)
         /\ purpose = "candidate" /\ g # Genesis /\ outcome = "benchmark_complete" => l.awaiting
<1>1. Get(e, "purpose") = purpose /\ EvaluationShape(e)
  BY DEF LineOf, EvaluationShape, Stamped, Get
<1>2. purpose = "candidate" => CandidateLines(m) = {}
  BY DEF Spent
<1>3. CASE e \in m.lines
  <2>1. purpose # "candidate"
    BY <1>1, <1>2, <1>3 DEF CandidateLines
  <2> QED BY <1>3, <2>1 DEF Record
<1>4. CASE e \notin m.lines
  <2>1. PICK n : n = Merge(m, z, e, receipt)
    OBVIOUS
  <2>2. DOMAIN m = LedgerFields /\ Shape(m.row, m.top) /\ (purpose = "genesis" => z)
    BY DEF Standing
  <2>3. SameLines(m, n) /\ Becomes(m.row, n.row, e, receipt)
    BY <2>1, <2>2, DevMerge
  <2>4. /\ l.row = n.row /\ l.lines = m.lines \cup {e}
        /\ l.awaiting <=> IsEvaluationStamp(e) \/ (m.awaiting /\ ~IsGateRecord(e))
    BY <1>4, <2>1, <2>2, <2>3, RecordFacts
  <2>5. PICK row, r : row = m.row /\ r = l.row /\ Becomes(row, r, e, receipt)
    BY <2>3, <2>4
  <2>6. Get(r, "outcome") \in Outcomes
    BY <2>5 DEF Becomes, Stamped, Get
  <2>7. \A f, h \in CandidateLines(l) : f = h
    <3>1. CASE purpose = "candidate"
      BY <1>2, <2>4, <3>1 DEF CandidateLines
    <3>2. CASE purpose = "genesis"
      <4>1. CandidateLines(l) = CandidateLines(m)
        BY <1>1, <2>4, <3>2 DEF CandidateLines
      <4> QED BY <4>1 DEF Spent
    <3> QED BY <3>1, <3>2
  <2>8. CASE g = Genesis
    <3>1. ~IsEvaluationStamp(e)
      BY <2>8 DEF GatedLine, LineOf
    <3>2. ~l.awaiting
      BY <2>4, <2>8, <3>1 DEF Spent
    <3> QED BY <2>5, <2>6, <2>7, <2>8, <3>2 DEF Spent
  <2>9. CASE g # Genesis
    <3>1. purpose = "candidate" /\ e["valid_parent"] = FALSE
      BY <2>9 DEF GatedLine
    <3>2. ~IsParentRecord(r)
      <4>1. SUFFICES ASSUME Get(r, "receipt_certified") = TRUE, Get(r, "valid_parent") = TRUE
                     PROVE  FALSE
        BY DEF IsParentRecord
      <4>2. ~receipt
        BY <2>5, <3>1, <4>1 DEF Becomes
      <4>3. "outcome" \in RecordedFields \ {"note"}
        BY DEF RecordedFields, EvaluationFields, Stamped
      <4>4. Get(r, "outcome") = Get(row, "outcome")
        BY <2>5, <4>1, <4>2, <4>3 DEF Becomes
      <4> QED BY <2>5, <2>6, <3>1, <4>4
    <3>3. outcome = "benchmark_complete" => l.awaiting
      BY <2>4, <2>9, <3>1 DEF GatedLine
    <3> QED BY <2>5, <2>6, <2>7, <2>9, <3>2, <3>3 DEF Spent
  <2> QED BY <2>8, <2>9
<1> QED BY <1>3, <1>4

LEMMA AnchorSpent ==
  ASSUME NEW g, NEW m, Standing(g, m), Spent(g, m),
         NEW e, NEW outcome, NEW score, NEW attempt,
         LineOf(e, "anchor", outcome, score, attempt), NEW receipt \in BOOLEAN,
         NEW z, NEW l, l = Record(m, z, e, receipt)
  PROVE  Spent(g, l) /\ l.row = m.row
<1>1. CASE e \in m.lines
  BY <1>1 DEF Record
<1>2. CASE e \notin m.lines
  <2>1. PICK n : n = Merge(m, z, e, receipt)
    OBVIOUS
  <2>2. DOMAIN m = LedgerFields
    BY DEF Standing
  <2>3. SameLines(m, n) /\ n.row = m.row
    BY <2>1, <2>2, AnchorMerge
  <2>4. /\ l.row = m.row /\ l.lines = m.lines \cup {e}
        /\ l.awaiting <=> IsEvaluationStamp(e) \/ (m.awaiting /\ ~IsGateRecord(e))
    BY <1>2, <2>1, <2>2, <2>3, RecordFacts
  <2>5. ~IsEvaluationStamp(e) /\ Get(e, "purpose") = "anchor"
    BY DEF LineOf, EvaluationShape, Stamped, Get
  <2>6. CandidateLines(l) = CandidateLines(m)
    BY <2>4, <2>5 DEF CandidateLines
  <2> QED BY <2>4, <2>5, <2>6 DEF Spent
<1> QED BY <1>1, <1>2

------------------------------------------------------------------------------
(* What a step does to the ledgers. *)

\* A step that makes and unmakes no parent.
SameParents == \A g \in Genid : IsParent(g)' <=> IsParent(g)

LEMMA SpentElsewhere ==
  ASSUME Ledgers, SpentOnce, NEW g, NEW l, archive' = [archive EXCEPT ![g] = l],
         g \in Genid => Spent(g, l)
  PROVE  SpentOnce'
<1>1. \A h \in Genid : archive'[h] = IF h = g THEN l ELSE archive[h]
  BY DEF Ledgers
<1>2. \A h \in Genid : Spent(h, archive'[h])
  BY <1>1 DEF SpentOnce
<1>3. SpentOnce' <=> \A h \in Genid : Spent(h, archive'[h])
  BY DEF SpentOnce, Spent, CandidateLines
<1> QED BY <1>2, <1>3

LEMMA ParentsElsewhere ==
  ASSUME Ledgers, NEW g, NEW l, archive' = [archive EXCEPT ![g] = l], commits' = commits,
         g \in Genid /\ Tagged(g) => (IsParentRecord(l.row) <=> IsParentRecord(archive[g].row))
  PROVE  SameParents
<1>1. \A h \in Genid : archive'[h] = IF h = g THEN l ELSE archive[h]
  BY DEF Ledgers
<1>2. \A h : Tagged(h)' <=> Tagged(h)
  BY DEF Tagged
<1>3. \A h \in Genid : IsParent(h)' <=> Tagged(h) /\ IsParentRecord(archive'[h].row)
  BY <1>2 DEF IsParent, Row
<1>4. \A h \in Genid : IsParent(h) <=> Tagged(h) /\ IsParentRecord(archive[h].row)
  BY DEF IsParent, Row
<1> QED BY <1>1, <1>3, <1>4 DEF SameParents

LEMMA QuietStep ==
  ASSUME SpentOnce, archive' = archive, commits' = commits
  PROVE  SpentOnce' /\ SameParents
BY DEF SpentOnce, Spent, CandidateLines, SameParents, IsParent, Tagged, Row

LEMMA LineStep ==
  ASSUME Ledgers, SpentOnce, NEW g, NEW e, AppendEvent(g, e), commits' = commits,
         e \in Harmless \/ (e \in Ends /\ ~IsParent(g))
  PROVE  SpentOnce' /\ SameParents
<1>1. PICK m, z, receipt : m = archive[g] /\ z = (g = Genesis) /\ receipt = FALSE
  OBVIOUS
<1>2. PICK l : l = Record(m, z, e, receipt)
  OBVIOUS
<1>3. archive' = [archive EXCEPT ![g] = l]
  BY <1>1, <1>2 DEF AppendEvent
<1>4. ASSUME g \in Genid PROVE Standing(g, m) /\ Spent(g, m)
  BY <1>1, <1>4 DEF Ledgers, SpentOnce
<1>5. ASSUME g \in Genid
      PROVE  Spent(g, l) /\ (Tagged(g) => (IsParentRecord(l.row) <=> IsParentRecord(m.row)))
  <2>1. CASE e \in Harmless
    BY <1>2, <1>4, <1>5, <2>1, HarmlessSpent
  <2>2. CASE e \in Ends /\ ~IsParent(g)
    <3>1. Tagged(g) => ~IsParentRecord(m.row)
      BY <1>1, <2>2 DEF IsParent, Row
    <3>2. Spent(g, l) /\ (IsParentRecord(l.row) => IsParentRecord(m.row))
      BY <1>2, <1>4, <1>5, <2>2, EndsSpent
    <3> QED BY <3>1, <3>2
  <2> QED BY <2>1, <2>2
<1>6. SpentOnce'
  BY <1>3, <1>5, SpentElsewhere
<1>7. SameParents
  BY <1>1, <1>3, <1>5, ParentsElsewhere
<1> QED BY <1>6, <1>7

\* No parent is at its gate.
LEMMA GateStep ==
  ASSUME OnceInv, GateDecides
  PROVE  SpentOnce' /\ \A g \in Genid : IsParent(g) => IsParent(g)'
<1>1. PICK g, p : g = drv.gen /\ p = drv.parent
  OBVIOUS
<1>2. Ledgers /\ SpentOnce /\ g \in Genid /\ p \in Genid /\ archive[g].awaiting
  BY <1>1 DEF OnceInv, DriverInv, GateDecides, At, Naming, Handles, Unfinished
<1>3. PICK accept, reason : accept = GateAccepts(p, g) /\ reason = GateReason(p, g)
  OBVIOUS
<1>4. accept \in BOOLEAN
  BY <1>3, DriverAssumption DEF GateAccepts
<1>5. PICK e : e = GateEvent(accept, reason)
  OBVIOUS
<1>6. PICK m, z, receipt : m = archive[g] /\ z = (g = Genesis) /\ receipt = FALSE
  OBVIOUS
<1>7. PICK l : l = Record(m, z, e, receipt)
  OBVIOUS
<1>8. archive' = [archive EXCEPT ![g] = l] /\ commits' = commits
  BY <1>1, <1>3, <1>5, <1>6, <1>7 DEF GateDecides, AppendEvent
<1>9. Standing(g, m) /\ Spent(g, m) /\ m.awaiting
  BY <1>2, <1>6 DEF Ledgers, SpentOnce
<1>10. Spent(g, l)
  BY <1>4, <1>5, <1>7, <1>9, GateSpent
<1>11. SpentOnce'
  BY <1>2, <1>8, <1>10, SpentElsewhere
<1>12. ~IsParent(g)
  BY <1>6, <1>9 DEF Spent, IsParent, Row
<1>13. ASSUME NEW h \in Genid, IsParent(h) PROVE IsParent(h)'
  <2>1. h # g
    BY <1>12, <1>13
  <2>2. archive'[h] = archive[h]
    BY <1>2, <1>8, <2>1 DEF Ledgers
  <2> QED BY <1>8, <1>13, <2>2 DEF IsParent, Tagged, Row
<1> QED BY <1>11, <1>13

\* An evaluation's line costs no parent its place.
LEMMA StampStep ==
  ASSUME OnceInv, drv.pc = "evaluating", NEW outcome \in Outcomes, NEW score \in Scored,
         NEW receipt \in BOOLEAN, Stamp(outcome, score, receipt)
  PROVE  /\ SpentOnce'
         /\ \A g \in Genid : IsParent(g) => IsParent(g)'
         /\ drv.purpose = "candidate" /\ drv.gen # Genesis /\ outcome = "benchmark_complete" =>
              archive'[drv.gen].awaiting
<1>1. PICK g, purpose, label, attempt :
        /\ g = drv.gen /\ purpose = drv.purpose /\ label = drv.label
        /\ attempt = attempts[drv.gen][drv.purpose]
  OBVIOUS
<1>2. /\ Ledgers /\ SpentOnce /\ g \in Genid /\ purpose \in AnyPurpose
      /\ purpose = "genesis" => g = Genesis /\ ~IsParent(g)
      /\ purpose = "candidate" => ~Evaluated(g)
  BY <1>1 DEF OnceInv, DriverInv, Naming, Evaluating, Control, Purposes, AnyPurpose, Unfinished
<1>3. PICK z \in BOOLEAN : z <=> g = Genesis
  OBVIOUS
<1>4. PICK e : e = LineFor(z, purpose, label, outcome, score, attempt)
  OBVIOUS
<1>5. LineOf(e, purpose, outcome, score, attempt) /\ GatedLine(z, purpose, outcome, e)
  BY <1>2, <1>4, EvaluationLines
<1>6. EvaluationLine(outcome, score) = e
  BY <1>1, <1>3, <1>4 DEF EvaluationLine, LineFor
<1>7. PICK m : m = archive[g]
  OBVIOUS
<1>8. PICK l : l = Record(m, z, e, receipt)
  OBVIOUS
<1>9. archive' = [archive EXCEPT ![g] = l] /\ commits' = commits
  BY <1>1, <1>3, <1>6, <1>7, <1>8 DEF Stamp
<1>10. Standing(g, m) /\ Spent(g, m)
  BY <1>2, <1>7 DEF Ledgers, SpentOnce
<1>11. archive'[g] = l /\ \A h \in Genid : h # g => archive'[h] = archive[h]
  BY <1>2, <1>9 DEF Ledgers
<1>12. CASE purpose = "anchor"
  <2>1. Spent(g, l) /\ l.row = m.row
    BY <1>5, <1>8, <1>10, <1>12, AnchorSpent
  <2>2. SpentOnce'
    BY <1>2, <1>9, <2>1, SpentElsewhere
  <2>3. SameParents
    BY <1>2, <1>7, <1>9, <2>1, ParentsElsewhere
  <2> QED BY <1>1, <1>12, <2>2, <2>3 DEF SameParents
<1>13. CASE purpose \in {"genesis", "candidate"}
  <2>1. purpose = "candidate" => Get(m.row, "outcome") \notin Outcomes
    BY <1>2, <1>7 DEF Evaluated, Row
  <2>2. /\ Spent(g, l)
        /\ purpose = "candidate" /\ g # Genesis /\ outcome = "benchmark_complete" => l.awaiting
    BY <1>2, <1>3, <1>5, <1>8, <1>10, <1>13, <2>1, DevSpent
  <2>3. SpentOnce'
    BY <1>2, <1>9, <2>2, SpentElsewhere
  <2>4. ~IsParent(g)
    <3>1. CASE purpose = "genesis"
      BY <1>2, <3>1
    <3>2. CASE purpose = "candidate"
      BY <1>2, <3>2 DEF IsParent, IsParentRecord, Evaluated, Outcomes
    <3> QED BY <1>13, <3>1, <3>2
  <2>5. ASSUME NEW h \in Genid, IsParent(h) PROVE IsParent(h)'
    <3>1. archive'[h] = archive[h]
      BY <1>11, <2>4, <2>5
    <3> QED BY <1>9, <2>5, <3>1 DEF IsParent, Tagged, Row
  <2> QED BY <1>1, <1>11, <2>2, <2>3, <2>5
<1> QED BY <1>2, <1>12, <1>13 DEF AnyPurpose

------------------------------------------------------------------------------
(* What a run has still to do. *)

LEMMA FirstSlot ==
  ASSUME NEW r, NEW S, S \subseteq Slots(r), S # {}
  PROVE  \E g \in S : \A h \in S : g[2] <= h[2]
<1> DEFINE T == {g[2] : g \in S}
<1>1. T \subseteq Nat /\ T # {}
  <2>1. \A g \in S : g[2] \in Nat
    BY DriverAssumption DEF Slots, Slot
  <2> QED BY <2>1
<1>2. PICK t \in T : \A u \in T : ~(<<u, t>> \in OpToRel(<, Nat))
  BY <1>1, WFMin, NatLessThanWellFounded
<1>3. PICK g \in S : t = g[2]
  OBVIOUS
<1>4. \A h \in S : ~(h[2] < g[2])
  BY <1>1, <1>2, <1>3 DEF OpToRel
<1>5. \A h \in S : g[2] <= h[2]
  <2> TAKE h \in S
  <2>1. g[2] \in Nat /\ h[2] \in Nat
    BY <1>1
  <2> QED BY <1>4, <2>1
<1> QED BY <1>5

LEMMA PendingAreNoParents ==
  ASSUME SpentOnce, NEW g \in Genid, Pending(g) PROVE ~IsParent(g)
<1>1. Spent(g, archive[g])
  BY DEF SpentOnce
<1>2. CASE archive[g].awaiting
  BY <1>1, <1>2 DEF Spent, IsParent, Row
<1>3. CASE Status(g) \notin Terminal
  <2>1. Status(g) # "complete"
    BY <1>3 DEF Terminal
  <2>2. Get(Row(g), "outcome") # "benchmark_complete"
    BY <2>1, NoneAssumption DEF Status, EvaluationStatus, Get, Outcomes
  <2> QED BY <2>2 DEF IsParent, IsParentRecord
<1> QED BY <1>2, <1>3 DEF Pending

LEMMA EvaluatedPending ==
  ASSUME NEW g, Evaluated(g), Pending(g) PROVE archive[g].awaiting
<1>1. Get(Row(g), "outcome") \in Outcomes
  BY DEF Evaluated
<1>2. Row(g)["outcome"] = Get(Row(g), "outcome")
  BY <1>1, NoneAssumption DEF Get, Outcomes
<1>3. Status(g) \in Terminal
  BY <1>1, <1>2 DEF Status, EvaluationStatus, Terminal, Unretryable, FailureOutcomes
<1> QED BY <1>3 DEF Pending

LEMMA SlotsAreGenerations ==
  ASSUME NEW r \in 1..MaxGen PROVE Slots(r) \subseteq Genid /\ PendingIn(r) \subseteq Slots(r)
BY DEF Slots, Slot, Candidates, Genid, PendingIn

\* The steps after which nothing is asked.
Settling ==
  /\ drv'.pc \notin {"select", "selectFailed", "fork", "proposing", "guardrail", "gate", "evaluating"}
  /\ drv'.pc = "record" => drv'.next # "selectFailed"

LEMMA SettlingUnfinished ==
  ASSUME Settling PROVE Unfinished'
BY DEF Settling, Unfinished, Failing

LEMMA IdleSettling ==
  ASSUME drv' = Idle \/ drv' = NextSlot \/ drv' = Done PROVE Settling
<1>1. drv' = Idle \/ drv' = NextSlot
  BY DEF Done
<1>2. CASE drv' = Idle
  <2>1. drv'.pc = "idle"
    BY <1>2 DEF Idle
  <2> QED BY <2>1 DEF Settling
<1>3. CASE drv' = NextSlot
  <2>1. drv'.pc = "slots"
    BY <1>3 DEF NextSlot, Idle
  <2> QED BY <2>1 DEF Settling
<1> QED BY <1>1, <1>2, <1>3

LEMMA BeginUnfinished ==
  ASSUME Control, NEW g, NEW purpose, NEW label, Begin(g, purpose, label),
         purpose = "candidate" => ~Evaluated(g),
         purpose = "genesis" => ~IsParent(Genesis)
  PROVE  Unfinished'
<1>1. drv'.pc = "evaluating" /\ drv'.gen = g /\ drv'.purpose = purpose
  BY DEF Begin, Control, DrvFields
<1>2. archive' = archive /\ commits' = commits
  BY DEF Begin
<1>3. (Evaluated(g))' <=> Evaluated(g)
  BY <1>2 DEF Evaluated, Row
<1>4. (IsParent(Genesis))' <=> IsParent(Genesis)
  BY <1>2 DEF IsParent, Tagged, Row
<1>5. drv'.purpose = "candidate" => ~(Evaluated(drv.gen))'
  BY <1>1, <1>2 DEF Evaluated, Row
<1>6. drv'.purpose = "genesis" => ~(IsParent(Genesis))'
  BY <1>1, <1>4
<1> QED BY <1>1, <1>5, <1>6 DEF Unfinished, Failing

LEMMA FailingUnfinished ==
  ASSUME SameParents,
         drv'.pc = "selectFailed" \/ (drv'.pc = "record" /\ drv'.next = "selectFailed"),
         drv'.todo # {}, drv'.todo \subseteq Slots(drv'.round) \ ValidParents
  PROVE  Unfinished'
<1>1. ValidParents' = ValidParents
  BY DEF SameParents, ValidParents
<1> QED BY <1>1 DEF Unfinished, Failing, Slots

\* The loop of a run: its generations are pending, and so no parents.
LEMMA LoopUnfinished ==
  ASSUME OnceInv,
         \/ EnsureGenesis \/ EnsureGenesisAnchor \/ Round
         \/ \E ps \in Answers : Select(ps)
         \/ SelectFails \/ TakeSlot
  PROVE  Unfinished'
<1>0. Control /\ SpentOnce /\ Unfinished
  BY DEF OnceInv, DriverInv
<1>1. archive' = archive /\ commits' = commits
  BY DEF EnsureGenesis, EnsureGenesisAnchor, Round, Select, SelectFails, TakeSlot, Begin, durable
<1>2. SameParents
  BY <1>0, <1>1, QuietStep
<1>3. CASE EnsureGenesis
  <2>1. \/ Goto("anchor") \/ drv' = Idle
        \/ ~IsParent(Genesis) /\ Begin(Genesis, "genesis", Get(Row(Genesis), "parent"))
    BY <1>3 DEF EnsureGenesis, IsParent, IsParentRecord
  <2>2. CASE Goto("anchor")
    BY <1>0, <2>2, SettlingUnfinished DEF Goto, Control, DrvFields, Settling
  <2> QED BY <1>0, <2>1, <2>2, IdleSettling, SettlingUnfinished, BeginUnfinished
<1>4. CASE EnsureGenesisAnchor
  <2>1. \/ drv' = [drv EXCEPT !.pc = "round", !.round = 1]
        \/ Begin(Genesis, "anchor", Get(Row(Genesis), "parent"))
    BY <1>4 DEF EnsureGenesisAnchor
  <2>2. CASE drv' = [drv EXCEPT !.pc = "round", !.round = 1]
    BY <1>0, <2>2, SettlingUnfinished DEF Control, DrvFields, Settling
  <2> QED BY <1>0, <2>1, <2>2, BeginUnfinished
<1>5. CASE Round
  <2>1. drv.round \in Nat /\ drv.pc = "round"
    BY <1>0, <1>5 DEF Control, Round, At
  <2>2. CASE PendingIn(drv.round) # {} /\ drv' = [drv EXCEPT !.pc = "select"]
    <3>1. drv'.pc = "select" /\ drv'.round = drv.round
      BY <1>0, <2>2 DEF Control, DrvFields
    <3>2. PendingIn(drv.round)' = PendingIn(drv.round)
      BY <1>1, <3>1 DEF PendingIn, Pending, Status, Row
    <3> QED BY <2>2, <3>1, <3>2 DEF Unfinished, Failing
  <2>3. CASE drv' = [drv EXCEPT !.pc = "final"] \/ drv' = [drv EXCEPT !.round = @ + 1]
    BY <1>0, <2>1, <2>3, SettlingUnfinished DEF Control, DrvFields, Settling
  <2> QED BY <1>5, <2>1, <2>2, <2>3, DriverAssumption DEF Round
<1>6. ASSUME NEW todo, todo # {}, todo \subseteq PendingIn(drv.round), drv.pc = "select",
             drv'.pc = "selectFailed", drv'.todo = todo, drv'.round = drv.round
      PROVE  Unfinished'
  <2>1. drv.round \in 1..MaxGen
    BY <1>0, <1>6 DEF Control, Loops
  <2>2. todo \subseteq Slots(drv.round) /\ todo \subseteq Genid
    BY <1>6, <2>1, SlotsAreGenerations
  <2>3. \A g \in todo : Pending(g)
    BY <1>6 DEF PendingIn
  <2>4. todo \subseteq Slots(drv.round) \ ValidParents
    BY <1>0, <2>2, <2>3, PendingAreNoParents DEF ValidParents
  <2> QED BY <1>2, <1>6, <2>4, FailingUnfinished
<1>7. CASE \E ps \in Answers : Select(ps)
  <2>1. PICK ps \in Answers : Select(ps)
    BY <1>7
  <2> DEFINE pending == PendingIn(drv.round)
             covered == {g \in pending : Len(ps) = 1 \/ g[2] + 1 \in DOMAIN ps}
  <2>2. PICK chosen :
          drv' = [drv EXCEPT !.pc = IF covered = pending THEN "slots" ELSE "selectFailed",
                             !.slot = 0, !.todo = pending \ covered, !.selected = chosen]
    BY <2>1 DEF Select
  <2>3. drv.pc = "select" /\ covered \subseteq pending
    BY <2>1 DEF Select, At
  <2> HIDE DEF pending, covered
  <2>4. /\ drv'.pc = IF covered = pending THEN "slots" ELSE "selectFailed"
        /\ drv'.todo = pending \ covered /\ drv'.round = drv.round
    BY <1>0, <2>2 DEF Control, DrvFields
  <2>5. CASE covered = pending
    BY <2>4, <2>5, SettlingUnfinished DEF Settling
  <2>6. CASE covered # pending
    BY <1>6, <2>3, <2>4, <2>6 DEF pending
  <2> QED BY <2>5, <2>6
<1>8. CASE SelectFails
  <2>1. /\ drv.pc = "select" /\ drv'.pc = "selectFailed" /\ drv'.todo = PendingIn(drv.round)
        /\ drv'.round = drv.round
    BY <1>0, <1>8 DEF SelectFails, At, Control, DrvFields
  <2> QED BY <1>0, <1>6, <2>1 DEF Unfinished
<1>9. CASE TakeSlot
  <2> DEFINE g == Slot(drv.round, drv.slot)
             parent == IF g \in DOMAIN drv.selected THEN drv.selected[g]
                       ELSE IF Tagged(g) THEN Get(Row(g), "parent") ELSE None
             fresh == ~Tagged(g)
             pc == IF ~Tagged(g) THEN "fork" ELSE IF ~Evaluated(g) THEN "evaluate" ELSE "gate"
  <2>1. CASE drv' = [Idle EXCEPT !.pc = "round", !.verb = "run", !.round = drv.round + 1]
    BY <2>1, SettlingUnfinished DEF Idle, Settling
  <2>2. CASE drv' = NextSlot
    BY <2>2, IdleSettling, SettlingUnfinished
  <2>3. CASE /\ Pending(g)
             /\ drv' = [drv EXCEPT !.gen = g, !.parent = parent, !.fresh = fresh, !.pc = pc]
    <3>1. /\ pc = "fork" => ~Tagged(g)
          /\ pc = "gate" => Evaluated(g)
          /\ pc \in {"fork", "evaluate", "gate"}
      OBVIOUS
    <3>2. pc = "gate" => archive[g].awaiting
      BY <2>3, <3>1, EvaluatedPending
    <3> HIDE DEF g, parent, fresh, pc
    <3>3. drv'.pc = pc /\ drv'.gen = g
      BY <1>0, <2>3 DEF Control, DrvFields
    <3> QED BY <1>1, <3>1, <3>2, <3>3 DEF Unfinished, Failing, Tagged
  <2>4. drv.slot = Children \/ drv.slot < Children
    BY <1>0, <1>9, DriverAssumption DEF TakeSlot, At, Control
  <2> QED BY <1>9, <2>1, <2>2, <2>3, <2>4 DEF TakeSlot
<1> QED BY <1>3, <1>4, <1>5, <1>7, <1>8, <1>9

\* The line of a generation that was never a parent, or of none in particular.
LEMMA EndsAndHarmless ==
  ASSUME NEW p \in Named
  PROVE  /\ OperatorFailed(p) \in Ends /\ CommitEvent(p) \in Harmless
         /\ RecordEvent \in Harmless /\ RecordError \in Harmless /\ AuditEvent \in Harmless
         /\ \A s \in Rejections : Discarded(p, s) \in Ends
BY DEF OperatorFailed, Ends, Harmless

LEMMA FailUnselectedOnce ==
  ASSUME OnceInv, FailUnselected PROVE Unfinished' /\ SpentOnce' /\ SameParents
<1>0. Control /\ SpentOnce /\ Unfinished /\ Ledgers
  BY DEF OnceInv, DriverInv
<1>1. drv.todo # {} /\ drv.todo \subseteq Slots(drv.round) \ ValidParents
  BY <1>0 DEF FailUnselected, At, Unfinished, Failing
<1>2. PICK g : g = CHOOSE h \in drv.todo : \A k \in drv.todo : h[2] <= k[2]
  OBVIOUS
<1>3. g \in drv.todo
  BY <1>1, <1>2, FirstSlot
<1>4. drv.round \in 1..MaxGen
  BY <1>0 DEF FailUnselected, At, Control, Loops
<1>5. g \in Genid /\ ~IsParent(g)
  BY <1>1, <1>3, <1>4, SlotsAreGenerations DEF ValidParents
<1>6. AppendEvent(g, OperatorFailed(None)) /\ commits' = commits
  BY <1>2 DEF FailUnselected
<1>7. OperatorFailed(None) \in Ends
  BY EndsAndHarmless DEF Named
<1>8. SpentOnce' /\ SameParents
  BY <1>0, <1>5, <1>6, <1>7, LineStep
<1>9. /\ drv'.pc = "record" /\ drv'.todo = drv.todo \ {g} /\ drv'.round = drv.round
      /\ drv'.next = IF drv.todo = {g} THEN "slots" ELSE "selectFailed"
  BY <1>0, <1>2 DEF FailUnselected, Control, DrvFields
<1>10. CASE drv.todo = {g}
  BY <1>8, <1>9, <1>10, SettlingUnfinished DEF Settling
<1>11. CASE drv.todo # {g}
  <2>1. drv'.todo # {} /\ drv'.todo \subseteq Slots(drv'.round) \ ValidParents
    BY <1>1, <1>3, <1>9, <1>11
  <2> QED BY <1>8, <1>9, <1>11, <2>1, FailingUnfinished
<1> QED BY <1>8, <1>10, <1>11

\* From fork to commit the generation has no tag, so what rejects it unmakes no parent.
LEMMA ProposalOnce ==
  ASSUME OnceInv,
         \/ Fork \/ Propose \/ StageFails \/ AdmitProposal
         \/ \E status \in Rejections : RejectProposal(status)
         \/ CommitSnapshot \/ CommitLine \/ Leave
  PROVE  Unfinished' /\ SpentOnce' /\ SameParents
<1>0. Control /\ SpentOnce /\ Unfinished /\ Ledgers /\ drv.parent \in Named
  BY DEF OnceInv, DriverInv, Naming
<1>1. ASSUME NEW ref, ThenRecord(ref, "leave") PROVE Unfinished'
  BY <1>0, <1>1, SettlingUnfinished DEF ThenRecord, Control, DrvFields, Settling
<1>2. ASSUME NEW pc \in {"commit", "committed", "leave", "evaluate"},
             drv'.pc = pc
      PROVE  Unfinished'
  BY <1>2, SettlingUnfinished DEF Settling
<1>3. commits' = commits
  BY DEF Fork, Propose, StageFails, AdmitProposal, RejectProposal, CommitSnapshot, CommitLine,
         Leave, durable
<1>4. ASSUME archive' = archive PROVE SpentOnce' /\ SameParents
  BY <1>0, <1>3, <1>4, QuietStep
<1>5. ASSUME ~Tagged(drv.gen),
             \/ AppendEvent(drv.gen, OperatorFailed(drv.parent))
             \/ \E s \in Rejections : AppendEvent(drv.gen, Discarded(drv.parent, s))
      PROVE  SpentOnce' /\ SameParents
  <2>1. ~IsParent(drv.gen)
    BY <1>5 DEF IsParent
  <2> QED BY <1>0, <1>3, <1>5, <2>1, LineStep, EndsAndHarmless
<1>6. CASE Fork
  <2>1. ~Tagged(drv.gen) /\ drv.pc = "fork"
    BY <1>0, <1>6 DEF Fork, At, Unfinished
  <2>2. CASE IsParent(drv.parent)
    <3>1. archive' = archive /\ Goto("proposing")
      BY <1>6, <2>2 DEF Fork
    <3>2. drv'.pc = "proposing" /\ drv'.gen = drv.gen
      BY <1>0, <3>1 DEF Goto, Control, DrvFields
    <3> QED BY <1>3, <1>4, <2>1, <3>1, <3>2 DEF Unfinished, Failing, Tagged
  <2>3. CASE ~IsParent(drv.parent)
    BY <1>1, <1>5, <1>6, <2>1, <2>3 DEF Fork
  <2> QED BY <2>2, <2>3
<1>7. CASE Propose
  <2>1. ~Tagged(drv.gen) /\ archive' = archive
    BY <1>0, <1>7 DEF Propose, At, Unfinished
  <2>2. drv'.pc = "guardrail" /\ drv'.gen = drv.gen
    BY <1>0, <1>7 DEF Propose, Goto, Control, DrvFields
  <2> QED BY <1>3, <1>4, <2>1, <2>2 DEF Unfinished, Failing, Tagged
<1>8. CASE StageFails \/ \E status \in Rejections : RejectProposal(status)
  <2>1. ~Tagged(drv.gen)
    BY <1>0, <1>8 DEF StageFails, RejectProposal, At, Unfinished
  <2> QED BY <1>1, <1>5, <1>8, <2>1 DEF StageFails, RejectProposal
<1>9. CASE AdmitProposal
  BY <1>0, <1>2, <1>4, <1>9 DEF AdmitProposal, Goto, durable, Control, DrvFields
<1>10. CASE CommitSnapshot
  <2>1. trees[drv.gen].work \in {"clean", "dirty"}
    BY <1>10 DEF OnceInv, DriverInv, Lineage, Tree, Working, CommitSnapshot, At
  <2>2. \/ archive' = archive /\ (drv' = Idle \/ Goto("committed"))
        \/ /\ ~Tagged(drv.gen) /\ drv' = [drv EXCEPT !.pc = "leave", !.next = "slots"]
           /\ AppendEvent(drv.gen, Discarded(drv.parent, "no_proposal"))
    BY <1>10, <2>1 DEF CommitSnapshot, CommitRefused
  <2>3. CASE archive' = archive /\ drv' = Idle
    BY <1>4, <2>3, IdleSettling, SettlingUnfinished
  <2>4. CASE archive' = archive /\ Goto("committed")
    <3>1. drv'.pc = "committed"
      BY <1>0, <2>4 DEF Goto, Control, DrvFields
    <3> QED BY <1>2, <1>4, <2>4, <3>1
  <2>5. CASE /\ ~Tagged(drv.gen) /\ drv' = [drv EXCEPT !.pc = "leave", !.next = "slots"]
             /\ AppendEvent(drv.gen, Discarded(drv.parent, "no_proposal"))
    <3>1. drv'.pc = "leave"
      BY <1>0, <2>5 DEF Control, DrvFields
    <3>2. "no_proposal" \in Rejections
      BY DEF Rejections
    <3> QED BY <1>2, <1>5, <2>5, <3>1, <3>2
  <2> QED BY <2>2, <2>3, <2>4, <2>5
<1>11. CASE CommitLine
  <2>1. drv'.pc = "leave"
    BY <1>0, <1>11 DEF CommitLine, Control, DrvFields
  <2>2. SpentOnce' /\ SameParents
    BY <1>0, <1>3, <1>11, LineStep, EndsAndHarmless DEF CommitLine
  <2> QED BY <1>2, <2>1, <2>2
<1>12. CASE Leave
  <2>1. archive' = archive
    BY <1>12 DEF Leave
  <2>2. drv' = [drv EXCEPT !.pc = "evaluate"] \/ drv' = Done
    BY <1>12 DEF Leave
  <2>3. CASE drv' = [drv EXCEPT !.pc = "evaluate"]
    <3>1. drv'.pc = "evaluate"
      BY <1>0, <2>3 DEF Control, DrvFields
    <3> QED BY <1>2, <1>4, <2>1, <3>1
  <2> QED BY <1>4, <2>1, <2>2, <2>3, IdleSettling, SettlingUnfinished
<1> QED BY <1>6, <1>7, <1>8, <1>9, <1>10, <1>11, <1>12

\* The evaluation of a generation, its gate and its record.
LEMMA EvaluationOnce ==
  ASSUME OnceInv,
         \/ EvalChild \/ GateDecides \/ GateFails \/ RecordTerminal \/ Audit \/ FinishRun
  PROVE  Unfinished' /\ SpentOnce' /\ \A g \in Genid : IsParent(g) => IsParent(g)'
<1>0. Control /\ SpentOnce /\ Unfinished /\ Ledgers /\ drv.parent \in Named /\ NoRetry
  BY DEF OnceInv, DriverInv, Naming
<1>1. commits' = commits
  BY DEF EvalChild, GateDecides, GateFails, RecordTerminal, Audit, FinishRun, Begin, durable
<1>2. ASSUME archive' = archive PROVE SpentOnce' /\ SameParents
  BY <1>0, <1>1, <1>2, QuietStep
<1>3. ASSUME NEW g \in Genid, NEW e,
             AppendEvent(g, e), e \in Harmless \/ (e \in Ends /\ ~IsParent(g))
      PROVE  SpentOnce' /\ SameParents
  BY <1>0, <1>1, <1>3, LineStep
<1>4. CASE EvalChild
  <2>1. drv.gen \in Genid /\ drv.pc = "evaluate"
    BY <1>4 DEF EvalChild, At, OnceInv, DriverInv, Naming, Handles
  <2>2. PICK g : g = drv.gen
    OBVIOUS
  <2>3. ~Skipped(g) => ~Evaluated(g)
    BY <1>0 DEF Skipped, NoRetry
  <2>4. ~Evaluated(g) => ~IsParent(g)
    BY DEF Evaluated, IsParent, IsParentRecord, Outcomes
  <2>5. \/ archive[g].awaiting /\ drv' = [drv EXCEPT !.pc = "gate"] /\ archive' = archive
        \/ (drv' = Idle \/ drv' = Done) /\ archive' = archive
        \/ ~Evaluated(g) /\ \E p \in EvaluationParents(g) : Begin(g, "candidate", p)
        \/ /\ ~Evaluated(g) /\ drv' = Done
           /\ \E p \in EvaluationParents(g) : AppendEvent(g, Discarded(p, "invalid_proposal"))
    BY <1>4, <2>2, <2>3 DEF EvalChild, durable
  <2>6. CASE archive[g].awaiting /\ drv' = [drv EXCEPT !.pc = "gate"] /\ archive' = archive
    <3>1. drv'.pc = "gate" /\ drv'.gen = g
      BY <1>0, <2>2, <2>6 DEF Control, DrvFields
    <3>2. Unfinished'
      BY <2>6, <3>1 DEF Unfinished, Failing
    <3> QED BY <1>2, <2>6, <3>2 DEF SameParents
  <2>7. CASE (drv' = Idle \/ drv' = Done) /\ archive' = archive
    BY <1>2, <2>7, IdleSettling, SettlingUnfinished DEF SameParents
  <2>8. CASE ~Evaluated(g) /\ \E p \in EvaluationParents(g) : Begin(g, "candidate", p)
    <3>1. PICK p : Begin(g, "candidate", p)
      BY <2>8
    <3>2. Unfinished' /\ archive' = archive
      BY <1>0, <2>8, <3>1, BeginUnfinished DEF Begin
    <3> QED BY <1>2, <3>2 DEF SameParents
  <2>9. CASE /\ ~Evaluated(g) /\ drv' = Done
             /\ \E p \in EvaluationParents(g) : AppendEvent(g, Discarded(p, "invalid_proposal"))
    <3>1. PICK p \in Named : AppendEvent(g, Discarded(p, "invalid_proposal"))
      BY <1>0, <2>1, <2>2, <2>9, EvaluationParentsNamed
    <3>2. Discarded(p, "invalid_proposal") \in Ends
      BY EndsAndHarmless DEF Rejections
    <3>3. SpentOnce' /\ SameParents
      BY <1>3, <2>1, <2>2, <2>4, <2>9, <3>1, <3>2
    <3> QED BY <2>9, <3>3, IdleSettling, SettlingUnfinished DEF SameParents
  <2> QED BY <2>5, <2>6, <2>7, <2>8, <2>9
<1>5. CASE GateDecides \/ GateFails
  <2>1. ThenRecord(drv.gen, AfterGate)
    BY <1>5 DEF GateDecides, GateFails
  <2>2. drv'.pc = "record" /\ drv'.next = AfterGate
    BY <1>0, <2>1 DEF ThenRecord, Control, DrvFields
  <2>3. Unfinished'
    BY <2>2, SettlingUnfinished DEF Settling, AfterGate
  <2>4. CASE GateDecides
    BY <2>3, <2>4, GateStep
  <2>5. CASE GateFails
    <3>1. drv.gen \in Genid /\ archive[drv.gen].awaiting
      BY <1>0, <2>5 DEF GateFails, At, OnceInv, DriverInv, Naming, Handles, Unfinished
    <3>2. ~IsParent(drv.gen)
      BY <1>0, <3>1, PendingAreNoParents DEF Pending
    <3>3. AppendEvent(drv.gen, OperatorFailed(drv.parent))
      BY <2>5 DEF GateFails
    <3>4. OperatorFailed(drv.parent) \in Ends
      BY <1>0, EndsAndHarmless
    <3>5. SpentOnce' /\ SameParents
      BY <1>3, <3>1, <3>2, <3>3, <3>4
    <3> QED BY <2>3, <3>5 DEF SameParents
  <2> QED BY <1>5, <2>4, <2>5
<1>6. CASE RecordTerminal
  <2>1. SpentOnce' /\ SameParents
    <3>1. archive' = archive \/ AppendEvent(drv.gen, RecordEvent) \/ AppendEvent(drv.gen, RecordError)
      BY <1>6 DEF RecordTerminal
    <3>2. RecordEvent \in Harmless /\ RecordError \in Harmless
      BY DEF Harmless
    <3> QED BY <1>0, <1>1, <1>2, <3>1, <3>2, LineStep
  <2>2. drv' = Idle \/ drv' = AfterRecord
    BY <1>6 DEF RecordTerminal
  <2>3. CASE drv' = Idle
    BY <2>1, <2>3, IdleSettling, SettlingUnfinished DEF SameParents
  <2>4. CASE drv' = AfterRecord /\ drv.next = "selectFailed"
    <3>1. drv' = [drv EXCEPT !.pc = "selectFailed"]
      BY <2>4 DEF AfterRecord
    <3>2. drv'.pc = "selectFailed" /\ drv'.todo = drv.todo /\ drv'.round = drv.round
      BY <1>0, <3>1 DEF Control, DrvFields
    <3>3. drv.todo # {} /\ drv.todo \subseteq Slots(drv.round) \ ValidParents
      BY <1>0, <1>6, <2>4 DEF RecordTerminal, At, Unfinished, Failing
    <3> QED BY <2>1, <3>2, <3>3, FailingUnfinished DEF SameParents
  <2>5. CASE drv' = AfterRecord /\ drv.next # "selectFailed"
    <3>1. drv.next \in {"leave", "audit", "done", "slots"}
      BY <1>0, <1>6, <2>5 DEF RecordTerminal, At, Control
    <3>2. CASE drv.next \in {"leave", "audit"}
      <4>1. drv' = [drv EXCEPT !.pc = drv.next]
        BY <2>5, <3>2 DEF AfterRecord
      <4>2. drv'.pc \in {"leave", "audit"}
        BY <1>0, <3>2, <4>1 DEF Control, DrvFields
      <4> QED BY <2>1, <4>2, SettlingUnfinished DEF Settling, SameParents
    <3>3. CASE drv.next = "done"
      <4>1. drv' = Done
        BY <2>5, <3>3 DEF AfterRecord
      <4> QED BY <2>1, <4>1, IdleSettling, SettlingUnfinished DEF SameParents
    <3>4. CASE drv.next = "slots"
      <4>1. drv'.pc = "slots"
        BY <2>5, <3>4 DEF AfterRecord, Idle
      <4> QED BY <2>1, <4>1, SettlingUnfinished DEF Settling, SameParents
    <3> QED BY <3>1, <3>2, <3>3, <3>4
  <2> QED BY <2>2, <2>3, <2>4, <2>5
<1>7. CASE Audit
  <2>1. archive' = archive \/ AppendEvent(drv.gen, AuditEvent)
    BY <1>7 DEF Audit
  <2>2. AuditEvent \in Harmless /\ drv' = Done
    BY <1>7 DEF Harmless, Audit
  <2>3. SpentOnce' /\ SameParents
    BY <1>0, <1>1, <1>2, <2>1, <2>2, LineStep
  <2> QED BY <2>2, <2>3, IdleSettling, SettlingUnfinished DEF SameParents
<1>8. CASE FinishRun
  <2>1. archive' = archive
    BY <1>8 DEF FinishRun, Begin, durable
  <2>2. drv' = Idle \/ \E best : Begin(best, "anchor", Get(Row(best), "parent"))
    BY <1>8 DEF FinishRun
  <2>3. Unfinished'
    BY <1>0, <2>2, IdleSettling, SettlingUnfinished, BeginUnfinished
  <2> QED BY <1>2, <2>1, <2>3 DEF SameParents
<1> QED BY <1>4, <1>5, <1>6, <1>7, <1>8

LEMMA ResultFacts ==
  ASSUME NEW r \in Results PROVE r[1] \in Outcomes /\ r[2] \in Scored
BY DriverAssumption DEF Results, Scored, Outcomes

LEMMA FinishEvaluationOnce ==
  ASSUME OnceInv, NEW outcome \in Outcomes, NEW score \in Scored,
         FinishEvaluation(outcome, score)
  PROVE  Unfinished' /\ SpentOnce' /\ \A g \in Genid : IsParent(g) => IsParent(g)'
<1>0. Control
  BY DEF OnceInv, DriverInv
<1>1. PICK receipt \in BOOLEAN : receipt = TRUE
  OBVIOUS
<1>2. Stamp(outcome, score, receipt) /\ drv.pc = "evaluating"
  BY <1>1 DEF FinishEvaluation, At
<1>3. /\ SpentOnce'
      /\ \A g \in Genid : IsParent(g) => IsParent(g)'
      /\ drv.purpose = "candidate" /\ drv.gen # Genesis /\ outcome = "benchmark_complete" =>
           archive'[drv.gen].awaiting
  BY <1>2, StampStep
<1>4. PICK complete \in BOOLEAN : complete <=> outcome = "benchmark_complete"
  OBVIOUS
<1>5. drv' = AfterEvaluation(complete)
  BY <1>4 DEF FinishEvaluation, AfterEvaluation
<1>6. drv.purpose \in Purposes
  BY <1>0, <1>2 DEF Control
<1> DEFINE cleared == [drv EXCEPT !.purpose = None, !.label = None]
<1>7. \/ drv' = Idle \/ drv' = [cleared EXCEPT !.pc = "anchor"]
      \/ drv' = [cleared EXCEPT !.pc = "round", !.round = 1] \/ drv' = NextSlot
      \/ /\ complete /\ drv.verb = "run" /\ drv.purpose = "candidate"
         /\ drv' = [cleared EXCEPT !.pc = "gate"]
  BY <1>5, <1>6 DEF AfterEvaluation, Purposes
<1>8. CASE /\ complete /\ drv.verb = "run" /\ drv.purpose = "candidate"
           /\ drv' = [cleared EXCEPT !.pc = "gate"]
  <2>1. drv'.pc = "gate" /\ drv'.gen = drv.gen
    BY <1>0, <1>8 DEF Control, DrvFields
  <2>2. drv.gen \in Candidates
    BY <1>0, <1>2, <1>8, SlotCandidates DEF Handles
  <2>3. drv.gen # Genesis
    BY <2>2 DEF Candidates, Genesis
  <2> QED BY <1>3, <1>4, <1>8, <2>1, <2>3 DEF Unfinished, Failing
<1>9. CASE drv' = [cleared EXCEPT !.pc = "anchor"] \/ drv' = [cleared EXCEPT !.pc = "round", !.round = 1]
  <2>1. drv'.pc \in {"anchor", "round"}
    BY <1>0, <1>9 DEF Control, DrvFields
  <2> QED BY <1>3, <2>1, SettlingUnfinished DEF Settling
<1> QED BY <1>3, <1>7, <1>8, <1>9, IdleSettling, SettlingUnfinished

------------------------------------------------------------------------------
(* Without retries, every step keeps this. *)

\* A step of a run keeps the verb, or ends the verb, or goes on with the run.
RunningOn == drv'.verb \in {drv.verb, "none", "run"}

LEMMA EndOfHandling ==
  ASSUME drv' = Idle \/ drv' = NextSlot \/ drv' = Done PROVE RunningOn
<1>1. drv' = Idle \/ drv' = NextSlot
  BY DEF Done
<1>2. drv' = Idle => drv'.verb = "none"
  BY DEF Idle
<1>3. drv' = NextSlot => drv'.verb = "run"
  BY DEF NextSlot, Idle
<1> QED BY <1>1, <1>2, <1>3 DEF RunningOn

LEMMA RunStepRunsOn ==
  ASSUME Control, Lineage, RunStep PROVE RunningOn
<1>1. ASSUME NEW g, NEW purpose, NEW label, Begin(g, purpose, label) PROVE RunningOn
  BY <1>1 DEF Begin, Control, DrvFields, RunningOn
<1>2. ASSUME NEW pc, Goto(pc) PROVE RunningOn
  BY <1>2 DEF Goto, Control, DrvFields, RunningOn
<1>3. ASSUME NEW ref, NEW next, ThenRecord(ref, next) PROVE RunningOn
  BY <1>3 DEF ThenRecord, Control, DrvFields, RunningOn
<1>4. CASE EnsureGenesis
  BY <1>1, <1>2, <1>4, EndOfHandling DEF EnsureGenesis
<1>5. CASE EnsureGenesisAnchor
  <2>1. CASE drv' = [drv EXCEPT !.pc = "round", !.round = 1]
    BY <2>1 DEF Control, DrvFields, RunningOn
  <2> QED BY <1>1, <1>5, <2>1 DEF EnsureGenesisAnchor
<1>6. CASE Round
  <2>1. ASSUME NEW pc, NEW r, drv' = [drv EXCEPT !.pc = pc, !.round = r] PROVE RunningOn
    BY <2>1 DEF Control, DrvFields, RunningOn
  <2>2. CASE drv' = [drv EXCEPT !.pc = "final"] \/ drv' = [drv EXCEPT !.round = @ + 1]
             \/ drv' = [drv EXCEPT !.pc = "select"]
    BY <2>2 DEF Control, DrvFields, RunningOn
  <2>3. drv.round \in Nat
    BY DEF Control
  <2>4. drv.round > MaxGen \/ drv.round <= MaxGen
    BY <2>3, DriverAssumption
  <2> QED BY <1>6, <2>2, <2>4 DEF Round
<1>7. CASE \E ps \in Answers : Select(ps)
  <2>1. PICK pc, todo, selected :
          drv' = [drv EXCEPT !.pc = pc, !.slot = 0, !.todo = todo, !.selected = selected]
    BY <1>7 DEF Select
  <2> QED BY <2>1 DEF Control, DrvFields, RunningOn
<1>8. CASE SelectFails \/ FailUnselected
  BY <1>8 DEF SelectFails, FailUnselected, Control, DrvFields, RunningOn
<1>9. CASE TakeSlot
  <2> DEFINE g == Slot(drv.round, drv.slot)
             parent == IF g \in DOMAIN drv.selected THEN drv.selected[g]
                       ELSE IF Tagged(g) THEN Get(Row(g), "parent") ELSE None
             fresh == ~Tagged(g)
             pc == IF ~Tagged(g) THEN "fork" ELSE IF ~Evaluated(g) THEN "evaluate" ELSE "gate"
  <2>1. drv.slot = Children \/ drv.slot < Children
    BY <1>9, DriverAssumption DEF TakeSlot, Control, At
  <2>2. CASE drv' = [Idle EXCEPT !.pc = "round", !.verb = "run", !.round = drv.round + 1]
    BY <2>2 DEF Idle, RunningOn
  <2>3. CASE drv' = [drv EXCEPT !.gen = g, !.parent = parent, !.fresh = fresh, !.pc = pc]
    <3> HIDE DEF g, parent, fresh, pc
    <3> QED BY <2>3 DEF Control, DrvFields, RunningOn
  <2> QED BY <1>9, <2>1, <2>2, <2>3, EndOfHandling DEF TakeSlot
<1>10. CASE \/ Fork \/ Propose \/ StageFails \/ AdmitProposal
            \/ \E status \in Rejections : RejectProposal(status)
            \/ CreateTag \/ GateDecides \/ GateFails
  BY <1>2, <1>3, <1>10 DEF Fork, Propose, StageFails, AdmitProposal, RejectProposal, CreateTag,
                           GateDecides, GateFails
<1>11. CASE CommitSnapshot \/ CommitLine
  <2>1. trees[drv.gen].work \in {"clean", "dirty"} \/ CommitLine
    BY <1>11 DEF Lineage, Tree, Working, CommitSnapshot, At
  <2>2. \/ drv' = Idle \/ Goto("committed")
        \/ \E next : drv' = [drv EXCEPT !.pc = "leave", !.next = next]
    BY <1>11, <2>1 DEF CommitSnapshot, CommitLine
  <2>3. CASE \E next : drv' = [drv EXCEPT !.pc = "leave", !.next = next]
    BY <2>3 DEF Control, DrvFields, RunningOn
  <2> QED BY <1>2, <2>2, <2>3, EndOfHandling
<1>12. CASE Leave \/ EvalChild
  <2>1. \/ drv' = Idle \/ drv' = Done \/ \E pc : drv' = [drv EXCEPT !.pc = pc]
        \/ \E p : Begin(drv.gen, "candidate", p)
    BY <1>12 DEF Leave, EvalChild
  <2> QED BY <1>1, <1>2, <2>1, EndOfHandling DEF Goto
<1>13. CASE \E r \in Results : FinishEvaluation(r[1], r[2])
  <2>1. PICK complete : drv' = AfterEvaluation(complete) /\ drv.pc = "evaluating"
    BY <1>13 DEF FinishEvaluation, At
  <2>2. \/ drv' = Idle \/ drv' = NextSlot
        \/ \E pc : drv' = [[drv EXCEPT !.purpose = None, !.label = None] EXCEPT !.pc = pc]
        \/ \E pc, r : drv' = [[drv EXCEPT !.purpose = None, !.label = None]
                                EXCEPT !.pc = pc, !.round = r]
    BY <2>1 DEF AfterEvaluation, Control, Purposes
  <2>3. CASE \E pc : drv' = [[drv EXCEPT !.purpose = None, !.label = None] EXCEPT !.pc = pc]
    BY <2>3 DEF Control, DrvFields, RunningOn
  <2>4. CASE \E pc, r : drv' = [[drv EXCEPT !.purpose = None, !.label = None]
                                  EXCEPT !.pc = pc, !.round = r]
    BY <2>4 DEF Control, DrvFields, RunningOn
  <2> QED BY <2>2, <2>3, <2>4, EndOfHandling
<1>14. CASE RecordTerminal
  <2>1. drv' = Idle \/ drv' = AfterRecord
    BY <1>14 DEF RecordTerminal
  <2>2. drv.next \in {"leave", "audit", "done", "selectFailed", "slots"}
    BY <1>14 DEF RecordTerminal, At, Control
  <2>3. CASE drv' = AfterRecord
    <3>1. CASE drv.next = "slots"
      <4>1. drv' = [Idle EXCEPT !.pc = "slots", !.verb = "run", !.round = drv.round,
                                !.selected = drv.selected]
        BY <2>3, <3>1 DEF AfterRecord
      <4> QED BY <4>1 DEF Idle, RunningOn
    <3>2. CASE drv.next \in {"selectFailed", "leave", "audit"}
      <4>1. Goto(drv.next)
        BY <2>3, <3>2 DEF AfterRecord, Goto
      <4> QED BY <1>2, <4>1
    <3>3. CASE drv.next = "done"
      BY <2>3, <3>3, EndOfHandling DEF AfterRecord
    <3> QED BY <2>2, <3>1, <3>2, <3>3
  <2> QED BY <2>1, <2>3, EndOfHandling
<1>15. CASE Audit
  BY <1>15, EndOfHandling DEF Audit
<1>16. CASE FinishRun
  BY <1>1, <1>16, EndOfHandling DEF FinishRun
<1> QED BY <1>4, <1>5, <1>6, <1>7, <1>8, <1>9, <1>10, <1>11, <1>12, <1>13, <1>14, <1>15, <1>16
        DEF RunStep

LEMMA SpendingKept ==
  ASSUME NoRetry, budget' = budget \/ Spend("faults") \/ Spend("failures"),
         drv'.verb # "retry"
  PROVE  NoRetry'
BY DEF NoRetry, Spend

LEMMA RunSpending ==
  ASSUME RunStep PROVE budget' = budget \/ Spend("failures")
<1>1. ASSUME NEW ps, Select(ps) PROVE budget' = budget \/ Spend("failures")
  BY <1>1 DEF Select
<1>2. ASSUME NEW r, FinishEvaluation(r[1], r[2]) PROVE budget' = budget \/ Spend("failures")
  BY <1>2 DEF FinishEvaluation
<1>3. CASE \/ EnsureGenesis \/ EnsureGenesisAnchor \/ Round \/ SelectFails \/ FailUnselected
           \/ TakeSlot \/ RecordTerminal \/ Audit \/ FinishRun
  BY <1>3 DEF EnsureGenesis, EnsureGenesisAnchor, Round, SelectFails, FailUnselected, TakeSlot,
     RecordTerminal, Audit, FinishRun
<1>4. CASE \/ Fork \/ Propose \/ StageFails \/ AdmitProposal
           \/ \E status \in Rejections : RejectProposal(status)
           \/ CommitSnapshot \/ CreateTag \/ CommitLine \/ Leave \/ EvalChild
           \/ GateDecides \/ GateFails
  BY <1>4 DEF Fork, Propose, StageFails, AdmitProposal, RejectProposal, CommitSnapshot,
     CreateTag, CommitLine, Leave, EvalChild, GateDecides, GateFails
<1> QED BY <1>1, <1>2, <1>3, <1>4 DEF RunStep

ParentsKept == \A g \in Genid : IsParent(g) => IsParent(g)'

LEMMA TagOnce ==
  ASSUME OnceInv, CreateTag PROVE Unfinished' /\ SpentOnce' /\ ParentsKept
<1>0. Control /\ SpentOnce
  BY DEF OnceInv, DriverInv
<1>1. archive' = archive /\ Goto("tagged") /\ DOMAIN commits \subseteq DOMAIN commits'
  BY DEF CreateTag
<1>2. drv'.pc = "tagged"
  BY <1>0, <1>1 DEF Goto, Control, DrvFields
<1>3. Unfinished'
  BY <1>2, SettlingUnfinished DEF Settling
<1>4. SpentOnce'
  BY <1>0, <1>1 DEF SpentOnce, Spent, CandidateLines
<1>5. ParentsKept
  BY <1>1 DEF ParentsKept, IsParent, Tagged, Row
<1> QED BY <1>3, <1>4, <1>5

LEMMA RunOnce ==
  ASSUME OnceInv, RunStep PROVE Unfinished' /\ SpentOnce' /\ ParentsKept
<1>0. SpentOnce
  BY DEF OnceInv
<1>1. ASSUME SameParents PROVE ParentsKept
  BY <1>1 DEF SameParents, ParentsKept
<1>2. CASE \/ EnsureGenesis \/ EnsureGenesisAnchor \/ Round
           \/ \E ps \in Answers : Select(ps)
           \/ SelectFails \/ TakeSlot
  <2>1. archive' = archive /\ commits' = commits
    BY <1>2 DEF EnsureGenesis, EnsureGenesisAnchor, Round, Select, SelectFails, TakeSlot, Begin,
                durable
  <2> QED BY <1>0, <1>1, <1>2, <2>1, QuietStep, LoopUnfinished
<1>3. CASE FailUnselected
  BY <1>1, <1>3, FailUnselectedOnce
<1>4. CASE \/ Fork \/ Propose \/ StageFails \/ AdmitProposal
           \/ \E status \in Rejections : RejectProposal(status)
           \/ CommitSnapshot \/ CommitLine \/ Leave
  BY <1>1, <1>4, ProposalOnce
<1>5. CASE CreateTag
  BY <1>5, TagOnce
<1>6. CASE EvalChild \/ GateDecides \/ GateFails \/ RecordTerminal \/ Audit \/ FinishRun
  BY <1>6, EvaluationOnce DEF ParentsKept
<1>7. CASE \E r \in Results : FinishEvaluation(r[1], r[2])
  <2>1. PICK r \in Results : FinishEvaluation(r[1], r[2])
    BY <1>7
  <2>2. PICK outcome, score : outcome = r[1] /\ score = r[2]
    OBVIOUS
  <2>3. outcome \in Outcomes /\ score \in Scored /\ FinishEvaluation(outcome, score)
    BY <2>1, <2>2, ResultFacts
  <2> QED BY <2>3, FinishEvaluationOnce DEF ParentsKept
<1> QED BY <1>2, <1>3, <1>4, <1>5, <1>6, <1>7 DEF RunStep

LEMMA VerbOnce ==
  ASSUME MaxRetries = 0, OnceInv, VerbStep
  PROVE  Unfinished' /\ SpentOnce' /\ ParentsKept /\ NoRetry'
<1>0. SpentOnce /\ NoRetry /\ Unfinished /\ Ledgers /\ Control
  BY DEF OnceInv, DriverInv
<1>1. ASSUME SameParents PROVE ParentsKept
  BY <1>1 DEF SameParents, ParentsKept
<1>2. ASSUME archive' = archive, commits' = commits PROVE SpentOnce' /\ ParentsKept
  BY <1>0, <1>1, <1>2, QuietStep
<1>3. CASE \/ \E g \in Candidates, p \in Genid : AgentFork(g, p)
           \/ \E g \in Candidates : AgentEdit(g) \/ UserResetsTree(g)
           \/ Repair \/ UserDeletesStrays
  <2>1. archive' = archive /\ commits' = commits /\ drv' = drv /\ budget' = budget
    BY <1>3 DEF AgentFork, AgentEdit, UserResetsTree, Repair, UserDeletesStrays
  <2>2. drv.pc = "idle"
    BY <1>3 DEF AgentFork, AgentEdit, UserResetsTree, Repair, UserDeletesStrays, Idling
  <2>3. Unfinished'
    BY <2>1, <2>2, SettlingUnfinished DEF Settling
  <2>4. NoRetry'
    BY <1>0, <2>1 DEF NoRetry
  <2> QED BY <1>2, <2>1, <2>3, <2>4
<1>4. CASE StartRun \/ (\E g \in Candidates : AgentCommit(g)) \/ (\E g \in Genid : AgentEval(g))
  <2>1. archive' = archive /\ commits' = commits /\ budget' = budget
    BY <1>4 DEF StartRun, AgentCommit, AgentEval, durable
  <2>2. drv'.pc \in {"genesis", "commit", "evaluate"} /\ drv'.verb \in {"run", "agent", "eval"}
    BY <1>4, ZenonT(60) DEF StartRun, AgentCommit, AgentEval, Idle
  <2>3. Unfinished'
    BY <2>2, SettlingUnfinished DEF Settling
  <2>4. NoRetry'
    BY <1>0, <2>1, <2>2 DEF NoRetry
  <2> QED BY <1>2, <2>1, <2>3, <2>4
<1>5. ASSUME NEW g \in Genid, Finalize(g) PROVE Unfinished' /\ SpentOnce' /\ ParentsKept /\ NoRetry'
  <2>1. archive' = archive /\ commits' = commits /\ budget' = budget /\ archive[g].awaiting
    BY <1>5 DEF Finalize, durable
  <2>2. drv'.pc = "gate" /\ drv'.verb = "finalize" /\ drv'.gen = g
    BY <1>5 DEF Finalize, Idle
  <2>3. Unfinished'
    BY <2>1, <2>2 DEF Unfinished, Failing
  <2>4. NoRetry'
    BY <1>0, <2>1, <2>2 DEF NoRetry
  <2> QED BY <1>2, <2>1, <2>3, <2>4
<1>6. ASSUME NEW g \in Genid, SealChampion(g)
      PROVE  Unfinished' /\ SpentOnce' /\ ParentsKept /\ NoRetry'
  <2>1. archive' = archive /\ commits' = commits /\ budget' = budget
    BY <1>6 DEF SealChampion
  <2>2. drv'.pc = "evaluating" /\ drv'.verb = "seal" /\ drv'.purpose = "anchor"
    BY <1>6 DEF SealChampion, Idle
  <2>3. Unfinished'
    BY <2>2 DEF Unfinished, Failing
  <2>4. NoRetry'
    BY <1>0, <2>1, <2>2 DEF NoRetry
  <2> QED BY <1>2, <2>1, <2>3, <2>4
<1>7. ASSUME NEW g \in Genid, Annotate(g)
      PROVE  Unfinished' /\ SpentOnce' /\ ParentsKept /\ NoRetry'
  <2>1. /\ AppendEvent(g, AuditEvent) /\ commits' = commits /\ drv' = drv /\ budget' = budget
        /\ drv.pc = "idle"
    BY <1>7 DEF Annotate, Idling
  <2>2. AuditEvent \in Harmless
    BY DEF Harmless
  <2>3. SpentOnce' /\ SameParents
    BY <1>0, <2>1, <2>2, LineStep
  <2>4. Unfinished'
    BY <2>1, SettlingUnfinished DEF Settling
  <2>5. NoRetry'
    BY <1>0, <2>1 DEF NoRetry
  <2> QED BY <1>1, <2>3, <2>4, <2>5
<1>8. ASSUME NEW g \in Genid, Retry(g) PROVE FALSE
  BY <1>0, <1>8 DEF Retry, NoRetry
<1> QED BY <1>3, <1>4, <1>5, <1>6, <1>7, <1>8 DEF VerbStep

LEMMA FaultOnce ==
  ASSUME OnceInv, FaultStep
  PROVE  Unfinished' /\ SpentOnce' /\ ParentsKept /\ NoRetry'
<1>0. SpentOnce /\ NoRetry
  BY DEF OnceInv
<1>1. drv' = Idle /\ Spend("faults")
  BY DEF FaultStep, Kill, KillInStamp, Interrupt
<1>2. Unfinished'
  BY <1>1, IdleSettling, SettlingUnfinished
<1>3. NoRetry'
  <2>1. drv'.verb = "none"
    BY <1>1 DEF Idle
  <2> QED BY <1>0, <1>1, <2>1, SpendingKept
<1>4. ASSUME archive' = archive, commits' = commits PROVE SpentOnce' /\ ParentsKept
  BY <1>0, <1>4, QuietStep DEF SameParents, ParentsKept
<1>5. ASSUME drv.pc = "evaluating", NEW outcome \in Outcomes, NEW score \in Scored,
             NEW receipt \in BOOLEAN, Stamp(outcome, score, receipt)
      PROVE  SpentOnce' /\ ParentsKept
  BY <1>5, StampStep DEF ParentsKept
<1>6. CASE Kill
  BY <1>2, <1>3, <1>4, <1>6 DEF Kill
<1>7. CASE \E r \in Results : KillInStamp(r[1], r[2])
  <2>1. PICK r \in Results : KillInStamp(r[1], r[2])
    BY <1>7
  <2>2. PICK outcome, score : outcome = r[1] /\ score = r[2]
    OBVIOUS
  <2>3. PICK receipt \in BOOLEAN : receipt = FALSE
    OBVIOUS
  <2>4. outcome \in Outcomes /\ score \in Scored
    BY <2>2, ResultFacts
  <2>5. Stamp(outcome, score, receipt) /\ drv.pc = "evaluating"
    BY <2>1, <2>2, <2>3 DEF KillInStamp, At
  <2> QED BY <1>2, <1>3, <1>5, <2>3, <2>4, <2>5
<1>8. CASE Interrupt
  <2>1. CASE drv.pc = "evaluating"
    <3>1. PICK outcome, score : outcome = "cancelled" /\ score = None
      OBVIOUS
    <3>2. PICK receipt \in BOOLEAN : receipt = TRUE
      OBVIOUS
    <3>3. outcome \in Outcomes /\ score \in Scored
      BY <3>1 DEF Outcomes, Scored
    <3>4. Stamp(outcome, score, receipt)
      BY <1>8, <2>1, <3>1, <3>2 DEF Interrupt, At
    <3> QED BY <1>2, <1>3, <1>5, <2>1, <3>2, <3>3, <3>4
  <2>2. CASE drv.pc # "evaluating"
    BY <1>2, <1>3, <1>4, <1>8, <2>2 DEF Interrupt, At
  <2> QED BY <2>1, <2>2
<1> QED BY <1>6, <1>7, <1>8 DEF FaultStep

LEMMA OnceInvKept ==
  ASSUME MaxRetries = 0, OnceInv, [Next]_vars
  PROVE  OnceInv' /\ ParentsKept
<1>1. DriverInv'
  BY DriverInvKept DEF OnceInv
<1>2. CASE UNCHANGED vars
  <2>1. /\ archive' = archive /\ commits' = commits /\ drv' = drv /\ budget' = budget
    BY <1>2 DEF vars
  <2>2. SpentOnce' /\ ParentsKept
    BY <2>1, QuietStep DEF OnceInv, SameParents, ParentsKept
  <2>3. Unfinished'
    <3>1. Unfinished
      BY DEF OnceInv
    <3> QED BY <2>1, <3>1 DEF Unfinished, Failing, PendingIn, Pending, Status, Row, Slots,
                              ValidParents, IsParent, Tagged, Evaluated
  <2>4. NoRetry'
    BY <2>1 DEF OnceInv, NoRetry
  <2> QED BY <1>1, <2>2, <2>3, <2>4 DEF OnceInv
<1>3. CASE RunStep
  <2>1. RunningOn
    BY <1>3, RunStepRunsOn DEF OnceInv, DriverInv
  <2>2. drv'.verb # "retry"
    BY <2>1 DEF RunningOn, OnceInv, NoRetry
  <2>3. NoRetry'
    BY <1>3, <2>2, RunSpending, SpendingKept DEF OnceInv
  <2> QED BY <1>1, <1>3, <2>3, RunOnce DEF OnceInv
<1>4. CASE VerbStep
  BY <1>1, <1>4, VerbOnce DEF OnceInv
<1>5. CASE FaultStep
  BY <1>1, <1>5, FaultOnce DEF OnceInv
<1> QED BY <1>2, <1>3, <1>4, <1>5 DEF Next

LEMMA InitOnceInv == Init => OnceInv
<1> SUFFICES ASSUME Init PROVE OnceInv
  OBVIOUS
<1>1. DriverInv
  BY InitDriverInv
<1>2. NoRetry /\ Unfinished
  <2>1. drv.pc = "idle" /\ drv.verb = "none" /\ drv.next = "idle"
    BY DEF Init, Idle
  <2>2. budget = [faults |-> 0, failures |-> 0, retries |-> 0]
    BY DEF Init
  <2> QED BY <2>1, <2>2 DEF NoRetry, Unfinished, Failing
<1>3. PICK m : m = Empty
  OBVIOUS
<1>4. /\ DOMAIN m = LedgerFields /\ m.row = << >> /\ m.top = None /\ m.lines = {} /\ ~m.awaiting
  BY <1>3 DEF Empty, LedgerFields
<1>5. \A g : Spent(g, m)
  BY <1>4 DEF Spent, CandidateLines
<1>6. PICK z, e, receipt : z = TRUE /\ e = Scaffold /\ receipt = FALSE
  OBVIOUS
<1>7. PICK l : l = Record(m, z, e, receipt)
  OBVIOUS
<1>8. Plain(e) /\ ~IsGateRecord(e) /\ Get(e, "purpose") = None
  <2>1. Plain(Scaffold)
    BY PlainLines
  <2>2. DOMAIN Scaffold \cap {"purpose"} = {}
    BY DEF Scaffold
  <2> QED BY <1>6, <2>1, <2>2 DEF Get, Scaffold, IsGateRecord
<1>9. Shape(m.row, m.top)
  <2>1. DOMAIN << >> = {}
    OBVIOUS
  <2> QED BY <1>4, <2>1, NoneAssumption DEF Shape, Get
<1>10. l.lines = m.lines \cup {e} /\ (l.awaiting <=> m.awaiting /\ ~IsGateRecord(e))
  <2>1. PICK row, r : row = m.row /\ r = MergeEventFields(row, e)
    OBVIOUS
  <2> QED BY <1>4, <1>7, <1>8, <1>9, <2>1, PlainRecord
<1>11. Spent(Genesis, l)
  <2>1. CandidateLines(l) = {}
    BY <1>4, <1>8, <1>10, NoneAssumption DEF CandidateLines
  <2> QED BY <1>4, <1>10, <2>1 DEF Spent
<1>12. SpentOnce
  <2>1. archive = [g \in Genid |-> IF g = Genesis THEN l ELSE m]
    BY <1>3, <1>6, <1>7 DEF Init
  <2> QED BY <1>5, <1>11, <2>1 DEF SpentOnce
<1> QED BY <1>1, <1>2, <1>12 DEF OnceInv

\* A resume never repeats what was already paid for: when nothing is retried, whatever
\* kills and resumes interleave, the ledger of a candidate holds at most one evaluation.
THEOREM PaidEvaluationsOnce == MaxRetries = 0 => (Spec => []EvaluatedOnce)
<1> SUFFICES ASSUME MaxRetries = 0 PROVE Spec => []EvaluatedOnce
  OBVIOUS
<1>1. OnceInv => EvaluatedOnce
  <2>1. SUFFICES ASSUME OnceInv, NEW g \in Candidates
                 PROVE  Cardinality({e \in archive[g].lines : Get(e, "purpose") = "candidate"}) <= 1
    BY DEF EvaluatedOnce
  <2>2. PICK m : m = archive[g]
    OBVIOUS
  <2>3. \A e, f \in CandidateLines(m) : e = f
    BY <2>1, <2>2 DEF OnceInv, SpentOnce, Spent, Genid
  <2>4. Cardinality(CandidateLines(m)) <= 1
    BY <2>3, AtMostOne
  <2> QED BY <2>2, <2>4 DEF CandidateLines
<1>2. OnceInv /\ [Next]_vars => OnceInv'
  BY OnceInvKept
<1> QED BY <1>1, <1>2, InitOnceInv, PTL DEF Spec

\* Nothing but a retry unmakes a parent: no later evaluation, sealed anchor, failing
\* operator, annotation, kill or resume costs an admitted generation its place.
THEOREM AdmittedStayParents == MaxRetries = 0 => (Spec => ParentStays)
<1> SUFFICES ASSUME MaxRetries = 0 PROVE Spec => ParentStays
  OBVIOUS
<1>1. OnceInv /\ [Next]_vars => OnceInv'
  BY OnceInvKept
<1>2. OnceInv /\ [Next]_vars => [\A g \in ValidParents : IsParent(g)']_vars
  BY OnceInvKept DEF ParentsKept, ValidParents
<1> QED BY <1>1, <1>2, InitOnceInv, PTL DEF Spec, ParentStays

------------------------------------------------------------------------------
(* Without retries a run deals with every generation, and a summary that       *)
(* passes, a resume and select agree.  What the lines of a generation make of  *)
(* its row when it is evaluated once:                                          *)

Ending == Rejections \cup {"operator_failed"}

Verdicts(m) == {e \in m.lines : "reason" \in DOMAIN e}
Endings(m) == {e \in m.lines : Get(e, "status") \in Ending}
Failed(m) == {e \in m.lines : Get(e, "status") = "operator_failed"}

\* Before its evaluation nothing is stamped but what ended a candidate, or what the
\* scaffold of generation zero says.
Unevaluated(g, m) ==
  /\ ~m.awaiting /\ Verdicts(m) = {} /\ Get(m.row, "verdict") # "keep"
  /\ \A e \in m.lines : Get(e, "purpose") \notin {"genesis", "candidate"}
  /\ g = Genesis =>
       /\ DOMAIN m.row \cap Stamped = {"score", "status"}
       /\ Get(m.row, "status") = "pending" /\ Get(m.row, "note") = ScaffoldNote
       /\ Get(m.row, "valid_parent") = FALSE /\ "mutated" \in DOMAIN m.row
  /\ g # Genesis =>
       \/ DOMAIN m.row \cap Stamped = {} /\ Endings(m) = {}
       \/ Get(m.row, "status") \in Ending

\* A complete evaluation shows whole, unless its operator failed afterwards.
Conclusive(row) ==
  /\ Get(row, "selection_eligible") = TRUE
  /\ Get(row, "purpose") \in {"genesis", "candidate"}
  /\ Get(row, "task_set_hash") = "dev"
  /\ \/ Get(row, "status") = "complete" /\ Get(row, "score") # None
     \/ Get(row, "status") = "operator_failed"

\* Only what completed awaits its gate, which has not spoken yet.
Concluded(m) ==
  /\ Get(m.row, "status") \notin Rejections
  /\ Get(m.row, "outcome") = "benchmark_complete" => Conclusive(m.row)
  /\ m.awaiting =>
       /\ Get(m.row, "outcome") = "benchmark_complete"
       /\ Get(m.row, "pending_gate_record") = TRUE
       /\ Verdicts(m) = {}
       /\ Failed(m) # {} => Get(m.row, "status") = "operator_failed"

Orderly(g, m) ==
  /\ m.top = None => Unevaluated(g, m)
  /\ m.top = "dev" => Concluded(m)

LEMMA MergeFacts ==
  ASSUME NEW row, NEW e, NEW r, r = MergeEventFields(row, e)
  PROVE  /\ DOMAIN row \subseteq DOMAIN r /\ DOMAIN r \subseteq DOMAIN row \cup DOMAIN e
         /\ \A k : k \notin DOMAIN e => Get(r, k) = Get(row, k)
         /\ \A k \in DOMAIN e \ (DOMAIN row \cup Reserved \cup {"valid_parent"}) :
              Get(r, k) = e[k]
BY DEF MergeEventFields, Overlay, Only, Get

Overrides(row, e) ==
  Get(row, "pending_gate_record") = TRUE /\ Get(e, "status") = "operator_failed"

\* A plain line changes a stamped status and score only when a pending generation's
\* operator failed, and then both.
LEMMA PlainStatus ==
  ASSUME NEW row, NEW e, Plain(e), "status" \in DOMAIN row, "score" \in DOMAIN row,
         NEW r, r = MergeEventFields(row, e)
  PROVE  /\ Overrides(row, e) => Get(r, "status") = "operator_failed"
         /\ ~Overrides(row, e) =>
              Get(r, "status") = Get(row, "status") /\ Get(r, "score") = Get(row, "score")
<1> DEFINE override == /\ Get(row, "pending_gate_record") = TRUE
                       /\ Get(e, "status") = "operator_failed"
           Protected(k) == /\ k \in Stamped \cap DOMAIN row
                           /\ ~CanReplaceStamped(row, e)
                           /\ ~(override /\ k \in {"status", "score"})
           eligible == IF "selection_eligible" \in DOMAIN e /\ ~Protected("selection_eligible")
                         THEN e["selection_eligible"] ELSE Get(row, "selection_eligible")
           Refused(k) == k = "valid_parent" /\ e[k] = TRUE /\ eligible \notin {None, TRUE}
           ks == {k \in DOMAIN e \ Reserved : ~Protected(k) /\ ~Refused(k)}
<1>1. r = Overlay(row, Only(e, ks))
  BY DEF MergeEventFields
<1>2. ~CanReplaceStamped(row, e)
  BY NoneAssumption DEF CanReplaceStamped, Plain, Get
<1>3. override => "status" \in ks
  BY <1>2, NoneAssumption DEF Get, Reserved
<1>4. ~override => "status" \notin ks /\ "score" \notin ks
  BY <1>2 DEF Stamped
<1>5. PICK S : S = ks
  OBVIOUS
<1>6. S \subseteq DOMAIN e
  BY <1>5
<1> HIDE DEF ks
<1>7. /\ \A k \in S : Get(r, k) = e[k]
      /\ \A k : k \notin S => Get(r, k) = Get(row, k)
  BY <1>1, <1>5, <1>6, UpdateGet
<1>8. override => e["status"] = "operator_failed"
  BY NoneAssumption DEF Get
<1> QED BY <1>3, <1>4, <1>5, <1>7, <1>8 DEF Overrides

LEMMA PlainTasks ==
  ASSUME NEW row, NEW e, Plain(e), "task_set_hash" \in DOMAIN row,
         NEW r, r = MergeEventFields(row, e)
  PROVE  Get(r, "task_set_hash") = Get(row, "task_set_hash")
<1> DEFINE override == /\ Get(row, "pending_gate_record") = TRUE
                       /\ Get(e, "status") = "operator_failed"
           Protected(k) == /\ k \in Stamped \cap DOMAIN row
                           /\ ~CanReplaceStamped(row, e)
                           /\ ~(override /\ k \in {"status", "score"})
           eligible == IF "selection_eligible" \in DOMAIN e /\ ~Protected("selection_eligible")
                         THEN e["selection_eligible"] ELSE Get(row, "selection_eligible")
           Refused(k) == k = "valid_parent" /\ e[k] = TRUE /\ eligible \notin {None, TRUE}
           ks == {k \in DOMAIN e \ Reserved : ~Protected(k) /\ ~Refused(k)}
<1>1. r = Overlay(row, Only(e, ks))
  BY DEF MergeEventFields
<1>2. ~CanReplaceStamped(row, e)
  BY NoneAssumption DEF CanReplaceStamped, Plain, Get
<1>3. "task_set_hash" \notin ks
  BY <1>2 DEF Stamped
<1>4. PICK S : S = ks
  OBVIOUS
<1>5. S \subseteq DOMAIN e
  BY <1>4
<1> HIDE DEF ks
<1> QED BY <1>1, <1>3, <1>4, <1>5, UpdateGet

\* The top-level evaluation of a ledger, if it has one.
LEMMA TopEvaluated ==
  ASSUME NEW g, NEW m, Standing(g, m)
  PROVE  /\ m.top \in {None, "dev"} /\ None # "dev"
         /\ m.top = "dev" <=> Get(m.row, "outcome") \in Outcomes
         /\ m.top = "dev" => Stamped \subseteq DOMAIN m.row
<1>1. PICK row : row = m.row
  OBVIOUS
<1>2. Shape(row, m.top)
  BY <1>1 DEF Standing
<1>3. m.top = "dev" => Get(row, "outcome") \in Outcomes
  BY <1>2 DEF Shape, Stamped, Get
<1>4. m.top = None => Get(row, "outcome") \notin Outcomes
  BY <1>2, NoneAssumption DEF Shape, EvaluatedFields, Get, Outcomes
<1> QED BY <1>1, <1>2, <1>3, <1>4, NoneAssumption DEF Shape

\* What a plain line does to an evaluated generation that no verdict is about.
LEMMA PlainConcluded ==
  ASSUME NEW g, NEW m, Standing(g, m), m.top = "dev", Concluded(m), NEW e, Plain(e),
         "reason" \notin DOMAIN e, "pending_gate_record" \notin DOMAIN e, e \notin m.lines,
         NEW z, NEW receipt, NEW l, l = Record(m, z, e, receipt)
  PROVE  Concluded(l)
<1>1. DOMAIN m = LedgerFields /\ Stamped \subseteq DOMAIN m.row
      /\ DOMAIN m.row \subseteq RecordedFields \ Reserved
  BY TopEvaluated DEF Standing, Shape
<1>2. PICK row, r : row = m.row /\ r = MergeEventFields(row, e)
  OBVIOUS
<1>3. /\ l.row = r /\ l.lines = m.lines \cup {e}
      /\ l.awaiting <=> m.awaiting /\ ~IsGateRecord(e)
  BY <1>1, <1>2, PlainRecord
<1>4. MergesPlain(row, r, e)
  BY <1>1, <1>2, PlainMergeFields
<1>5. Get(r, "pending_gate_record") = Get(row, "pending_gate_record")
  BY <1>2, MergeFacts
<1>6. \A k \in EvaluatedFields : Get(r, k) = Get(row, k)
  BY <1>4 DEF MergesPlain
<1>7. /\ Overrides(row, e) => Get(r, "status") = "operator_failed"
      /\ ~Overrides(row, e) =>
           Get(r, "status") = Get(row, "status") /\ Get(r, "score") = Get(row, "score")
  <2>1. "status" \in DOMAIN row /\ "score" \in DOMAIN row
    BY <1>1, <1>2 DEF Stamped
  <2> QED BY <1>2, <2>1, PlainStatus
<1>14. Get(r, "task_set_hash") = Get(row, "task_set_hash")
  <2>1. "task_set_hash" \in DOMAIN row
    BY <1>1, <1>2 DEF Stamped
  <2> QED BY <1>2, <2>1, PlainTasks
<1>8. Get(r, "outcome") = "benchmark_complete" => Conclusive(r)
  BY <1>2, <1>6, <1>7, <1>14 DEF Concluded, Conclusive, EvaluatedFields
<1>9. Get(r, "status") \notin Rejections
  BY <1>2, <1>7 DEF Concluded, Rejections
<1>10. Verdicts(l) = Verdicts(m)
  BY <1>3 DEF Verdicts
<1>11. ASSUME m.awaiting, Failed(l) # {} PROVE Get(r, "status") = "operator_failed"
  <2>1. Get(row, "pending_gate_record") = TRUE
    BY <1>2, <1>11 DEF Concluded
  <2>2. CASE Get(e, "status") = "operator_failed"
    BY <1>7, <2>1, <2>2 DEF Overrides
  <2>3. CASE Get(e, "status") # "operator_failed"
    <3>1. Failed(l) = Failed(m)
      BY <1>3, <2>3 DEF Failed
    <3> QED BY <1>2, <1>7, <1>11, <2>3, <3>1 DEF Concluded, Overrides
  <2> QED BY <2>2, <2>3
<1>12. l.awaiting => m.awaiting
  BY <1>3
<1>13. "outcome" \in EvaluatedFields
  BY DEF EvaluatedFields
<1> QED BY <1>2, <1>3, <1>5, <1>6, <1>8, <1>9, <1>10, <1>11, <1>12, <1>13 DEF Concluded

\* A line that ends a generation, or says nothing.
LEMMA EndsFields ==
  ASSUME NEW e \in Ends
  PROVE  /\ Plain(e) /\ {"reason", "pending_gate_record"} \cap DOMAIN e = {}
         /\ {"status", "verdict"} \subseteq DOMAIN e
         /\ e["status"] \in Ending /\ e["verdict"] = "discard"
<1>1. PICK p \in Named, s \in Ending : e = Discarded(p, s)
  BY DEF Ends, Ending
<1>2. /\ {"reason", "pending_gate_record"} \cap DOMAIN Discarded(p, s) = {}
      /\ {"status", "verdict"} \subseteq DOMAIN Discarded(p, s)
      /\ Discarded(p, s)["status"] = s /\ Discarded(p, s)["verdict"] = "discard"
  BY DEF Discarded
<1>3. Plain(e)
  BY EndsFacts
<1> QED BY <1>1, <1>2, <1>3

LEMMA HarmlessFields ==
  ASSUME NEW e \in Harmless
  PROVE  /\ Plain(e)
         /\ DOMAIN e \subseteq {"record_attempted", "record_error", "audit", "parent", "mutated"}
<1>1. DOMAIN e \subseteq {"record_attempted", "record_error", "audit", "parent", "mutated"}
  BY DEF Harmless, RecordEvent, RecordError, AuditEvent, CommitEvent
<1> QED BY <1>1, HarmlessFacts

\* What a line that says nothing does to a generation that was not evaluated.
LEMMA HarmlessUnevaluated ==
  ASSUME NEW g, NEW m, Standing(g, m), m.top = None, Unevaluated(g, m), NEW e \in Harmless,
         e \notin m.lines, NEW z, NEW receipt, NEW l, l = Record(m, z, e, receipt)
  PROVE  Unevaluated(g, l)
<1>1. DOMAIN m = LedgerFields
  BY DEF Standing
<1>2. PICK row, r : row = m.row /\ r = MergeEventFields(row, e)
  OBVIOUS
<1>3. /\ Plain(e)
      /\ DOMAIN e \subseteq {"record_attempted", "record_error", "audit", "parent", "mutated"}
  BY HarmlessFields
<1>4. /\ l.row = r /\ l.lines = m.lines \cup {e}
      /\ l.awaiting <=> m.awaiting /\ ~IsGateRecord(e)
  BY <1>1, <1>2, <1>3, PlainRecord
<1>5. /\ DOMAIN row \subseteq DOMAIN r /\ DOMAIN r \subseteq DOMAIN row \cup DOMAIN e
      /\ \A k : k \notin DOMAIN e => Get(r, k) = Get(row, k)
  BY <1>2, MergeFacts
<1>6. DOMAIN r \cap Stamped = DOMAIN row \cap Stamped
  BY <1>3, <1>5 DEF Stamped
<1>7. \A k \in {"verdict", "status", "note", "valid_parent"} : Get(r, k) = Get(row, k)
  BY <1>3, <1>5
<1>8. "reason" \notin DOMAIN e /\ Get(e, "status") = None /\ Get(e, "purpose") = None
  BY <1>3 DEF Get
<1>9. Verdicts(l) = Verdicts(m)
  BY <1>4, <1>8 DEF Verdicts
<1>10. Endings(l) = Endings(m)
  BY <1>4, <1>8, NoneAssumption DEF Endings, Ending, Rejections
<1>11. \A f \in l.lines : Get(f, "purpose") \notin {"genesis", "candidate"}
  BY <1>4, <1>8, NoneAssumption DEF Unevaluated
<1> QED BY <1>2, <1>4, <1>5, <1>6, <1>7, <1>9, <1>10, <1>11 DEF Unevaluated

\* What ends a candidate that was not evaluated shows in its status.
LEMMA EndsUnevaluated ==
  ASSUME NEW g, g # Genesis, NEW m, Standing(g, m), m.top = None, Unevaluated(g, m),
         NEW e \in Ends, e \notin m.lines,
         NEW z, NEW receipt, NEW l, l = Record(m, z, e, receipt)
  PROVE  Unevaluated(g, l) /\ Get(l.row, "status") \in Ending
<1>1. DOMAIN m = LedgerFields /\ DOMAIN m.row \subseteq RecordedFields \ Reserved
  BY DEF Standing, Shape
<1>2. PICK row, r : row = m.row /\ r = MergeEventFields(row, e)
  OBVIOUS
<1>3. /\ Plain(e) /\ {"reason", "pending_gate_record"} \cap DOMAIN e = {}
      /\ {"status", "verdict"} \subseteq DOMAIN e
      /\ e["status"] \in Ending /\ e["verdict"] = "discard"
  BY EndsFields
<1>4. /\ l.row = r /\ l.lines = m.lines \cup {e}
      /\ l.awaiting <=> m.awaiting /\ ~IsGateRecord(e)
  BY <1>1, <1>2, <1>3, PlainRecord
<1>5. MergesPlain(row, r, e)
  BY <1>1, <1>2, <1>3, PlainMergeFields
<1>6. Get(r, "status") \in Ending
  <2>1. CASE DOMAIN row \cap Stamped = {}
    <3>1. "status" \in DOMAIN e \ (DOMAIN row \cup Reserved \cup {"valid_parent"})
      BY <1>3, <2>1 DEF Stamped, Reserved
    <3>2. Get(r, "status") = e["status"]
      BY <1>2, <3>1, MergeFacts
    <3> QED BY <1>3, <3>2
  <2>2. CASE Get(row, "status") \in Ending
    <3>1. Get(e, "status") \in Ending
      BY <1>3 DEF Get
    <3> QED BY <1>5, <2>2, <3>1 DEF MergesPlain
  <2> QED BY <1>2, <2>1, <2>2 DEF Unevaluated
<1>7. "verdict" \in Unprotected
  BY DEF Unprotected, RecordedFields, EvaluationFields, Stamped, Reserved
<1>8. Get(r, "verdict") = "discard"
  BY <1>3, <1>5, <1>7 DEF MergesPlain, FreeFields
<1>9. Verdicts(l) = Verdicts(m)
  BY <1>3, <1>4 DEF Verdicts
<1>10. Get(e, "purpose") = None
  BY EndsFacts
<1>11. \A f \in l.lines : Get(f, "purpose") \notin {"genesis", "candidate"}
  BY <1>4, <1>10, NoneAssumption DEF Unevaluated
<1> QED BY <1>4, <1>6, <1>8, <1>9, <1>11 DEF Unevaluated

\* A generation that is dealt with: settled, or evaluated and only its gate failed.
Dealt(m) ==
  /\ EvaluationStatus(m.row) \in Terminal
  /\ m.awaiting => Get(m.row, "status") = "operator_failed"

LEMMA EvaluatedTerminal ==
  ASSUME NEW row
  PROVE  /\ Get(row, "outcome") \in Outcomes => EvaluationStatus(row) \in Terminal
         /\ Get(row, "outcome") \notin Outcomes => EvaluationStatus(row) = Get(row, "status")
<1>1. ASSUME Get(row, "outcome") \in Outcomes PROVE EvaluationStatus(row) \in Terminal
  <2>1. row["outcome"] = Get(row, "outcome")
    BY <1>1, NoneAssumption DEF Get, Outcomes
  <2> QED BY <1>1, <2>1 DEF EvaluationStatus, Terminal, Unretryable, FailureOutcomes
<1> QED BY <1>1 DEF EvaluationStatus

LEMMA HarmlessOrderly ==
  ASSUME NEW g, NEW m, Standing(g, m), Orderly(g, m), NEW e \in Harmless,
         NEW z, NEW receipt, NEW l, l = Record(m, z, e, receipt)
  PROVE  Orderly(g, l) /\ l.top = m.top /\ (Dealt(m) => Dealt(l))
<1>1. CASE e \in m.lines
  BY <1>1 DEF Record
<1>2. CASE e \notin m.lines
  <2>1. DOMAIN m = LedgerFields
    BY DEF Standing
  <2>2. PICK row, r : row = m.row /\ r = MergeEventFields(row, e)
    OBVIOUS
  <2>3. /\ Plain(e)
        /\ DOMAIN e \subseteq {"record_attempted", "record_error", "audit", "parent", "mutated"}
    BY HarmlessFields
  <2>4. l.row = r /\ l.top = m.top /\ (l.awaiting <=> m.awaiting /\ ~IsGateRecord(e))
    BY <1>2, <2>1, <2>2, <2>3, PlainRecord
  <2>5. Get(r, "status") = Get(row, "status") /\ Get(r, "outcome") = Get(row, "outcome")
    BY <2>2, <2>3, Unmentioned
  <2>6. Dealt(m) => Dealt(l)
    BY <2>2, <2>4, <2>5, EvaluatedTerminal DEF Dealt, EvaluationStatus
  <2>7. m.top = None => Unevaluated(g, l)
    BY <1>2, HarmlessUnevaluated DEF Orderly
  <2>8. m.top = "dev" => Concluded(l)
    BY <1>2, <2>3, PlainConcluded DEF Orderly
  <2> QED BY <2>4, <2>6, <2>7, <2>8 DEF Orderly
<1> QED BY <1>1, <1>2

\* What ends a candidate, before its evaluation or because an operator failed, deals with it.
LEMMA EndsOrderly ==
  ASSUME NEW g, g # Genesis, NEW m, Standing(g, m), Orderly(g, m), NEW e \in Ends,
         m.top = None \/ e["status"] = "operator_failed",
         NEW z, NEW receipt, NEW l, l = Record(m, z, e, receipt)
  PROVE  Orderly(g, l) /\ l.top = m.top /\ Dealt(l)
<1>1. PICK row, r : row = m.row /\ r = MergeEventFields(row, e)
  OBVIOUS
<1>2. /\ Plain(e) /\ {"reason", "pending_gate_record"} \cap DOMAIN e = {}
      /\ {"status", "verdict"} \subseteq DOMAIN e
      /\ e["status"] \in Ending /\ e["verdict"] = "discard"
  BY EndsFields
<1>3. DOMAIN m = LedgerFields /\ m.top \in {None, "dev"}
      /\ (m.top = "dev" <=> Get(row, "outcome") \in Outcomes) /\ None # "dev"
  BY <1>1, TopEvaluated DEF Standing
<1>4. e \notin m.lines =>
        l.row = r /\ l.top = m.top /\ (l.awaiting <=> m.awaiting /\ ~IsGateRecord(e))
  BY <1>1, <1>2, <1>3, PlainRecord
<1>5. e \in m.lines => l = m
  BY DEF Record
<1>6. e \notin m.lines => Get(r, "outcome") = Get(row, "outcome")
  <2>1. "outcome" \notin DOMAIN e
    BY <1>2 DEF Plain, EvaluatedFields
  <2> QED BY <1>1, <2>1, Unmentioned
<1>7. Ending \subseteq Terminal
  BY DEF Ending, Terminal, Unretryable
<1>8. CASE m.top = None
  <2>1. Unevaluated(g, m)
    BY <1>8 DEF Orderly
  <2>2. Unevaluated(g, l) /\ Get(l.row, "status") \in Ending /\ l.top = m.top
    <3>1. CASE e \notin m.lines
      BY <1>4, <1>8, <2>1, <3>1, EndsUnevaluated
    <3>2. CASE e \in m.lines
      <4>1. e \in Endings(m)
        BY <1>2, <3>2 DEF Endings, Get
      <4> QED BY <1>5, <2>1, <3>2, <4>1 DEF Unevaluated
    <3> QED BY <3>1, <3>2
  <2>3. Get(l.row, "outcome") \notin Outcomes
    BY <1>1, <1>3, <1>4, <1>5, <1>6, <1>8
  <2>4. Dealt(l)
    BY <1>7, <2>2, <2>3, EvaluatedTerminal DEF Dealt, Unevaluated
  <2> QED BY <1>3, <1>8, <2>2, <2>4 DEF Orderly
<1>9. CASE m.top = "dev"
  <2>1. Concluded(m) /\ e["status"] = "operator_failed"
    BY <1>3, <1>9 DEF Orderly
  <2>2. Concluded(l) /\ l.top = m.top
    BY <1>2, <1>4, <1>5, <1>9, <2>1, PlainConcluded
  <2>3. e \in l.lines
    BY <1>2, <1>3, <1>5, PlainRecord
  <2>4. Failed(l) # {}
    BY <1>2, <2>1, <2>3 DEF Failed, Get
  <2>5. Get(l.row, "outcome") \in Outcomes
    BY <1>1, <1>3, <1>4, <1>5, <1>6, <1>9
  <2>6. Dealt(l)
    BY <2>2, <2>4, <2>5, EvaluatedTerminal DEF Dealt, Concluded
  <2> QED BY <1>3, <1>9, <2>2, <2>6 DEF Orderly
<1> QED BY <1>3, <1>8, <1>9

\* The first verdict on what awaits its gate deals with it.
LEMMA GateOrderly ==
  ASSUME NEW g, NEW m, Standing(g, m), Orderly(g, m), m.awaiting,
         NEW accept \in BOOLEAN, NEW reason, NEW e, e = GateEvent(accept, reason),
         NEW z, NEW receipt, NEW l, l = Record(m, z, e, receipt)
  PROVE  Orderly(g, l) /\ l.top = m.top /\ Dealt(l)
<1>1. PICK row, r : row = m.row /\ r = MergeEventFields(row, e)
  OBVIOUS
<1>2. DOMAIN m = LedgerFields /\ m.top \in {None, "dev"}
      /\ (m.top = "dev" <=> Get(row, "outcome") \in Outcomes) /\ None # "dev"
  BY <1>1, TopEvaluated DEF Standing
<1>3. m.top = "dev" /\ Concluded(m)
  BY <1>2 DEF Orderly, Unevaluated
<1>4. /\ Plain(e) /\ IsGateRecord(e)
      /\ DOMAIN e = {"pending_gate_record", "valid_parent", "verdict", "reason"}
  BY PlainLines DEF GateEvent, IsGateRecord, Stamped
<1>5. e \notin m.lines
  BY <1>3, <1>4 DEF Concluded, Verdicts
<1>6. l.row = r /\ l.top = m.top /\ ~l.awaiting
  BY <1>1, <1>2, <1>4, <1>5, PlainRecord
<1>7. \A k \in {"status", "outcome", "selection_eligible", "purpose", "task_set_hash", "score"} :
        Get(r, k) = Get(row, k)
  BY <1>1, <1>4, Unmentioned
<1>8. Concluded(l)
  BY <1>1, <1>3, <1>6, <1>7 DEF Concluded, Conclusive
<1>9. Dealt(l)
  BY <1>1, <1>2, <1>3, <1>6, <1>7, EvaluatedTerminal DEF Dealt
<1> QED BY <1>2, <1>3, <1>6, <1>8, <1>9 DEF Orderly

\* What an evaluation's line reports.
Reports(e, purpose, outcome, pending) ==
  LET complete == outcome = "benchmark_complete"
      eligible == complete /\ purpose \in {"candidate", "genesis"}
  IN  /\ e["status"] = IF complete THEN "complete" ELSE outcome
      /\ e["selection_eligible"] = TRUE <=> eligible
      /\ Get(e, "pending_gate_record") = TRUE <=> pending
      /\ e["valid_parent"] = TRUE <=> eligible /\ ~pending

LEMMA EventReports ==
  ASSUME NEW purpose, NEW outcome, NEW score, NEW attempt,
         NEW pending \in BOOLEAN, NEW metadata,
         NEW e, e = EvaluationEvent(purpose, outcome, score, attempt, pending, metadata)
  PROVE  Reports(e, purpose, outcome, pending)
<1> DEFINE complete == outcome = "benchmark_complete"
           eligible == complete /\ purpose \in {"candidate", "genesis"}
           own == [score |-> score,
                   status |-> IF complete THEN "complete" ELSE outcome,
                   outcome |-> outcome,
                   task_set_hash |-> IF purpose = "anchor" THEN "sealed" ELSE "dev",
                   attempt |-> attempt, purpose |-> purpose,
                   selection_eligible |-> eligible, pending_gate_record |-> pending,
                   valid_parent |-> eligible /\ ~pending,
                   verdict |-> IF eligible /\ ~pending THEN "keep" ELSE "discard",
                   mechanism_eval |-> TRUE]
<1>1. e = Overlay(metadata, own)
  BY DEF EvaluationEvent
<1>2. PICK o : o = own
  OBVIOUS
<1>3. /\ {"status", "selection_eligible", "pending_gate_record", "valid_parent"} \subseteq DOMAIN o
      /\ o["status"] = IF complete THEN "complete" ELSE outcome
      /\ o["selection_eligible"] = eligible
      /\ o["pending_gate_record"] = pending
      /\ o["valid_parent"] = (eligible /\ ~pending)
  BY <1>2
<1> HIDE DEF own
<1>4. \A k \in DOMAIN o : k \in DOMAIN e /\ e[k] = o[k]
  BY <1>1, <1>2 DEF Overlay
<1> QED BY <1>3, <1>4 DEF Get, Reports

LEMMA LineReports ==
  ASSUME NEW g \in BOOLEAN, NEW purpose \in AnyPurpose, NEW p, NEW outcome, NEW score, NEW attempt,
         NEW e, e = LineFor(g, purpose, p, outcome, score, attempt)
  PROVE  \E pending \in BOOLEAN :
           /\ pending <=> purpose = "candidate" /\ ~g /\ outcome = "benchmark_complete"
           /\ Reports(e, purpose, outcome, pending)
<1>1. PICK pending \in BOOLEAN :
        pending <=> purpose = "candidate" /\ ~g /\ outcome = "benchmark_complete"
  OBVIOUS
<1>2. \E d : e = EvaluationEvent(purpose, outcome, score, attempt, pending, d)
  <2>1. CASE purpose = "genesis"
    <3>1. ~pending
      BY <1>1, <2>1
    <3>2. pending = FALSE
      BY <3>1
    <3> QED BY <2>1, <3>2 DEF LineFor, GenesisEvaluation
  <2>2. CASE purpose = "candidate"
    <3>1. pending = (~g /\ outcome = "benchmark_complete")
      BY <1>1, <2>2
    <3> QED BY <2>2, <3>1 DEF LineFor, CandidateEvaluation
  <2>3. CASE purpose = "anchor"
    <3>1. ~pending
      BY <1>1, <2>3
    <3>2. pending = FALSE
      BY <3>1
    <3> QED BY <2>3, <3>2 DEF LineFor, AnchorEvaluation
  <2> QED BY <2>1, <2>2, <2>3 DEF AnyPurpose
<1> QED BY <1>1, <1>2, EventReports

\* A sealed evaluation changes nothing of this.
LEMMA AnchorOrderly ==
  ASSUME NEW g, NEW m, Standing(g, m), Orderly(g, m),
         NEW e, NEW outcome \in Outcomes, NEW score, NEW attempt, NEW pending,
         LineOf(e, "anchor", outcome, score, attempt), Reports(e, "anchor", outcome, pending),
         NEW receipt \in BOOLEAN, NEW z, NEW l, l = Record(m, z, e, receipt)
  PROVE  Orderly(g, l) /\ l.top = m.top /\ (Dealt(m) => Dealt(l))
<1>1. CASE e \in m.lines
  BY <1>1 DEF Record
<1>2. CASE e \notin m.lines
  <2>1. PICK n : n = Merge(m, z, e, receipt)
    OBVIOUS
  <2>2. DOMAIN m = LedgerFields
    BY DEF Standing
  <2>3. SameLines(m, n) /\ n.row = m.row /\ n.top = m.top
    BY <2>1, <2>2, AnchorMerge
  <2>4. /\ l.row = m.row /\ l.top = m.top /\ l.lines = m.lines \cup {e}
        /\ l.awaiting <=> IsEvaluationStamp(e) \/ (m.awaiting /\ ~IsGateRecord(e))
    BY <1>2, <2>1, <2>2, <2>3, RecordFacts
  <2>5. /\ ~IsEvaluationStamp(e) /\ ~IsGateRecord(e) /\ Get(e, "purpose") = "anchor"
        /\ "reason" \notin DOMAIN e /\ Get(e, "status") = e["status"]
    BY DEF LineOf, EvaluationShape, Stamped, Get, IsGateRecord
  <2>6. e["status"] \notin Ending
    BY DEF Reports, Outcomes, Ending, Rejections
  <2>7. Verdicts(l) = Verdicts(m)
    BY <2>4, <2>5 DEF Verdicts
  <2>8. Endings(l) = Endings(m)
    BY <2>4, <2>5, <2>6 DEF Endings
  <2>9. Failed(l) = Failed(m)
    BY <2>4, <2>5, <2>6 DEF Failed, Ending
  <2>10. Unevaluated(g, m) => Unevaluated(g, l)
    BY <2>4, <2>5, <2>7, <2>8 DEF Unevaluated
  <2>11. Concluded(m) => Concluded(l)
    BY <2>4, <2>5, <2>7, <2>9 DEF Concluded
  <2>12. Dealt(m) => Dealt(l)
    BY <2>4, <2>5 DEF Dealt
  <2> QED BY <2>4, <2>10, <2>11, <2>12 DEF Orderly
<1> QED BY <1>1, <1>2

LEMMA ReplacesStamped ==
  ASSUME NEW row, NEW e, EvaluationShape(e), CanReplaceStamped(row, e),
         NEW r, r = MergeEventFields(row, e)
  PROVE  TakesStamped(r, e)
<1> DEFINE override == /\ Get(row, "pending_gate_record") = TRUE
                       /\ Get(e, "status") = "operator_failed"
           Protected(k) == /\ k \in Stamped \cap DOMAIN row
                           /\ ~CanReplaceStamped(row, e)
                           /\ ~(override /\ k \in {"status", "score"})
           eligible == IF "selection_eligible" \in DOMAIN e /\ ~Protected("selection_eligible")
                         THEN e["selection_eligible"] ELSE Get(row, "selection_eligible")
           Refused(k) == k = "valid_parent" /\ e[k] = TRUE /\ eligible \notin {None, TRUE}
           ks == {k \in DOMAIN e \ Reserved : ~Protected(k) /\ ~Refused(k)}
<1>1. r = Overlay(row, Only(e, ks))
  BY DEF MergeEventFields
<1>2. Stamped \subseteq ks
  BY DEF EvaluationShape, Stamped, Reserved
<1>3. PICK S : S = ks
  OBVIOUS
<1>4. S \subseteq DOMAIN e
  BY <1>3
<1> HIDE DEF ks
<1> QED BY <1>1, <1>2, <1>3, <1>4, UpdateGet DEF TakesStamped

LEMMA EventFields ==
  ASSUME NEW e, EvaluationShape(e), "receipt_certified" \notin DOMAIN e,
         NEW receipt \in BOOLEAN, NEW v, v = Event(e, receipt)
  PROVE  /\ EvaluationShape(v)
         /\ \A k \in DOMAIN e : v[k] = e[k]
         /\ DOMAIN v = IF receipt THEN DOMAIN e \cup {"receipt_certified"} ELSE DOMAIN e
BY EventFacts

LEMMA NotShown ==
  ASSUME NEW g, NEW m, Standing(g, m), m.top = None
  PROVE  Get(m.row, "outcome") \notin Outcomes
BY TopEvaluated

\* What ledger n of g shows of e, its first evaluation, with this outcome.
ShowsFirst(g, n, e, outcome) ==
  /\ n.top = "dev" /\ Get(n.row, "outcome") = outcome
  /\ Get(n.row, "status") \in {"pending", e["status"]}
  /\ outcome = "benchmark_complete" => TakesStamped(n.row, e)
  /\ g # Genesis /\ Get(e, "pending_gate_record") = TRUE =>
       Get(n.row, "pending_gate_record") = TRUE

\* What the row of a generation shows of its first evaluation: all of it, when it is
\* complete, or the candidate was not ended before.
LEMMA FirstRow ==
  ASSUME NEW g, NEW m, Standing(g, m), m.top = None, Unevaluated(g, m),
         EvaluationStatus(m.row) \notin Unretryable,
         NEW purpose \in {"genesis", "candidate"}, purpose = "genesis" => g = Genesis,
         NEW e, NEW outcome \in Outcomes, NEW score, score # None <=> outcome = "benchmark_complete",
         NEW attempt, NEW pending, LineOf(e, purpose, outcome, score, attempt),
         Reports(e, purpose, outcome, pending),
         pending => g # Genesis, NEW receipt \in BOOLEAN, NEW z \in BOOLEAN, z <=> g = Genesis,
         NEW n, n = Merge(m, z, e, receipt)
  PROVE  ShowsFirst(g, n, e, outcome)
<1>1. /\ e["task_set_hash"] = "dev" /\ EvaluationShape(e) /\ "receipt_certified" \notin DOMAIN e
      /\ e["outcome"] = outcome /\ e["score"] = score
      /\ Get(e, "kind") \notin {"anchor", "baseline"} /\ ~(Get(e, "kind") = "genesis_eval" /\ ~z)
  BY NoneAssumption DEF LineOf
<1>2. IsKeyedEvaluation(e) /\ Get(e, "mechanism_eval") = TRUE
  BY <1>1, NoneAssumption DEF EvaluationShape, Stamped, IsKeyedEvaluation, Get
<1>3. PICK v : v = Event(e, receipt)
  OBVIOUS
<1>4. /\ EvaluationShape(v)
      /\ \A k \in DOMAIN e : v[k] = e[k]
      /\ DOMAIN v = IF receipt THEN DOMAIN e \cup {"receipt_certified"} ELSE DOMAIN e
  <2>1. EvaluationShape(e) /\ "receipt_certified" \notin DOMAIN e
    BY <1>1
  <2> QED BY <1>3, <2>1, EventFields
<1>5. \A k : k # "receipt_certified" => Get(v, k) = Get(e, k)
  BY <1>4 DEF Get
<1>6. DOMAIN m = LedgerFields /\ Shape(m.row, None)
  BY DEF Standing
<1>7. PICK row : row = m.row
  OBVIOUS
<1>8. n = MergeKeyedEvaluation(m, z, v)
  BY <1>1, <1>2, <1>3 DEF Merge, Event, IsUncertifiedRepeat
<1>9. v["task_set_hash"] = "dev"
  BY <1>1, <1>4 DEF EvaluationShape, Stamped
<1>10. \/ IsGenesisReplacement(row, z, v) /\ n = [m EXCEPT !.top = "dev", !.row = ReplaceTop(row, v)]
       \/ n = [m EXCEPT !.top = "dev", !.row = MergeEventFields(row, v)]
            /\ ~IsGenesisReplacement(row, z, v)
  BY <1>7, <1>8, <1>9 DEF MergeKeyedEvaluation
<1>11. n.top = "dev"
  BY <1>6, <1>10 DEF LedgerFields
<1>12. \A k \in Stamped : v[k] = e[k] /\ Get(v, k) = e[k]
  BY <1>1, <1>4 DEF EvaluationShape, Get
<1>13. TakesStamped(n.row, v) => TakesStamped(n.row, e)
  BY <1>12 DEF TakesStamped
<1>14. {"outcome", "status"} \subseteq Stamped
  BY DEF Stamped
<1>15. ASSUME IsGenesisReplacement(row, z, v), n = [m EXCEPT !.top = "dev", !.row = ReplaceTop(row, v)]
       PROVE  TakesStamped(n.row, e) /\ g = Genesis
  <2>1. n.row = ReplaceTop(row, v)
    BY <1>6, <1>15 DEF LedgerFields
  <2>2. TakesStamped(n.row, v)
    BY <1>4, <1>6, <1>7, <2>1, ReplaceTopFacts DEF Shape
  <2> QED BY <1>13, <1>15, <2>2 DEF IsGenesisReplacement
<1>16. ASSUME n = [m EXCEPT !.top = "dev", !.row = MergeEventFields(row, v)],
              ~IsGenesisReplacement(row, z, v)
       PROVE  /\ Get(n.row, "outcome") = outcome
              /\ Get(n.row, "status") \in {"pending", e["status"]}
              /\ outcome = "benchmark_complete" => TakesStamped(n.row, e)
              /\ g # Genesis /\ Get(e, "pending_gate_record") = TRUE =>
                   Get(n.row, "pending_gate_record") = TRUE
  <2>1. n.row = MergeEventFields(row, v)
    BY <1>6, <1>16 DEF LedgerFields
  <2>2. PICK r : r = n.row
    OBVIOUS
  <2>3. MergesEvaluation(row, r, v)
    BY <1>4, <1>6, <1>7, <2>1, <2>2, EvaluationMergeFields DEF Shape
  <2>4. "outcome" \in Stamped \ DOMAIN row
    BY <1>6, <1>7, <1>14 DEF Shape, EvaluatedFields
  <2>5. Get(r, "outcome") = outcome
    BY <1>1, <1>12, <2>3, <2>4 DEF MergesEvaluation, TakesStamped
  <2>6. CASE g # Genesis
    <3>1. DOMAIN row \cap Stamped = {}
      <4>1. Get(row, "outcome") \notin Outcomes
        BY <2>4, NoneAssumption DEF Get, Outcomes
      <4>2. Get(row, "status") \notin Ending
        BY <1>7, <4>1, EvaluatedTerminal DEF Unretryable, Ending
      <4> QED BY <1>7, <2>6, <4>2 DEF Unevaluated
    <3>2. TakesStamped(r, v)
      BY <2>3, <3>1 DEF MergesEvaluation, TakesStamped
    <3>3. "pending_gate_record" \in Unprotected
      BY DEF Unprotected, RecordedFields, EvaluationFields, Stamped, Reserved
    <3>4. ASSUME Get(e, "pending_gate_record") = TRUE PROVE Get(r, "pending_gate_record") = TRUE
      <4>1. "pending_gate_record" \in DOMAIN e /\ e["pending_gate_record"] = TRUE
        BY <3>4, NoneAssumption DEF Get
      <4>2. "pending_gate_record" \in DOMAIN v /\ v["pending_gate_record"] = TRUE
        BY <1>4, <4>1
      <4> QED BY <2>3, <3>3, <4>2 DEF MergesEvaluation, FreeFields
    <3>5. TakesStamped(r, e) /\ Get(r, "status") = e["status"]
      BY <1>13, <1>14, <2>2, <3>2 DEF TakesStamped
    <3> QED BY <2>2, <2>5, <3>4, <3>5
  <2>7. CASE g = Genesis
    <3>1. Get(row, "status") = "pending" /\ Get(row, "note") = ScaffoldNote
      BY <1>7, <2>7 DEF Unevaluated
    <3>2. Get(r, "status") \in {"pending", e["status"]}
      <4>1. Get(r, "status") \in {Get(row, "status"), v["status"]}
        BY <1>14, <2>3 DEF MergesEvaluation, TakesStamped
      <4> QED BY <1>12, <1>14, <3>1, <4>1
    <3>3. ASSUME outcome = "benchmark_complete" PROVE TakesStamped(r, v)
      <4>1. Get(v, "selection_eligible") = TRUE /\ Get(v, "score") # None
            /\ Get(v, "outcome") = "benchmark_complete"
        BY <1>1, <1>12, <3>3 DEF Stamped, Reports
      <4>2. Get(v, "valid_parent") = TRUE /\ Get(v, "mechanism_eval") = TRUE
        BY <1>1, <1>2, <1>5, <2>7, <3>3 DEF Reports, EvaluationShape, Get
      <4>3. CanReplaceStamped(row, v)
        BY <3>1, <4>1, <4>2 DEF CanReplaceStamped
      <4> QED BY <1>4, <2>1, <2>2, <4>3, ReplacesStamped
    <3> QED BY <1>13, <2>2, <2>5, <2>7, <3>2, <3>3
  <2> QED BY <2>6, <2>7
<1>17. TakesStamped(n.row, e) => Get(n.row, "outcome") = outcome /\ Get(n.row, "status") = e["status"]
  BY <1>1, <1>14 DEF TakesStamped
<1> QED BY <1>10, <1>11, <1>15, <1>16, <1>17 DEF ShowsFirst

LEMMA FirstEvaluation ==
  ASSUME NEW g, NEW m, Standing(g, m), m.top = None, Unevaluated(g, m),
         EvaluationStatus(m.row) \notin Unretryable,
         NEW purpose \in {"genesis", "candidate"}, purpose = "genesis" => g = Genesis,
         NEW e, NEW outcome \in Outcomes, NEW score, score # None <=> outcome = "benchmark_complete",
         NEW attempt, NEW pending \in BOOLEAN, LineOf(e, purpose, outcome, score, attempt),
         Reports(e, purpose, outcome, pending),
         pending <=> g # Genesis /\ purpose = "candidate" /\ outcome = "benchmark_complete",
         NEW receipt \in BOOLEAN, NEW z \in BOOLEAN, z <=> g = Genesis,
         GatedLine(z, purpose, outcome, e), NEW l, l = Record(m, z, e, receipt)
  PROVE  /\ l.top = "dev" /\ Concluded(l)
         /\ outcome # "benchmark_complete" => Dealt(l)
         /\ ~Dealt(m)
<1>1. /\ Get(e, "purpose") = purpose /\ EvaluationShape(e) /\ e["purpose"] = purpose
      /\ e["score"] = score /\ e["task_set_hash"] = "dev" /\ Get(e, "status") = e["status"]
      /\ "reason" \notin DOMAIN e /\ ~IsGateRecord(e)
  BY DEF LineOf, EvaluationShape, Stamped, Get, IsGateRecord
<1>2. e \notin m.lines
  BY <1>1 DEF Unevaluated
<1>3. PICK n : n = Merge(m, z, e, receipt)
  OBVIOUS
<1>4. /\ n.top = "dev" /\ Get(n.row, "outcome") = outcome
      /\ Get(n.row, "status") \in {"pending", e["status"]}
      /\ outcome = "benchmark_complete" => TakesStamped(n.row, e)
      /\ g # Genesis /\ Get(e, "pending_gate_record") = TRUE =>
           Get(n.row, "pending_gate_record") = TRUE
  <2>1. pending => g # Genesis
    OBVIOUS
  <2>2. ShowsFirst(g, n, e, outcome)
    BY <1>3, <2>1, FirstRow
  <2> QED BY <2>2 DEF ShowsFirst
<1>5. DOMAIN m = LedgerFields /\ Shape(m.row, m.top) /\ (purpose = "genesis" => z)
  BY DEF Standing
<1>6. SameLines(m, n)
  BY <1>3, <1>5, DevMerge
<1>7. /\ l.row = n.row /\ l.top = n.top /\ l.lines = m.lines \cup {e}
      /\ l.awaiting <=> IsEvaluationStamp(e) \/ (m.awaiting /\ ~IsGateRecord(e))
  BY <1>2, <1>3, <1>5, <1>6, RecordFacts
<1>8. l.awaiting => pending
  BY <1>7 DEF Unevaluated, GatedLine, LineOf
<1>9. PICK row : row = l.row
  OBVIOUS
<1>10. /\ e["status"] = IF outcome = "benchmark_complete" THEN "complete" ELSE outcome
       /\ outcome = "benchmark_complete" => e["selection_eligible"] = TRUE
       /\ pending => Get(e, "pending_gate_record") = TRUE
  BY DEF Reports
<1>11. e["status"] \notin Ending /\ "pending" \notin Rejections
  BY <1>10 DEF Outcomes, Ending, Rejections
<1>12. Get(row, "status") \notin Rejections
  BY <1>4, <1>7, <1>9, <1>11 DEF Ending
<1>13. outcome = "benchmark_complete" => Conclusive(row)
  <2>1. SUFFICES ASSUME outcome = "benchmark_complete" PROVE Conclusive(row)
    OBVIOUS
  <2>2. \A k \in Stamped : Get(row, k) = e[k]
    BY <1>4, <1>7, <1>9, <2>1 DEF TakesStamped
  <2> QED BY <1>1, <1>10, <2>1, <2>2 DEF Conclusive, Stamped
<1>14. ASSUME l.awaiting PROVE Verdicts(l) = {} /\ Failed(l) = {}
  <2>1. g # Genesis
    BY <1>8, <1>14
  <2>2. Get(m.row, "outcome") \notin Outcomes
    BY NotShown
  <2>3. Endings(m) = {} /\ Verdicts(m) = {}
    BY <2>1, <2>2, EvaluatedTerminal DEF Unevaluated, Unretryable, Ending
  <2> QED BY <1>1, <1>7, <1>11, <2>3 DEF Verdicts, Failed, Endings, Ending
<1>15. Concluded(l)
  BY <1>4, <1>7, <1>8, <1>9, <1>10, <1>12, <1>13, <1>14 DEF Concluded
<1>16. outcome # "benchmark_complete" => Dealt(l)
  BY <1>4, <1>7, <1>8, EvaluatedTerminal DEF Dealt
<1>17. ~Dealt(m)
  <2>1. Get(m.row, "status") # "complete"
    BY <1>5 DEF Shape
  <2>2. Get(m.row, "outcome") \notin Outcomes
    BY NotShown
  <2> QED BY <2>1, <2>2, EvaluatedTerminal DEF Dealt, Terminal
<1> QED BY <1>4, <1>7, <1>15, <1>16, <1>17

------------------------------------------------------------------------------
(* What a step does to the ledgers. *)

Orders == \A g \in Genid : Orderly(g, archive[g])

\* A step keeps the ledgers in order, and what is dealt with stays dealt with.
Tidy == Orders' /\ \A g \in Genid : Dealt(archive[g]) => Dealt(archive'[g])

SameTops == \A g \in Genid : archive'[g].top = archive[g].top

LEMMA TidyElsewhere ==
  ASSUME Ledgers, Orders, NEW g, NEW l, archive' = [archive EXCEPT ![g] = l],
         g \in Genid => Orderly(g, l) /\ (Dealt(archive[g]) => Dealt(l))
  PROVE  Tidy
<1>1. \A h \in Genid : archive'[h] = IF h = g THEN l ELSE archive[h]
  BY DEF Ledgers
<1>2. \A h \in Genid : Orderly(h, archive'[h])
  BY <1>1 DEF Orders
<1>3. Orders' <=> \A h \in Genid : Orderly(h, archive'[h])
  BY DEF Orders, Orderly, Unevaluated, Concluded, Verdicts, Endings, Failed
<1>4. \A h \in Genid : Dealt(archive[h]) => Dealt(archive'[h])
  BY <1>1
<1> QED BY <1>2, <1>3, <1>4 DEF Tidy

LEMMA TopsElsewhere ==
  ASSUME Ledgers, NEW g, NEW l, archive' = [archive EXCEPT ![g] = l],
         g \in Genid => l.top = archive[g].top
  PROVE  SameTops
BY DEF Ledgers, SameTops

LEMMA QuietTidy ==
  ASSUME Orders, archive' = archive PROVE Tidy /\ SameTops
BY DEF Orders, Tidy, SameTops, Orderly, Unevaluated, Concluded, Verdicts, Endings, Failed

LEMMA LineTidy ==
  ASSUME Ledgers, Orders, NEW g, NEW e, AppendEvent(g, e),
         \/ e \in Harmless
         \/ e \in Ends /\ g # Genesis /\ (archive[g].top = None \/ e["status"] = "operator_failed")
  PROVE  /\ Tidy /\ SameTops
         /\ g \in Genid /\ e \in Ends => Dealt(archive'[g])
<1>1. PICK m, z, receipt : m = archive[g] /\ z = (g = Genesis) /\ receipt = FALSE
  OBVIOUS
<1>2. PICK l : l = Record(m, z, e, receipt)
  OBVIOUS
<1>3. archive' = [archive EXCEPT ![g] = l]
  BY <1>1, <1>2 DEF AppendEvent
<1>4. ASSUME g \in Genid
      PROVE  /\ Orderly(g, l) /\ l.top = m.top /\ (Dealt(m) => Dealt(l))
             /\ e \in Ends => Dealt(l)
  <2>1. Standing(g, m) /\ Orderly(g, m)
    BY <1>1, <1>4 DEF Ledgers, Orders
  <2>2. CASE e \in Harmless
    <3>1. e \notin Ends
      BY <2>2, HarmlessFields, EndsFields
    <3> QED BY <1>2, <2>1, <2>2, <3>1, HarmlessOrderly
  <2>3. CASE e \in Ends /\ g # Genesis /\ (m.top = None \/ e["status"] = "operator_failed")
    BY <1>2, <2>1, <2>3, EndsOrderly
  <2> QED BY <1>1, <2>2, <2>3
<1>5. Tidy
  BY <1>1, <1>3, <1>4, TidyElsewhere
<1>6. SameTops
  BY <1>1, <1>3, <1>4, TopsElsewhere
<1>7. g \in Genid /\ e \in Ends => Dealt(archive'[g])
  BY <1>3, <1>4 DEF Ledgers
<1> QED BY <1>5, <1>6, <1>7

LEMMA GateTidy ==
  ASSUME OnceInv, Orders, GateDecides
  PROVE  Tidy /\ SameTops /\ drv.gen \in Genid /\ Dealt(archive'[drv.gen])
<1>1. PICK g, p : g = drv.gen /\ p = drv.parent
  OBVIOUS
<1>2. Ledgers /\ g \in Genid /\ archive[g].awaiting
  BY <1>1 DEF OnceInv, DriverInv, GateDecides, At, Naming, Handles, Unfinished
<1>3. PICK accept, reason : accept = GateAccepts(p, g) /\ reason = GateReason(p, g)
  OBVIOUS
<1>4. accept \in BOOLEAN
  BY <1>3, DriverAssumption DEF GateAccepts
<1>5. PICK e : e = GateEvent(accept, reason)
  OBVIOUS
<1>6. PICK m, z, receipt : m = archive[g] /\ z = (g = Genesis) /\ receipt = FALSE
  OBVIOUS
<1>7. PICK l : l = Record(m, z, e, receipt)
  OBVIOUS
<1>8. archive' = [archive EXCEPT ![g] = l]
  BY <1>1, <1>3, <1>5, <1>6, <1>7 DEF GateDecides, AppendEvent
<1>9. Standing(g, m) /\ Orderly(g, m) /\ m.awaiting
  BY <1>2, <1>6 DEF Ledgers, Orders
<1>10. Orderly(g, l) /\ l.top = m.top /\ Dealt(l)
  BY <1>4, <1>5, <1>7, <1>9, GateOrderly
<1>11. Tidy
  BY <1>2, <1>6, <1>8, <1>10, TidyElsewhere
<1>12. SameTops
  BY <1>2, <1>6, <1>8, <1>10, TopsElsewhere
<1>13. archive'[g] = l
  BY <1>2, <1>8 DEF Ledgers
<1> QED BY <1>1, <1>2, <1>10, <1>11, <1>12, <1>13

------------------------------------------------------------------------------
(* Only what is tagged is evaluated. *)

\* The generation at hand has a tag and is about to be evaluated, or is.
Judging ==
  \/ drv.pc \in {"tagged", "evaluate"}
  \/ drv.pc = "leave" /\ drv.next = "evaluate"
  \/ drv.pc = "evaluating" /\ drv.purpose # "anchor"

Open(g) == archive[g].top = None /\ Status(g) \notin Unretryable

TopsTagged == Tagged(Genesis) /\ \A g \in Genid : archive[g].top = "dev" => Tagged(g)

\* An evaluation is the first of its generation, which nothing has ended.
JudgedTagged ==
  /\ Judging => Tagged(drv.gen)
  /\ drv.pc = "evaluating" /\ drv.purpose # "anchor" => Open(drv.gen)

LEMMA TagsKept ==
  ASSUME TopsTagged, SameTops, \A g : Tagged(g) => Tagged(g)'
  PROVE  TopsTagged'
<1>1. \A g \in Genid : Tagged(g) => Tagged(g)'
  OBVIOUS
<1>2. \A g \in Genid : archive'[g].top = "dev" => archive[g].top = "dev"
  BY DEF SameTops
<1>3. TopsTagged' <=> Tagged(Genesis)' /\ \A g \in Genid : archive'[g].top = "dev" => Tagged(g)'
  BY DEF TopsTagged
<1> QED BY <1>1, <1>2, <1>3 DEF TopsTagged

LEMMA SameTags ==
  ASSUME commits' = commits PROVE \A g : Tagged(g)' <=> Tagged(g)
BY DEF Tagged

\* An evaluation's line.
LEMMA StampTidy ==
  ASSUME OnceInv, Orders, JudgedTagged, drv.pc = "evaluating",
         NEW outcome \in Outcomes, NEW score \in Scored,
         NEW receipt \in BOOLEAN, Stamp(outcome, score, receipt)
  PROVE  /\ Tidy
         /\ \A h \in Genid : archive'[h].top = archive[h].top \/ (h = drv.gen /\ Judging)
         /\ drv.gen \in Genid
         /\ drv.purpose # "anchor" /\ outcome # "benchmark_complete" => Dealt(archive'[drv.gen])
<1>1. PICK g, purpose, label, attempt :
        /\ g = drv.gen /\ purpose = drv.purpose /\ label = drv.label
        /\ attempt = attempts[drv.gen][drv.purpose]
  OBVIOUS
<1>2. /\ Ledgers /\ g \in Genid /\ purpose \in AnyPurpose
      /\ purpose = "genesis" => g = Genesis
      /\ purpose # "anchor" => Open(g) /\ Judging
  BY <1>1 DEF OnceInv, DriverInv, Naming, Evaluating, Control, Purposes, AnyPurpose, JudgedTagged,
              Judging
<1>3. PICK z \in BOOLEAN : z <=> g = Genesis
  OBVIOUS
<1>4. PICK e : e = LineFor(z, purpose, label, outcome, score, attempt)
  OBVIOUS
<1>5. LineOf(e, purpose, outcome, score, attempt) /\ GatedLine(z, purpose, outcome, e)
  BY <1>2, <1>4, EvaluationLines
<1>6. EvaluationLine(outcome, score) = e
  BY <1>1, <1>3, <1>4 DEF EvaluationLine, LineFor
<1>7. PICK m : m = archive[g]
  OBVIOUS
<1>8. PICK l : l = Record(m, z, e, receipt)
  OBVIOUS
<1>9. archive' = [archive EXCEPT ![g] = l]
  BY <1>1, <1>3, <1>6, <1>7, <1>8 DEF Stamp
<1>10. Standing(g, m) /\ Orderly(g, m)
  BY <1>2, <1>7 DEF Ledgers, Orders
<1>11. archive'[g] = l /\ \A h \in Genid : h # g => archive'[h] = archive[h]
  BY <1>2, <1>9 DEF Ledgers
<1>12. PICK pending \in BOOLEAN :
         /\ pending <=> purpose = "candidate" /\ ~z /\ outcome = "benchmark_complete"
         /\ Reports(e, purpose, outcome, pending)
  BY <1>2, <1>4, LineReports
<1>13. CASE purpose = "anchor"
  <2>1. Orderly(g, l) /\ l.top = m.top /\ (Dealt(m) => Dealt(l))
    <3>1. LineOf(e, "anchor", outcome, score, attempt) /\ Reports(e, "anchor", outcome, pending)
      BY <1>5, <1>12, <1>13
    <3> QED BY <1>8, <1>10, <3>1, AnchorOrderly
  <2>2. Tidy
    BY <1>2, <1>7, <1>9, <2>1, TidyElsewhere
  <2> QED BY <1>1, <1>2, <1>7, <1>11, <1>13, <2>1, <2>2
<1>14. CASE purpose \in {"genesis", "candidate"}
  <2>1. m.top = None /\ EvaluationStatus(m.row) \notin Unretryable /\ Unevaluated(g, m)
    BY <1>2, <1>7, <1>10, <1>14 DEF Open, Status, Row, Orderly
  <2>2. pending <=> g # Genesis /\ purpose = "candidate" /\ outcome = "benchmark_complete"
    BY <1>3, <1>12
  <2>3. score # None <=> outcome = "benchmark_complete"
    BY DEF Stamp
  <2>4. /\ l.top = "dev" /\ Concluded(l) /\ ~Dealt(m)
        /\ outcome # "benchmark_complete" => Dealt(l)
    BY <1>2, <1>3, <1>5, <1>8, <1>10, <1>12, <1>14, <2>1, <2>2, <2>3, FirstEvaluation
  <2>5. Orderly(g, l)
    BY <2>4, NoneAssumption DEF Orderly
  <2>6. Tidy
    BY <1>2, <1>7, <1>9, <2>4, <2>5, TidyElsewhere
  <2> QED BY <1>1, <1>2, <1>11, <1>14, <2>4, <2>6
<1> QED BY <1>2, <1>13, <1>14 DEF AnyPurpose

LEMMA StampTags ==
  ASSUME OnceInv, Orders, TopsTagged, JudgedTagged, drv.pc = "evaluating",
         NEW outcome \in Outcomes, NEW score \in Scored,
         NEW receipt \in BOOLEAN, Stamp(outcome, score, receipt)
  PROVE  TopsTagged'
<1>1. \A h \in Genid : archive'[h].top = archive[h].top \/ (h = drv.gen /\ Judging)
  BY StampTidy
<1>2. commits' = commits
  BY DEF Stamp
<1>3. \A h : Tagged(h)' <=> Tagged(h)
  BY <1>2, SameTags
<1>4. \A h \in Genid : archive'[h].top = "dev" => Tagged(h)
  BY <1>1 DEF TopsTagged, JudgedTagged
<1> QED BY <1>3, <1>4 DEF TopsTagged

\* A step that leads to no evaluation.
Resting ==
  /\ drv'.pc \notin {"tagged", "evaluate", "evaluating"}
  /\ drv'.pc = "leave" => drv'.next # "evaluate"

LEMMA RestingTagged ==
  ASSUME Resting PROVE JudgedTagged'
BY DEF Resting, JudgedTagged, Judging

LEMMA IdleResting ==
  ASSUME drv' = Idle \/ drv' = NextSlot \/ drv' = Done PROVE Resting
<1>1. drv' = Idle \/ drv' = NextSlot
  BY DEF Done
<1>2. CASE drv' = Idle
  <2>1. drv'.pc = "idle"
    BY <1>2 DEF Idle
  <2> QED BY <2>1 DEF Resting
<1>3. CASE drv' = NextSlot
  <2>1. drv'.pc = "slots"
    BY <1>3 DEF NextSlot, Idle
  <2> QED BY <2>1 DEF Resting
<1> QED BY <1>1, <1>2, <1>3

LEMMA BeginTagged ==
  ASSUME Control, NEW g, NEW purpose, NEW label, Begin(g, purpose, label),
         purpose # "anchor" => Tagged(g) /\ Open(g)
  PROVE  JudgedTagged'
<1>1. drv'.pc = "evaluating" /\ drv'.gen = g /\ drv'.purpose = purpose
  BY DEF Begin, Control, DrvFields
<1>2. archive' = archive /\ commits' = commits
  BY DEF Begin
<1>3. purpose # "anchor" => Tagged(drv.gen)' /\ Open(drv.gen)'
  BY <1>1, <1>2 DEF Tagged, Open, Status, Row
<1> QED BY <1>1, <1>3 DEF JudgedTagged, Judging

------------------------------------------------------------------------------
(* How far a run has got. *)

Within == drv.pc = "slots" \/ Handles
Choosing == Within \/ Failing \/ (drv.pc = "record" /\ drv.next = "slots")
Closing == drv.pc \in {"record", "audit"} \/ (drv.pc = "leave" /\ drv.next # "evaluate")

RoundsDealt(r) == \A g \in Candidates : g[1] < r => Dealt(archive[g])
SlotsDealt(r, s) == \A i \in 0..Children - 1 : i < s => Dealt(archive[Slot(r, i)])
Chosen(g) == Dealt(archive[g]) \/ g \in DOMAIN drv.selected \/ (Failing /\ g \in drv.todo)

\* A run has dealt with the rounds behind it and, in its round, with the slots behind it;
\* what it has not dealt with there has a parent, or is still to be failed for want of one.
Progress ==
  drv.verb = "run" =>
    /\ RoundsDealt(drv.round)
    /\ Closing => Dealt(archive[drv.gen])
    /\ Within => SlotsDealt(drv.round, drv.slot)
    /\ Choosing => \A g \in Slots(drv.round) : Chosen(g)

AtTheEnd == drv.pc = "final" => drv.verb = "run" /\ drv.round > MaxGen

SettleInv ==
  OnceInv /\ Orders /\ TopsTagged /\ JudgedTagged /\ Progress /\ AtTheEnd

LEMMA RoundsKept ==
  ASSUME Tidy, NEW r, RoundsDealt(r) PROVE RoundsDealt(r)'
<1>1. \A g \in Candidates : Dealt(archive[g]) => Dealt(archive'[g])
  BY DEF Tidy, Genid
<1>2. \A g \in Candidates : g[1] < r => Dealt(archive'[g])
  BY <1>1 DEF RoundsDealt
<1> QED BY <1>2 DEF RoundsDealt

LEMMA SlotIsGeneration ==
  ASSUME NEW r \in 1..MaxGen, NEW i \in 0..Children - 1 PROVE Slot(r, i) \in Candidates
BY DEF Slot, Candidates

LEMMA SlotsKept ==
  ASSUME Tidy, NEW r \in 1..MaxGen, NEW s, SlotsDealt(r, s) PROVE SlotsDealt(r, s)'
<1>1. \A g \in Candidates : Dealt(archive[g]) => Dealt(archive'[g])
  BY DEF Tidy, Genid
<1>2. \A i \in 0..Children - 1 : i < s => Dealt(archive'[Slot(r, i)])
  BY <1>1, SlotIsGeneration DEF SlotsDealt
<1> QED BY <1>2 DEF SlotsDealt

\* No run goes on.
LEMMA NoRunProgress ==
  ASSUME drv'.verb # "run", drv'.pc # "final" PROVE Progress' /\ AtTheEnd'
BY DEF Progress, AtTheEnd

LEMMA IdleProgress ==
  ASSUME drv' = Idle PROVE Progress' /\ AtTheEnd'
<1>1. drv'.verb # "run" /\ drv'.pc # "final"
  BY DEF Idle
<1> QED BY <1>1, NoRunProgress

\* A run outside the slots of a round.
LEMMA OutsideProgress ==
  ASSUME RoundsDealt(drv.round)', ~Within', ~Choosing', ~Closing',
         drv'.pc = "final" => drv'.verb = "run" /\ drv'.round > MaxGen
  PROVE  Progress' /\ AtTheEnd'
BY DEF Progress, AtTheEnd

\* A run goes on with the generation of its slot.
LEMMA HandlingProgress ==
  ASSUME Control, Progress, Tidy, Within, Loops \/ Handles,
         drv'.verb = drv.verb, drv'.round = drv.round, drv'.slot = drv.slot,
         drv'.selected = drv.selected, drv'.pc # "final",
         drv.verb = "run" => (~Closing' \/ Dealt(archive'[drv'.gen]))
  PROVE  Progress' /\ AtTheEnd'
<1>1. AtTheEnd'
  BY DEF AtTheEnd
<1>2. SUFFICES ASSUME drv.verb = "run" PROVE Progress'
  BY <1>1 DEF Progress
<1>3. drv.round \in 1..MaxGen
  BY <1>2 DEF Control
<1>4. PICK r, s : r = drv.round /\ s = drv.slot
  OBVIOUS
<1>5. RoundsDealt(r)' /\ SlotsDealt(r, s)'
  BY <1>2, <1>3, <1>4, RoundsKept, SlotsKept DEF Progress
<1>6. ~Failing
  BY DEF Within, Failing, Handles, Working
<1>7. \A g \in Slots(r) : Dealt(archive[g]) \/ g \in DOMAIN drv.selected
  BY <1>2, <1>4, <1>6 DEF Progress, Choosing, Chosen
<1>8. \A g \in Slots(r) : Dealt(archive'[g]) \/ g \in DOMAIN drv'.selected
  BY <1>3, <1>4, <1>7, SlotsAreGenerations DEF Tidy
<1>9. \A g \in Slots(drv'.round) : Chosen(g)'
  BY <1>4, <1>8 DEF Chosen
<1> QED BY <1>2, <1>4, <1>5, <1>9 DEF Progress, Slots

\* A run is through with its slot.
LEMMA NextSlotProgress ==
  ASSUME Control, Progress, Tidy, Within, Loops \/ Handles, drv' = NextSlot, drv.verb = "run",
         Dealt(archive'[Slot(drv.round, drv.slot)])
  PROVE  Progress' /\ AtTheEnd'
<1>1. /\ drv'.pc = "slots" /\ drv'.verb = "run" /\ drv'.round = drv.round
      /\ drv'.slot = drv.slot + 1 /\ drv'.selected = drv.selected
  BY DEF NextSlot, Idle
<1>2. drv.round \in 1..MaxGen /\ drv.slot \in Nat
  BY DEF Control
<1>3. PICK r, s : r = drv.round /\ s = drv.slot
  OBVIOUS
<1>4. RoundsDealt(r)' /\ SlotsDealt(r, s)'
  BY <1>2, <1>3, RoundsKept, SlotsKept DEF Progress
<1>5. SlotsDealt(r, s + 1)'
  <2>1. \A i \in 0..Children - 1 : i < s + 1 => i < s \/ i = s
    BY <1>2, <1>3, DriverAssumption
  <2>2. Dealt(archive'[Slot(r, s)])
    BY <1>3
  <2>3. \A i \in 0..Children - 1 : i < s => Dealt(archive'[Slot(r, i)])
    BY <1>4 DEF SlotsDealt
  <2>4. \A i \in 0..Children - 1 : i < s + 1 => Dealt(archive'[Slot(r, i)])
    BY <2>1, <2>2, <2>3
  <2> QED BY <2>4 DEF SlotsDealt
<1>6. ~Failing
  BY DEF Within, Failing, Handles, Working
<1>7. \A g \in Slots(r) : Dealt(archive[g]) \/ g \in DOMAIN drv.selected
  BY <1>3, <1>6 DEF Progress, Choosing, Chosen
<1>8. \A g \in Slots(r) : Dealt(archive'[g]) \/ g \in DOMAIN drv'.selected
  BY <1>1, <1>2, <1>3, <1>7, SlotsAreGenerations DEF Tidy
<1>9. \A g \in Slots(drv'.round) : Chosen(g)'
  BY <1>1, <1>3, <1>8 DEF Chosen
<1>10. ~Closing' /\ AtTheEnd'
  BY <1>1 DEF Closing, AtTheEnd
<1> QED BY <1>1, <1>3, <1>4, <1>5, <1>9, <1>10 DEF Progress, Slots

\* The end of a verb, or of a slot.
LEMMA DoneProgress ==
  ASSUME Control, Progress, Tidy, Handles, drv' = Done,
         drv.verb = "run" => Dealt(archive'[drv.gen])
  PROVE  Progress' /\ AtTheEnd'
<1>1. CASE drv.verb = "run"
  <2>1. drv' = NextSlot /\ Dealt(archive'[Slot(drv.round, drv.slot)])
    BY <1>1 DEF Done, Control
  <2> QED BY <1>1, <2>1, NextSlotProgress DEF Within
<1>2. CASE drv.verb # "run"
  BY <1>2, IdleProgress DEF Done
<1> QED BY <1>1, <1>2

------------------------------------------------------------------------------
(* The loop of a run. *)

LEMMA RoundsBehind ==
  ASSUME NEW r, r = 0 \/ r = 1 PROVE RoundsDealt(r)
BY DriverAssumption DEF RoundsDealt, Candidates

LEMMA DealtUnlessPending ==
  ASSUME NEW g, ~Pending(g) PROVE Dealt(archive[g])
BY DEF Pending, Dealt, Status, Row

LEMMA NextRound ==
  ASSUME NEW r \in Nat, RoundsDealt(r),
         \A i \in 0..Children - 1 : Dealt(archive[Slot(r, i)])
  PROVE  RoundsDealt(r + 1)
<1>1. SUFFICES ASSUME NEW g \in Candidates, g[1] < r + 1 PROVE Dealt(archive[g])
  BY DEF RoundsDealt
<1>2. g[1] \in Nat /\ g[2] \in 0..Children - 1 /\ g = <<g[1], g[2]>>
  BY DriverAssumption DEF Candidates
<1>3. CASE g[1] < r
  BY <1>3 DEF RoundsDealt
<1>4. CASE g[1] = r
  BY <1>2, <1>4 DEF Slot
<1> QED BY <1>1, <1>2, <1>3, <1>4

LEMMA BeginProgress ==
  ASSUME Control, Progress, Tidy, NEW g, NEW purpose \in {"genesis", "anchor"}, NEW label,
         Begin(g, purpose, label)
  PROVE  Progress' /\ AtTheEnd'
<1>1. /\ drv'.pc = "evaluating" /\ drv'.purpose = purpose /\ drv'.verb = drv.verb
      /\ drv'.round = drv.round
  BY DEF Begin, Control, DrvFields
<1>2. ~Within' /\ ~Choosing' /\ ~Closing'
  BY <1>1 DEF Within, Choosing, Closing, Failing, Handles, Working
<1>3. CASE drv.verb = "run"
  <2>1. RoundsDealt(drv.round)
    BY <1>3 DEF Progress
  <2>2. PICK r : r = drv.round
    OBVIOUS
  <2>3. RoundsDealt(r)'
    BY <2>1, <2>2, RoundsKept
  <2>4. RoundsDealt(drv.round)'
    BY <1>1, <2>2, <2>3 DEF RoundsDealt
  <2> QED BY <1>1, <1>2, <2>4, OutsideProgress
<1>4. CASE drv.verb # "run"
  BY <1>1, <1>4, NoRunProgress
<1> QED BY <1>3, <1>4

LEMMA GenesisSettles ==
  ASSUME SettleInv, EnsureGenesis
  PROVE  JudgedTagged' /\ Progress' /\ AtTheEnd'
<1>0. /\ Control /\ Ledgers /\ Orders /\ TopsTagged /\ Progress /\ Genesis \in Genid
      /\ drv.verb = "run" /\ drv.pc = "genesis"
  BY DEF SettleInv, OnceInv, DriverInv, Genid, EnsureGenesis, At, Control
<1>1. archive' = archive
  BY DEF EnsureGenesis, Begin, durable
<1>2. Tidy
  BY <1>0, <1>1, QuietTidy
<1> DEFINE certified == /\ Get(Row(Genesis), "outcome") = "benchmark_complete"
                        /\ Get(Row(Genesis), "selection_eligible") = TRUE
<1>3. \/ Goto("anchor") \/ drv' = Idle
      \/ /\ ~certified /\ Status(Genesis) \notin FailureOutcomes
         /\ Begin(Genesis, "genesis", Get(Row(Genesis), "parent"))
  BY DEF EnsureGenesis
<1>4. CASE Goto("anchor")
  <2>1. drv'.pc = "anchor" /\ drv'.round = drv.round
    BY <1>0, <1>4 DEF Goto, Control, DrvFields
  <2>2. ~Within' /\ ~Choosing' /\ ~Closing' /\ Resting
    BY <2>1 DEF Within, Choosing, Closing, Failing, Handles, Working, Resting
  <2>3. RoundsDealt(drv.round)'
    BY <1>0, <1>1, <2>1 DEF Progress, RoundsDealt
  <2> QED BY <2>1, <2>2, <2>3, OutsideProgress, RestingTagged
<1>5. CASE drv' = Idle
  BY <1>5, IdleResting, RestingTagged, IdleProgress
<1>6. CASE /\ ~certified /\ Status(Genesis) \notin FailureOutcomes
           /\ Begin(Genesis, "genesis", Get(Row(Genesis), "parent"))
  <2>1. PICK m, row : m = archive[Genesis] /\ row = m.row
    OBVIOUS
  <2>2. Standing(Genesis, m) /\ Orderly(Genesis, m)
    BY <1>0, <2>1 DEF Ledgers, Orders
  <2>3. m.top = None
    <3>1. SUFFICES ASSUME m.top # None PROVE FALSE
      OBVIOUS
    <3>2. m.top = "dev" /\ Get(row, "outcome") \in Outcomes /\ Concluded(m)
      BY <2>1, <2>2, <3>1, TopEvaluated DEF Orderly
    <3>3. row["outcome"] = Get(row, "outcome")
      BY <3>2, NoneAssumption DEF Get, Outcomes
    <3>4. Get(row, "outcome") = "benchmark_complete"
      BY <1>6, <2>1, <3>2, <3>3 DEF Status, EvaluationStatus, Row, FailureOutcomes
    <3> QED BY <1>6, <2>1, <3>2, <3>4 DEF Concluded, Conclusive, Row
  <2>4. Get(row, "status") = "pending" /\ Get(row, "outcome") \notin Outcomes
    BY <2>1, <2>2, <2>3, TopEvaluated DEF Orderly, Unevaluated
  <2>5. Open(Genesis)
    BY <2>1, <2>3, <2>4, EvaluatedTerminal
       DEF Open, Status, Row, Unretryable, Rejections, FailureOutcomes, Outcomes
  <2> QED BY <1>0, <1>2, <1>6, <2>5, BeginTagged, BeginProgress DEF TopsTagged
<1> QED BY <1>3, <1>4, <1>5, <1>6

LEMMA AnchorAndRoundSettle ==
  ASSUME SettleInv, EnsureGenesisAnchor \/ Round
  PROVE  JudgedTagged' /\ Progress' /\ AtTheEnd'
<1>0. /\ Control /\ Orders /\ Progress /\ drv.verb = "run" /\ drv.round \in Nat
      /\ Round => drv.pc = "round"
  BY DEF SettleInv, OnceInv, DriverInv, EnsureGenesisAnchor, Round, At, Control
<1>1. archive' = archive
  BY DEF EnsureGenesisAnchor, Round, Begin, durable
<1>2. Tidy
  BY <1>0, <1>1, QuietTidy
<1>3. ASSUME NEW pc \in {"round", "final"}, NEW r, drv'.pc = pc, drv'.verb = "run", drv'.round = r,
             RoundsDealt(r), pc = "final" => r > MaxGen
      PROVE  JudgedTagged' /\ Progress' /\ AtTheEnd'
  <2>1. ~Within' /\ ~Choosing' /\ ~Closing' /\ Resting
    BY <1>3 DEF Within, Choosing, Closing, Failing, Handles, Working, Resting
  <2>2. RoundsDealt(drv.round)'
    BY <1>1, <1>3 DEF RoundsDealt
  <2> QED BY <1>3, <2>1, <2>2, OutsideProgress, RestingTagged
<1>4. CASE EnsureGenesisAnchor
  <2>1. CASE drv' = [drv EXCEPT !.pc = "round", !.round = 1]
    <3>1. drv'.pc = "round" /\ drv'.verb = "run" /\ drv'.round = 1
      BY <1>0, <2>1 DEF Control, DrvFields
    <3> QED BY <1>3, <3>1, RoundsBehind
  <2>2. CASE Begin(Genesis, "anchor", Get(Row(Genesis), "parent"))
    BY <1>0, <1>2, <2>2, BeginTagged, BeginProgress
  <2> QED BY <1>4, <2>1, <2>2 DEF EnsureGenesisAnchor
<1>5. CASE Round
  <2>0. RoundsDealt(drv.round)
    BY <1>0 DEF Progress
  <2>1. CASE drv.round > MaxGen /\ drv' = [drv EXCEPT !.pc = "final"]
    <3>1. drv'.pc = "final" /\ drv'.verb = "run" /\ drv'.round = drv.round
      BY <1>0, <2>1 DEF Control, DrvFields
    <3> QED BY <1>3, <2>0, <2>1, <3>1
  <2>2. CASE /\ drv.round <= MaxGen /\ PendingIn(drv.round) = {}
             /\ drv' = [drv EXCEPT !.round = @ + 1]
    <3>1. drv'.pc = "round" /\ drv'.verb = "run" /\ drv'.round = drv.round + 1
      BY <1>0, <1>5, <2>2 DEF Control, DrvFields
    <3>2. \A i \in 0..Children - 1 : Dealt(archive[Slot(drv.round, i)])
      BY <2>2, DealtUnlessPending DEF PendingIn
    <3>3. RoundsDealt(drv.round + 1)
      BY <1>0, <2>0, <3>2, NextRound
    <3> QED BY <1>3, <3>1, <3>3
  <2>3. CASE drv' = [drv EXCEPT !.pc = "select"]
    <3>1. drv'.pc = "select" /\ drv'.verb = "run" /\ drv'.round = drv.round
      BY <1>0, <2>3 DEF Control, DrvFields
    <3>2. ~Within' /\ ~Choosing' /\ ~Closing' /\ Resting
      BY <3>1 DEF Within, Choosing, Closing, Failing, Handles, Working, Resting
    <3>3. RoundsDealt(drv.round)'
      BY <1>1, <2>0, <3>1 DEF RoundsDealt
    <3> QED BY <3>1, <3>2, <3>3, OutsideProgress, RestingTagged
  <2> QED BY <1>0, <1>5, <2>1, <2>2, <2>3, DriverAssumption DEF Round
<1> QED BY <1>4, <1>5

\* After select every generation of the round that is still pending has a parent, or is
\* to be failed.
LEMMA ChosenProgress ==
  ASSUME Control, Progress, archive' = archive, drv.pc = "select",
         NEW chosen, NEW todo, PendingIn(drv.round) \subseteq DOMAIN chosen \cup todo,
         drv'.pc \in {"slots", "selectFailed"}, drv'.pc = "slots" => todo = {},
         drv'.verb = "run", drv'.round = drv.round, drv'.slot = 0,
         drv'.selected = chosen, drv'.todo = todo
  PROVE  JudgedTagged' /\ Progress' /\ AtTheEnd'
<1>1. Resting /\ ~Closing' /\ AtTheEnd'
  BY DEF Resting, Closing, AtTheEnd
<1>2. drv.verb = "run"
  BY DEF Control, Loops
<1>3. RoundsDealt(drv.round)'
  BY <1>2 DEF Progress, RoundsDealt
<1>4. SlotsDealt(drv.round, drv.slot)'
  <2>1. \A i \in 0..Children - 1 : ~(i < 0)
    BY DriverAssumption
  <2>2. SlotsDealt(drv.round, 0)'
    BY <2>1 DEF SlotsDealt
  <2> QED BY <2>2 DEF SlotsDealt
<1>5. ASSUME NEW g \in Slots(drv.round) PROVE Chosen(g)'
  <2>1. CASE Pending(g)
    <3>1. g \in PendingIn(drv.round)
      BY <1>5, <2>1 DEF Slots, PendingIn
    <3>2. CASE drv'.pc = "slots"
      BY <3>1, <3>2 DEF Chosen
    <3>3. CASE drv'.pc = "selectFailed"
      <4>1. Failing'
        BY <3>3 DEF Failing
      <4> QED BY <3>1, <4>1 DEF Chosen
    <3> QED BY <3>2, <3>3
  <2>2. CASE ~Pending(g)
    <3>1. Dealt(archive'[g])
      BY <2>2, DealtUnlessPending
    <3> QED BY <3>1 DEF Chosen
  <2> QED BY <2>1, <2>2
<1>6. \A g \in Slots(drv'.round) : Chosen(g)'
  BY <1>5
<1> QED BY <1>1, <1>3, <1>4, <1>6, RestingTagged DEF Progress, Slots

LEMMA SelectSettles ==
  ASSUME SettleInv, SelectFails \/ \E ps \in Answers : Select(ps)
  PROVE  JudgedTagged' /\ Progress' /\ AtTheEnd'
<1>0. Control /\ Progress
  BY DEF SettleInv, OnceInv, DriverInv
<1>1. drv.pc = "select" /\ archive' = archive
  BY DEF SelectFails, Select, At, durable
<1>2. drv.verb = "run"
  BY <1>0, <1>1 DEF Control, Loops
<1>3. CASE SelectFails
  <2>1. PICK chosen : chosen = << >>
    OBVIOUS
  <2>2. /\ drv'.pc = "selectFailed" /\ drv'.verb = "run" /\ drv'.round = drv.round
        /\ drv'.slot = 0 /\ drv'.selected = chosen /\ drv'.todo = PendingIn(drv.round)
    BY <1>0, <1>2, <1>3, <2>1 DEF SelectFails, Control, DrvFields
  <2> QED BY <1>0, <1>1, <2>2, ChosenProgress
<1>4. CASE \E ps \in Answers : Select(ps)
  <2>1. PICK ps \in Answers : Select(ps)
    BY <1>4
  <2> DEFINE pending == PendingIn(drv.round)
             covered == {g \in pending : Len(ps) = 1 \/ g[2] + 1 \in DOMAIN ps}
             chosen == [g \in covered |-> IF Len(ps) = 1 THEN ps[1] ELSE ps[g[2] + 1]]
  <2>2. drv' = [drv EXCEPT !.pc = IF covered = pending THEN "slots" ELSE "selectFailed",
                           !.slot = 0, !.todo = pending \ covered, !.selected = chosen]
    BY <2>1 DEF Select
  <2>3. pending \subseteq DOMAIN chosen \cup (pending \ covered)
    OBVIOUS
  <2> HIDE DEF chosen, covered, pending
  <2>4. /\ drv'.pc = IF covered = pending THEN "slots" ELSE "selectFailed"
        /\ drv'.verb = "run" /\ drv'.round = drv.round /\ drv'.slot = 0
        /\ drv'.selected = chosen /\ drv'.todo = pending \ covered
    BY <1>0, <1>2, <2>2 DEF Control, DrvFields
  <2>5. drv'.pc = "slots" => pending \ covered = {}
    BY <2>4
  <2>6. PendingIn(drv.round) \subseteq DOMAIN chosen \cup (pending \ covered)
    BY <2>3 DEF pending
  <2> QED BY <1>0, <1>1, <2>4, <2>5, <2>6, ChosenProgress
<1> QED BY <1>3, <1>4

LEMMA TakeSlotSettles ==
  ASSUME SettleInv, TakeSlot
  PROVE  JudgedTagged' /\ Progress' /\ AtTheEnd'
<1> DEFINE g == Slot(drv.round, drv.slot)
           parent == IF g \in DOMAIN drv.selected THEN drv.selected[g]
                     ELSE IF Tagged(g) THEN Get(Row(g), "parent") ELSE None
           fresh == ~Tagged(g)
           pc == IF ~Tagged(g) THEN "fork" ELSE IF ~Evaluated(g) THEN "evaluate" ELSE "gate"
<1>0. /\ Control /\ Orders /\ Progress /\ Naming /\ drv.pc = "slots" /\ drv.verb = "run"
      /\ drv.round \in 1..MaxGen /\ drv.slot \in Nat /\ drv.slot <= Children /\ Within /\ Loops
  BY DEF SettleInv, OnceInv, DriverInv, TakeSlot, At, Control, Loops, Within
<1>1. archive' = archive /\ commits' = commits
  BY DEF TakeSlot, durable
<1>2. Tidy
  BY <1>0, <1>1, QuietTidy
<1>3. RoundsDealt(drv.round) /\ SlotsDealt(drv.round, drv.slot)
  BY <1>0 DEF Progress
<1>4. CASE /\ drv.slot = Children
           /\ drv' = [Idle EXCEPT !.pc = "round", !.verb = "run", !.round = drv.round + 1]
  <2>1. drv'.pc = "round" /\ drv'.verb = "run" /\ drv'.round = drv.round + 1
    BY <1>4 DEF Idle
  <2>2. \A i \in 0..Children - 1 : Dealt(archive[Slot(drv.round, i)])
    BY <1>3, <1>4, DriverAssumption DEF SlotsDealt
  <2>3. RoundsDealt(drv.round + 1)
    BY <1>0, <1>3, <2>2, NextRound
  <2>4. RoundsDealt(drv.round)'
    BY <1>1, <2>1, <2>3 DEF RoundsDealt
  <2>5. ~Within' /\ ~Choosing' /\ ~Closing' /\ Resting
    BY <2>1 DEF Within, Choosing, Closing, Failing, Handles, Working, Resting
  <2> QED BY <2>1, <2>4, <2>5, OutsideProgress, RestingTagged
<1>5. CASE drv.slot < Children /\ (~Pending(g) \/ parent = None) /\ drv' = NextSlot
  <2>1. g \in Slots(drv.round)
    BY <1>0, <1>5, DriverAssumption DEF Slots
  <2>2. Dealt(archive[g])
    <3>1. CASE ~Pending(g)
      BY <3>1, DealtUnlessPending
    <3>2. CASE parent = None
      <4>1. g \notin DOMAIN drv.selected
        BY <1>0, <3>2, GenidAssumption DEF Naming
      <4>2. Chosen(g) /\ ~Failing
        BY <1>0, <2>1 DEF Progress, Choosing, Failing
      <4> QED BY <4>1, <4>2 DEF Chosen
    <3> QED BY <1>5, <3>1, <3>2
  <2>3. Dealt(archive'[Slot(drv.round, drv.slot)])
    BY <1>1, <2>2
  <2> QED BY <1>0, <1>2, <1>5, <2>3, NextSlotProgress, IdleResting, RestingTagged
<1>6. CASE drv' = [drv EXCEPT !.gen = g, !.parent = parent, !.fresh = fresh, !.pc = pc]
  <2>1. /\ pc \in {"fork", "evaluate", "gate"}
        /\ pc = "evaluate" => Tagged(g)
    OBVIOUS
  <2> HIDE DEF g, parent, fresh, pc
  <2>2. /\ drv'.pc = pc /\ drv'.gen = g /\ drv'.verb = drv.verb /\ drv'.round = drv.round
        /\ drv'.slot = drv.slot /\ drv'.selected = drv.selected
    BY <1>0, <1>6 DEF Control, DrvFields
  <2>3. ~Closing' /\ drv'.pc # "final"
    BY <2>1, <2>2 DEF Closing
  <2>4. Progress' /\ AtTheEnd'
    BY <1>0, <1>2, <2>2, <2>3, HandlingProgress
  <2>5. JudgedTagged'
    BY <1>1, <2>1, <2>2 DEF JudgedTagged, Judging, Tagged
  <2> QED BY <2>4, <2>5
<1>7. drv.slot = Children \/ drv.slot < Children
  BY <1>0, DriverAssumption
<1> QED BY <1>4, <1>5, <1>6, <1>7 DEF TakeSlot

LEMMA FailUnselectedSettles ==
  ASSUME SettleInv, FailUnselected
  PROVE  Tidy /\ SameTops /\ JudgedTagged' /\ Progress' /\ AtTheEnd'
<1>0. /\ Control /\ Unfinished /\ Ledgers /\ Orders /\ Progress /\ drv.pc = "selectFailed"
      /\ drv.verb = "run" /\ drv.round \in 1..MaxGen
  BY DEF SettleInv, OnceInv, DriverInv, FailUnselected, At, Control, Loops
<1>1. drv.todo # {} /\ drv.todo \subseteq Slots(drv.round) \ ValidParents
  BY <1>0 DEF Unfinished, Failing
<1>2. PICK g : g = CHOOSE h \in drv.todo : \A k \in drv.todo : h[2] <= k[2]
  OBVIOUS
<1>3. g \in drv.todo
  BY <1>1, <1>2, FirstSlot
<1>4. g \in Candidates /\ g \in Genid /\ g # Genesis
  <2>1. PICK i \in 0..Children - 1 : g = Slot(drv.round, i)
    BY <1>1, <1>3 DEF Slots
  <2> QED BY <1>0, <2>1, SlotIsGeneration, DriverAssumption DEF Genid, Slot, Genesis
<1>5. PICK e : e = OperatorFailed(None)
  OBVIOUS
<1>6. AppendEvent(g, e)
  BY <1>2, <1>5 DEF FailUnselected
<1>7. e \in Ends /\ e["status"] = "operator_failed"
  <2>1. None \in Named
    BY DEF Named
  <2> QED BY <1>5, <2>1, EndsAndHarmless DEF OperatorFailed, Discarded
<1>8. Tidy /\ SameTops /\ Dealt(archive'[g])
  BY <1>0, <1>4, <1>6, <1>7, LineTidy
<1>9. /\ drv'.pc = "record" /\ drv'.todo = drv.todo \ {g} /\ drv'.round = drv.round
      /\ drv'.next = (IF drv.todo = {g} THEN "slots" ELSE "selectFailed")
      /\ drv'.verb = "run" /\ drv'.gen = g /\ drv'.selected = drv.selected
  BY <1>0, <1>2 DEF FailUnselected, Control, DrvFields
<1>10. Resting /\ AtTheEnd' /\ ~Within'
  BY <1>9 DEF Resting, AtTheEnd, Within, Handles, Working
<1>11. RoundsDealt(drv.round)'
  <2>1. PICK r : r = drv.round
    OBVIOUS
  <2>2. RoundsDealt(r)'
    BY <1>0, <1>8, <2>1, RoundsKept DEF Progress
  <2> QED BY <1>9, <2>1, <2>2 DEF RoundsDealt
<1>12. Dealt(archive[drv.gen])'
  BY <1>8, <1>9
<1>13. ASSUME NEW h \in Slots(drv.round) PROVE Chosen(h)'
  <2>1. Chosen(h)
    BY <1>0, <1>13 DEF Progress, Choosing, Failing
  <2>2. CASE Dealt(archive[h])
    BY <1>0, <1>8, <1>13, <2>2, SlotsAreGenerations DEF Tidy, Chosen
  <2>3. CASE h \in DOMAIN drv.selected
    BY <1>9, <2>3 DEF Chosen
  <2>4. CASE h \in drv.todo
    <3>1. CASE h = g
      BY <1>8, <3>1 DEF Chosen
    <3>2. CASE h # g
      <4>1. Failing'
        BY <1>9, <2>4, <3>2 DEF Failing
      <4> QED BY <1>9, <2>4, <3>2, <4>1 DEF Chosen
    <3> QED BY <3>1, <3>2
  <2> QED BY <2>1, <2>2, <2>3, <2>4 DEF Chosen
<1>14. \A h \in Slots(drv'.round) : Chosen(h)'
  BY <1>9, <1>13
<1> QED BY <1>8, <1>10, <1>11, <1>12, <1>14, RestingTagged DEF Progress, Slots

------------------------------------------------------------------------------
(* The generation of a slot. *)

\* A step that goes on with the same generation of the same round.
Onward ==
  /\ drv'.gen = drv.gen /\ drv'.verb = drv.verb /\ drv'.round = drv.round
  /\ drv'.slot = drv.slot /\ drv'.selected = drv.selected

LEMMA GotoOnward ==
  ASSUME Control, NEW pc, Goto(pc)
  PROVE  Onward /\ drv'.pc = pc /\ drv'.next = drv.next
BY DEF Goto, Control, DrvFields, Onward

LEMMA RecordOnward ==
  ASSUME Control, NEW ref, NEW next, ThenRecord(ref, next)
  PROVE  Onward /\ drv'.pc = "record" /\ drv'.next = next
BY DEF ThenRecord, Control, DrvFields, Onward

LEMMA OnwardProgress ==
  ASSUME Control, Progress, Tidy, Handles, Onward, drv'.pc # "final",
         drv.verb = "run" => ~Closing' \/ Dealt(archive'[drv.gen])
  PROVE  Progress' /\ AtTheEnd'
BY HandlingProgress DEF Onward, Within

\* What ends a candidate before its tag.
LEMMA EndedTidy ==
  ASSUME Ledgers, Orders, TopsTagged, drv.gen \in Candidates, ~Tagged(drv.gen),
         drv.parent \in Named,
         \/ AppendEvent(drv.gen, OperatorFailed(drv.parent))
         \/ \E s \in Rejections : AppendEvent(drv.gen, Discarded(drv.parent, s))
  PROVE  Tidy /\ SameTops /\ Dealt(archive'[drv.gen])
<1>1. PICK g : g = drv.gen
  OBVIOUS
<1>2. g \in Genid /\ g # Genesis
  BY <1>1, DriverAssumption DEF Genid, Candidates, Genesis
<1>3. PICK e \in Ends : AppendEvent(g, e)
  BY <1>1, EndsAndHarmless
<1>4. archive[g].top = None
  <2>1. Standing(g, archive[g]) /\ archive[g].top # "dev"
    BY <1>1, <1>2 DEF Ledgers, TopsTagged
  <2>2. PICK m : m = archive[g]
    OBVIOUS
  <2>3. m.top \in {None, "dev"}
    BY <2>1, <2>2, TopEvaluated
  <2> QED BY <2>1, <2>2, <2>3
<1> QED BY <1>1, <1>2, <1>3, <1>4, LineTidy

LEMMA ProposalSettles ==
  ASSUME SettleInv,
         \/ Fork \/ Propose \/ StageFails \/ AdmitProposal
         \/ \E status \in Rejections : RejectProposal(status)
         \/ CommitSnapshot \/ CommitLine \/ Leave
  PROVE  Tidy /\ SameTops /\ JudgedTagged' /\ Progress' /\ AtTheEnd'
<1>0. /\ Control /\ Unfinished /\ Ledgers /\ Orders /\ Progress /\ TopsTagged /\ JudgedTagged
      /\ drv.parent \in Named /\ Lineage
  BY DEF SettleInv, OnceInv, DriverInv, Naming
<1>1. Handles
  BY DEF Fork, Propose, StageFails, AdmitProposal, RejectProposal, CommitSnapshot, CommitLine,
         Leave, At, Handles, Working
<1>2. commits' = commits
  BY DEF Fork, Propose, StageFails, AdmitProposal, RejectProposal, CommitSnapshot, CommitLine,
         Leave, durable
<1>3. ASSUME archive' = archive PROVE Tidy /\ SameTops
  BY <1>0, <1>3, QuietTidy
<1>4. ASSUME NEW ref, drv.gen \in Candidates, ~Tagged(drv.gen), ThenRecord(ref, "leave"),
             \/ AppendEvent(drv.gen, OperatorFailed(drv.parent))
             \/ \E s \in Rejections : AppendEvent(drv.gen, Discarded(drv.parent, s))
      PROVE  Tidy /\ SameTops /\ JudgedTagged' /\ Progress' /\ AtTheEnd'
  <2>1. Tidy /\ SameTops /\ Dealt(archive'[drv.gen])
    BY <1>0, <1>4, EndedTidy
  <2>2. Onward /\ drv'.pc = "record"
    BY <1>0, <1>4, RecordOnward
  <2>3. Resting
    BY <2>2 DEF Resting
  <2> QED BY <1>0, <1>1, <2>1, <2>2, <2>3, OnwardProgress, RestingTagged
<1>5. ASSUME archive' = archive, NEW pc \in {"proposing", "guardrail", "commit", "committed"},
             Goto(pc)
      PROVE  Tidy /\ SameTops /\ JudgedTagged' /\ Progress' /\ AtTheEnd'
  <2>1. Onward /\ drv'.pc = pc
    BY <1>0, <1>5, GotoOnward
  <2>2. Resting /\ ~Closing'
    BY <1>5, <2>1 DEF Resting, Closing
  <2> QED BY <1>0, <1>1, <1>3, <1>5, <2>1, <2>2, OnwardProgress, RestingTagged
<1>6. ASSUME archive' = archive, drv' = Idle
      PROVE  Tidy /\ SameTops /\ JudgedTagged' /\ Progress' /\ AtTheEnd'
  BY <1>3, <1>6, IdleResting, RestingTagged, IdleProgress
<1>7. CASE Fork
  <2>1. ~Tagged(drv.gen) /\ drv.gen \in Candidates
    BY <1>0, <1>1, <1>7, SlotCandidates DEF Fork, At, Unfinished, Control
  <2> QED BY <1>4, <1>5, <1>7, <2>1 DEF Fork
<1>8. CASE Propose
  BY <1>5, <1>8 DEF Propose
<1>9. CASE StageFails \/ \E status \in Rejections : RejectProposal(status)
  <2>1. ~Tagged(drv.gen) /\ drv.gen \in Candidates
    BY <1>0, <1>9 DEF StageFails, RejectProposal, At, Unfinished, Lineage, Working
  <2> QED BY <1>4, <1>9, <2>1 DEF StageFails, RejectProposal
<1>10. CASE AdmitProposal
  BY <1>5, <1>10 DEF AdmitProposal, durable
<1>11. CASE CommitSnapshot
  <2>0. drv.gen \in Candidates
    BY <1>0, <1>11 DEF CommitSnapshot, At, Lineage, Working
  <2>1. trees[drv.gen].work \in {"clean", "dirty"}
    BY <1>0, <1>11 DEF Lineage, Tree, Working, CommitSnapshot, At
  <2>2. \/ archive' = archive /\ (drv' = Idle \/ Goto("committed"))
        \/ /\ ~Tagged(drv.gen) /\ drv' = [drv EXCEPT !.pc = "leave", !.next = "slots"]
           /\ AppendEvent(drv.gen, Discarded(drv.parent, "no_proposal"))
    BY <1>11, <2>1 DEF CommitSnapshot, CommitRefused
  <2>3. CASE /\ ~Tagged(drv.gen) /\ drv' = [drv EXCEPT !.pc = "leave", !.next = "slots"]
             /\ AppendEvent(drv.gen, Discarded(drv.parent, "no_proposal"))
    <3>1. "no_proposal" \in Rejections
      BY DEF Rejections
    <3>2. Tidy /\ SameTops /\ Dealt(archive'[drv.gen])
      BY <1>0, <2>0, <2>3, <3>1, EndedTidy
    <3>3. Onward /\ drv'.pc = "leave" /\ drv'.next = "slots"
      BY <1>0, <2>3 DEF Control, DrvFields, Onward
    <3>4. Resting
      BY <3>3 DEF Resting
    <3> QED BY <1>0, <1>1, <3>2, <3>3, <3>4, OnwardProgress, RestingTagged
  <2> QED BY <1>5, <1>6, <2>2, <2>3
<1>12. CASE CommitLine
  <2>1. Onward /\ drv'.pc = "leave" /\ drv'.next = "evaluate"
    BY <1>0, <1>12 DEF CommitLine, Control, DrvFields, Onward
  <2>2. AppendEvent(drv.gen, CommitEvent(drv.parent)) /\ CommitEvent(drv.parent) \in Harmless
    BY <1>0, <1>12, EndsAndHarmless DEF CommitLine
  <2>3. Tidy /\ SameTops
    BY <1>0, <2>2, LineTidy
  <2>4. Tagged(drv.gen)' /\ ~Closing'
    BY <1>0, <1>2, <1>12, <2>1 DEF CommitLine, At, JudgedTagged, Judging, Tagged, Onward, Closing
  <2>5. JudgedTagged'
    BY <2>1, <2>4 DEF JudgedTagged
  <2> QED BY <1>0, <1>1, <2>1, <2>3, <2>4, <2>5, OnwardProgress
<1>13. CASE Leave
  <2>1. archive' = archive /\ drv.pc = "leave"
    BY <1>13 DEF Leave, At
  <2>2. CASE drv.verb = "run" /\ drv.next = "evaluate" /\ drv' = [drv EXCEPT !.pc = "evaluate"]
    <3>1. Onward /\ drv'.pc = "evaluate"
      BY <1>0, <2>2 DEF Control, DrvFields, Onward
    <3>2. Tagged(drv.gen)' /\ ~Closing'
      BY <1>0, <1>2, <2>1, <2>2, <3>1 DEF JudgedTagged, Judging, Tagged, Onward, Closing
    <3>3. JudgedTagged'
      BY <3>1, <3>2 DEF JudgedTagged
    <3> QED BY <1>0, <1>1, <1>3, <2>1, <3>1, <3>2, <3>3, OnwardProgress
  <2>3. CASE ~(drv.verb = "run" /\ drv.next = "evaluate") /\ drv' = Done
    <3>1. drv.verb = "run" => Dealt(archive[drv.gen])
      BY <1>0, <2>1, <2>3 DEF Progress, Closing
    <3> QED BY <1>0, <1>1, <1>3, <2>1, <2>3, <3>1, IdleResting, RestingTagged, DoneProgress
  <2> QED BY <1>13, <2>2, <2>3 DEF Leave
<1> QED BY <1>7, <1>8, <1>9, <1>10, <1>11, <1>12, <1>13

LEMMA TagSettles ==
  ASSUME SettleInv, CreateTag
  PROVE  Tidy /\ TopsTagged' /\ JudgedTagged' /\ Progress' /\ AtTheEnd'
<1>0. Control /\ Orders /\ Progress /\ TopsTagged /\ Handles
  BY DEF SettleInv, OnceInv, DriverInv, CreateTag, At, Handles, Working
<1>1. archive' = archive /\ Goto("tagged") /\ DOMAIN commits' = DOMAIN commits \cup {drv.gen}
  BY DEF CreateTag
<1>2. Tidy /\ SameTops
  BY <1>0, <1>1, QuietTidy
<1>3. \A g : Tagged(g) => Tagged(g)'
  BY <1>1 DEF Tagged
<1>4. Onward /\ drv'.pc = "tagged"
  BY <1>0, <1>1, GotoOnward
<1>5. JudgedTagged' /\ ~Closing'
  BY <1>1, <1>4 DEF JudgedTagged, Tagged, Onward, Closing
<1>6. TopsTagged'
  BY <1>0, <1>2, <1>3, TagsKept
<1> QED BY <1>0, <1>2, <1>4, <1>5, <1>6, OnwardProgress

------------------------------------------------------------------------------
(* Its evaluation, its gate and its record. *)

LEMMA EvalChildSettles ==
  ASSUME SettleInv, EvalChild
  PROVE  Tidy /\ SameTops /\ JudgedTagged' /\ Progress' /\ AtTheEnd'
<1>0. /\ Control /\ NoRetry /\ Ledgers /\ Orders /\ Progress /\ TopsTagged /\ JudgedTagged
      /\ drv.pc = "evaluate" /\ Handles /\ drv.gen \in Genid /\ Tagged(drv.gen)
  BY DEF SettleInv, OnceInv, DriverInv, EvalChild, At, Handles, Naming, JudgedTagged, Judging
<1>1. PICK g : g = drv.gen
  OBVIOUS
<1>2. ASSUME archive' = archive PROVE Tidy /\ SameTops
  BY <1>0, <1>2, QuietTidy
<1>3. Skipped(g) <=> Evaluated(g) \/ Status(g) \in Unretryable
  BY <1>0 DEF Skipped, NoRetry
<1>4. Standing(g, archive[g]) /\ Orderly(g, archive[g])
  BY <1>0, <1>1 DEF Ledgers, Orders
<1>5. ~Skipped(g) => Open(g)
  <2>1. SUFFICES ASSUME ~Skipped(g) PROVE archive[g].top = None
    BY <1>3 DEF Open
  <2>2. PICK m : m = archive[g]
    OBVIOUS
  <2>3. Get(m.row, "outcome") \notin Outcomes
    BY <1>3, <2>1, <2>2 DEF Evaluated, Row
  <2> QED BY <1>4, <2>2, <2>3, TopEvaluated
<1>6. Skipped(g) => Status(g) \in Terminal
  BY <1>3, EvaluatedTerminal DEF Evaluated, Status, Terminal
<1>7. \/ /\ drv.verb = "run" /\ archive[g].awaiting /\ archive' = archive
         /\ drv' = [drv EXCEPT !.pc = "gate"]
      \/ /\ Skipped(g) /\ ~(drv.verb = "run" /\ archive[g].awaiting) /\ archive' = archive
         /\ drv' = Done
      \/ drv' = Idle /\ archive' = archive
      \/ ~Skipped(g) /\ \E p \in EvaluationParents(g) : Begin(g, "candidate", p)
      \/ /\ ~Skipped(g) /\ drv' = Done /\ "mutated" \notin DOMAIN Row(g)
         /\ \E p \in EvaluationParents(g) : AppendEvent(g, Discarded(p, "invalid_proposal"))
  BY <1>1 DEF EvalChild, durable
<1>8. CASE /\ drv.verb = "run" /\ archive[g].awaiting /\ archive' = archive
           /\ drv' = [drv EXCEPT !.pc = "gate"]
  <2>1. Onward /\ drv'.pc = "gate"
    BY <1>0, <1>8 DEF Control, DrvFields, Onward
  <2>2. Resting /\ ~Closing'
    BY <2>1 DEF Resting, Closing
  <2> QED BY <1>0, <1>2, <1>8, <2>1, <2>2, OnwardProgress, RestingTagged
<1>9. CASE /\ Skipped(g) /\ ~(drv.verb = "run" /\ archive[g].awaiting) /\ archive' = archive
           /\ drv' = Done
  <2>1. drv.verb = "run" => Dealt(archive'[drv.gen])
    BY <1>1, <1>6, <1>9 DEF Dealt, Status, Row
  <2> QED BY <1>0, <1>2, <1>9, <2>1, IdleResting, RestingTagged, DoneProgress
<1>10. CASE drv' = Idle /\ archive' = archive
  BY <1>2, <1>10, IdleResting, RestingTagged, IdleProgress
<1>11. CASE ~Skipped(g) /\ \E p \in EvaluationParents(g) : Begin(g, "candidate", p)
  <2>1. PICK p : Begin(g, "candidate", p)
    BY <1>11
  <2>2. archive' = archive
    BY <2>1 DEF Begin
  <2>3. Onward /\ drv'.pc = "evaluating"
    BY <1>0, <1>1, <2>1 DEF Begin, Control, DrvFields, Onward
  <2>4. JudgedTagged'
    BY <1>0, <1>1, <1>5, <1>11, <2>1, BeginTagged
  <2>5. ~Closing' /\ drv'.pc # "final"
    BY <2>3 DEF Closing
  <2> QED BY <1>0, <1>2, <2>2, <2>3, <2>4, <2>5, OnwardProgress
<1>12. CASE /\ ~Skipped(g) /\ drv' = Done /\ "mutated" \notin DOMAIN Row(g)
            /\ \E p \in EvaluationParents(g) : AppendEvent(g, Discarded(p, "invalid_proposal"))
  <2>1. PICK p \in Named : AppendEvent(g, Discarded(p, "invalid_proposal"))
    BY <1>0, <1>1, <1>12, EvaluationParentsNamed
  <2>2. PICK e \in Ends : e = Discarded(p, "invalid_proposal")
    BY EndsAndHarmless DEF Rejections
  <2>3. archive[g].top = None
    BY <1>5, <1>12 DEF Open
  <2>4. g # Genesis
    BY <1>4, <1>12, <2>3 DEF Orderly, Unevaluated, Row
  <2>5. Tidy /\ SameTops /\ Dealt(archive'[g])
    BY <1>0, <1>1, <2>1, <2>2, <2>3, <2>4, LineTidy
  <2> QED BY <1>0, <1>1, <1>12, <2>5, IdleResting, RestingTagged, DoneProgress
<1> QED BY <1>7, <1>8, <1>9, <1>10, <1>11, <1>12

LEMMA GateSettles ==
  ASSUME SettleInv, GateDecides \/ GateFails
  PROVE  Tidy /\ SameTops /\ JudgedTagged' /\ Progress' /\ AtTheEnd'
<1>0. /\ Control /\ SpentOnce /\ Ledgers /\ Orders /\ Progress /\ OnceInv /\ drv.parent \in Named
      /\ drv.pc = "gate" /\ Handles /\ drv.gen \in Genid /\ archive[drv.gen].awaiting
  BY DEF SettleInv, OnceInv, DriverInv, GateDecides, GateFails, At, Handles, Naming, Unfinished
<1>1. Tidy /\ SameTops /\ Dealt(archive'[drv.gen])
  <2>1. CASE GateDecides
    BY <1>0, <2>1, GateTidy
  <2>2. CASE GateFails
    <3>1. PICK g : g = drv.gen
      OBVIOUS
    <3>2. g # Genesis
      BY <1>0, <3>1 DEF SpentOnce, Spent
    <3>3. PICK e \in Ends : e = OperatorFailed(drv.parent)
      BY <1>0, EndsAndHarmless
    <3>4. AppendEvent(g, e) /\ e["status"] = "operator_failed"
      BY <2>2, <3>1, <3>3 DEF GateFails, OperatorFailed, Discarded
    <3> QED BY <1>0, <3>1, <3>2, <3>4, LineTidy
  <2> QED BY <2>1, <2>2
<1>2. \E ref, next : ThenRecord(ref, next)
  BY DEF GateDecides, GateFails
<1>3. Onward /\ drv'.pc = "record"
  BY <1>0, <1>2, RecordOnward
<1>4. Resting
  BY <1>3 DEF Resting
<1> QED BY <1>0, <1>1, <1>3, <1>4, OnwardProgress, RestingTagged

LEMMA RecordSettles ==
  ASSUME SettleInv, RecordTerminal
  PROVE  Tidy /\ SameTops /\ JudgedTagged' /\ Progress' /\ AtTheEnd'
<1>0. /\ Control /\ Ledgers /\ Orders /\ Progress /\ drv.pc = "record"
      /\ drv.next \in {"leave", "audit", "done", "selectFailed", "slots"}
  BY DEF SettleInv, OnceInv, DriverInv, RecordTerminal, At, Control
<1>1. Tidy /\ SameTops
  <2>1. CASE archive' = archive
    BY <1>0, <2>1, QuietTidy
  <2>2. CASE AppendEvent(drv.gen, RecordEvent) \/ AppendEvent(drv.gen, RecordError)
    <3>1. RecordEvent \in Harmless /\ RecordError \in Harmless
      BY DEF Harmless
    <3> QED BY <1>0, <2>2, <3>1, LineTidy
  <2> QED BY <2>1, <2>2 DEF RecordTerminal
<1>2. drv.verb = "run" /\ drv.gen \in Genid => Dealt(archive'[drv.gen])
  BY <1>0, <1>1 DEF Progress, Closing, Tidy
<1>3. drv' = Idle \/ drv' = AfterRecord
  BY DEF RecordTerminal
<1>4. CASE drv' = Idle
  BY <1>1, <1>4, IdleResting, RestingTagged, IdleProgress
<1>5. CASE drv' = AfterRecord /\ drv.next \in {"leave", "audit", "done"}
  <2>1. Handles /\ drv.gen \in Genid
    BY <1>0, <1>5 DEF Handles, SettleInv, OnceInv, DriverInv, Naming
  <2>2. CASE drv.next = "done"
    <3>1. drv' = Done
      BY <1>5, <2>2 DEF AfterRecord
    <3> QED BY <1>0, <1>1, <1>2, <2>1, <3>1, IdleResting, RestingTagged, DoneProgress
  <2>3. CASE drv.next \in {"leave", "audit"}
    <3>1. Goto(drv.next)
      BY <1>5, <2>3 DEF AfterRecord, Goto
    <3>2. Onward /\ drv'.pc = drv.next /\ drv'.next = drv.next
      BY <1>0, <3>1, GotoOnward
    <3>3. Resting
      BY <2>3, <3>2 DEF Resting
    <3> QED BY <1>0, <1>1, <1>2, <2>1, <2>3, <3>2, <3>3, OnwardProgress, RestingTagged
  <2> QED BY <1>5, <2>2, <2>3
<1>6. CASE drv' = AfterRecord /\ drv.next \in {"selectFailed", "slots"}
  <2>1. drv.verb = "run" /\ drv.round \in 1..MaxGen
    BY <1>0, <1>6 DEF Control, Loops
  <2>2. RoundsDealt(drv.round) /\ \A g \in Slots(drv.round) : Chosen(g)
    BY <1>0, <1>6, <2>1 DEF Progress, Choosing, Failing
  <2>3. /\ drv'.pc = drv.next /\ drv'.verb = "run" /\ drv'.round = drv.round
        /\ drv'.selected = drv.selected
        /\ drv.next = "selectFailed" => drv'.todo = drv.todo
        /\ drv.next = "slots" => drv'.slot = 0
    <3>1. CASE drv.next = "selectFailed"
      <4>1. drv' = [drv EXCEPT !.pc = "selectFailed"]
        BY <1>6, <3>1 DEF AfterRecord
      <4> QED BY <1>0, <2>1, <3>1, <4>1 DEF Control, DrvFields
    <3>2. CASE drv.next = "slots"
      <4>1. drv' = [Idle EXCEPT !.pc = "slots", !.verb = "run", !.round = drv.round,
                                !.selected = drv.selected]
        BY <1>6, <3>2 DEF AfterRecord
      <4> QED BY <3>2, <4>1 DEF Idle
    <3> QED BY <1>6, <3>1, <3>2
  <2>4. Resting /\ ~Closing' /\ AtTheEnd'
    BY <1>6, <2>3 DEF Resting, Closing, AtTheEnd
  <2>5. RoundsDealt(drv.round)'
    <3>1. PICK r : r = drv.round
      OBVIOUS
    <3>2. RoundsDealt(r)'
      BY <1>1, <2>2, <3>1, RoundsKept
    <3> QED BY <2>3, <3>1, <3>2 DEF RoundsDealt
  <2>6. Within' => SlotsDealt(drv.round, drv.slot)'
    <3>1. Within' => drv'.slot = 0
      BY <1>6, <2>3 DEF Within, Handles, Working
    <3>2. \A i \in 0..Children - 1 : ~(i < 0)
      BY DriverAssumption
    <3> QED BY <3>1, <3>2 DEF SlotsDealt
  <2>7. \A g \in Slots(drv'.round) : Chosen(g)'
    <3>1. SUFFICES ASSUME NEW g \in Slots(drv.round) PROVE Chosen(g)'
      BY <2>3
    <3>2. Dealt(archive[g]) \/ g \in DOMAIN drv.selected \/ (Failing /\ g \in drv.todo)
      BY <2>2 DEF Chosen
    <3>3. Dealt(archive[g]) => Dealt(archive'[g])
      BY <1>1, <2>1, SlotsAreGenerations DEF Tidy
    <3>4. Failing => Failing' /\ drv'.todo = drv.todo
      BY <1>0, <2>3 DEF Failing
    <3> QED BY <2>3, <3>2, <3>3, <3>4 DEF Chosen
  <2> QED BY <1>1, <2>4, <2>5, <2>6, <2>7, RestingTagged DEF Progress, Slots
<1> QED BY <1>0, <1>3, <1>4, <1>5, <1>6

LEMMA AuditSettles ==
  ASSUME SettleInv, Audit \/ FinishRun
  PROVE  Tidy /\ SameTops /\ JudgedTagged' /\ Progress' /\ AtTheEnd'
<1>0. Control /\ Ledgers /\ Orders /\ Progress
  BY DEF SettleInv, OnceInv, DriverInv
<1>1. CASE Audit
  <2>1. drv.pc = "audit" /\ Handles /\ drv.gen \in Genid /\ drv' = Done
    BY <1>1 DEF Audit, At, Handles, SettleInv, OnceInv, DriverInv, Naming
  <2>2. archive' = archive \/ AppendEvent(drv.gen, AuditEvent)
    BY <1>1 DEF Audit
  <2>3. Tidy /\ SameTops
    BY <1>0, <2>2, QuietTidy, LineTidy DEF Harmless
  <2>4. drv.verb = "run" => Dealt(archive'[drv.gen])
    BY <1>0, <2>1, <2>3 DEF Progress, Closing, Tidy
  <2> QED BY <1>0, <2>1, <2>3, <2>4, IdleResting, RestingTagged, DoneProgress
<1>2. CASE FinishRun
  <2>1. archive' = archive
    BY <1>2 DEF FinishRun, Begin, durable
  <2>2. Tidy /\ SameTops
    BY <1>0, <2>1, QuietTidy
  <2>3. drv' = Idle \/ \E best : Begin(best, "anchor", Get(Row(best), "parent"))
    BY <1>2 DEF FinishRun
  <2>4. CASE drv' = Idle
    BY <2>2, <2>4, IdleResting, RestingTagged, IdleProgress
  <2>5. CASE \E best : Begin(best, "anchor", Get(Row(best), "parent"))
    BY <1>0, <2>2, <2>5, BeginTagged, BeginProgress
  <2> QED BY <2>3, <2>4, <2>5
<1> QED BY <1>1, <1>2

LEMMA FinishEvaluationSettles ==
  ASSUME SettleInv, NEW outcome \in Outcomes, NEW score \in Scored,
         FinishEvaluation(outcome, score)
  PROVE  Tidy /\ TopsTagged' /\ JudgedTagged' /\ Progress' /\ AtTheEnd'
<1>0. /\ OnceInv /\ Control /\ Orders /\ Progress /\ TopsTagged /\ JudgedTagged
      /\ drv.pc = "evaluating" /\ drv.purpose \in Purposes
  BY DEF SettleInv, OnceInv, DriverInv, FinishEvaluation, At, Control
<1>1. PICK receipt \in BOOLEAN : receipt = TRUE
  OBVIOUS
<1>2. Stamp(outcome, score, receipt)
  BY <1>1 DEF FinishEvaluation
<1>3. /\ Tidy /\ drv.gen \in Genid
      /\ drv.purpose # "anchor" /\ outcome # "benchmark_complete" => Dealt(archive'[drv.gen])
  BY <1>0, <1>2, StampTidy
<1>4. TopsTagged'
  BY <1>0, <1>2, StampTags
<1>5. PICK complete \in BOOLEAN : complete <=> outcome = "benchmark_complete"
  OBVIOUS
<1>6. drv' = AfterEvaluation(complete)
  BY <1>5 DEF FinishEvaluation, AfterEvaluation
<1> DEFINE cleared == [drv EXCEPT !.purpose = None, !.label = None]
<1>7. \/ drv' = Idle
      \/ drv.verb = "run" /\ drv' = [cleared EXCEPT !.pc = "anchor"]
      \/ drv.verb = "run" /\ drv' = [cleared EXCEPT !.pc = "round", !.round = 1]
      \/ /\ drv.verb = "run" /\ drv.purpose = "candidate"
         /\ drv' = [cleared EXCEPT !.pc = "gate"]
      \/ /\ drv.verb = "run" /\ drv.purpose = "candidate" /\ ~complete
         /\ drv' = NextSlot
  BY <1>0, <1>6 DEF AfterEvaluation, Purposes
<1>8. CASE drv' = Idle
  BY <1>3, <1>4, <1>8, IdleResting, RestingTagged, IdleProgress
<1>9. ASSUME NEW pc \in {"anchor", "round"}, NEW r, drv'.pc = pc, drv'.round = r, RoundsDealt(r)
      PROVE  JudgedTagged' /\ Progress' /\ AtTheEnd'
  <2>1. ~Within' /\ ~Choosing' /\ ~Closing' /\ Resting
    BY <1>9 DEF Within, Choosing, Closing, Failing, Handles, Working, Resting
  <2>2. RoundsDealt(r)'
    BY <1>3, <1>9, RoundsKept
  <2>3. RoundsDealt(drv.round)'
    BY <1>9, <2>2 DEF RoundsDealt
  <2> QED BY <1>9, <2>1, <2>3, OutsideProgress, RestingTagged
<1>10. CASE drv.verb = "run" /\ drv' = [cleared EXCEPT !.pc = "anchor"]
  <2>1. drv'.pc = "anchor" /\ drv'.round = drv.round
    BY <1>0, <1>10 DEF Control, DrvFields
  <2> QED BY <1>0, <1>3, <1>4, <1>9, <1>10, <2>1 DEF Progress
<1>11. CASE drv.verb = "run" /\ drv' = [cleared EXCEPT !.pc = "round", !.round = 1]
  <2>1. drv'.pc = "round" /\ drv'.round = 1
    BY <1>0, <1>11 DEF Control, DrvFields
  <2> QED BY <1>3, <1>4, <1>9, <2>1, RoundsBehind
<1>12. CASE /\ drv.verb = "run" /\ drv.purpose = "candidate"
            /\ drv' = [cleared EXCEPT !.pc = "gate"]
  <2>1. Onward /\ drv'.pc = "gate"
    BY <1>0, <1>12 DEF Control, DrvFields, Onward
  <2>2. Resting /\ ~Closing' /\ Handles
    BY <1>0, <1>12, <2>1 DEF Resting, Closing, Handles
  <2> QED BY <1>0, <1>3, <1>4, <2>1, <2>2, OnwardProgress, RestingTagged
<1>13. CASE /\ drv.verb = "run" /\ drv.purpose = "candidate" /\ ~complete
            /\ drv' = NextSlot
  <2>1. Handles /\ Dealt(archive'[drv.gen])
    BY <1>0, <1>3, <1>5, <1>13 DEF Handles
  <2>2. drv' = Done
    BY <1>13 DEF Done
  <2> QED BY <1>0, <1>3, <1>4, <2>1, <2>2, IdleResting, RestingTagged, DoneProgress
<1> QED BY <1>7, <1>8, <1>10, <1>11, <1>12, <1>13

------------------------------------------------------------------------------
(* Every step settles. *)

Settles == Tidy /\ TopsTagged' /\ JudgedTagged' /\ Progress' /\ AtTheEnd'

LEMMA SameTagsSettle ==
  ASSUME TopsTagged, Tidy, SameTops, JudgedTagged', Progress', AtTheEnd', commits' = commits
  PROVE  Settles
<1>1. \A g : Tagged(g) => Tagged(g)'
  BY SameTags
<1> QED BY <1>1, TagsKept DEF Settles

LEMMA RunSettlesStep ==
  ASSUME SettleInv, RunStep PROVE Settles
<1>0. Orders /\ TopsTagged
  BY DEF SettleInv
<1>1. CASE CreateTag
  BY <1>1, TagSettles DEF Settles
<1>2. CASE \E r \in Results : FinishEvaluation(r[1], r[2])
  <2>1. PICK r \in Results : FinishEvaluation(r[1], r[2])
    BY <1>2
  <2>2. PICK outcome, score : outcome = r[1] /\ score = r[2]
    OBVIOUS
  <2>3. outcome \in Outcomes /\ score \in Scored /\ FinishEvaluation(outcome, score)
    BY <2>1, <2>2, ResultFacts
  <2> QED BY <2>3, FinishEvaluationSettles DEF Settles
<1>3. ASSUME ~CreateTag PROVE commits' = commits
  BY <1>3, OnlyCreateTagTags DEF Next
<1>4. CASE /\ ~CreateTag
           /\ \/ EnsureGenesis \/ EnsureGenesisAnchor \/ Round
              \/ \E ps \in Answers : Select(ps)
              \/ SelectFails \/ TakeSlot
  <2>1. archive' = archive
    BY <1>4 DEF EnsureGenesis, EnsureGenesisAnchor, Round, Select, SelectFails, TakeSlot, Begin,
                durable
  <2>2. Tidy /\ SameTops
    BY <1>0, <2>1, QuietTidy
  <2>3. JudgedTagged' /\ Progress' /\ AtTheEnd'
    BY <1>4, GenesisSettles, AnchorAndRoundSettle, SelectSettles, TakeSlotSettles
  <2> QED BY <1>0, <1>3, <1>4, <2>2, <2>3, SameTagsSettle
<1>5. CASE ~CreateTag /\ FailUnselected
  BY <1>0, <1>3, <1>5, FailUnselectedSettles, SameTagsSettle
<1>6. CASE /\ ~CreateTag
           /\ \/ Fork \/ Propose \/ StageFails \/ AdmitProposal
              \/ \E status \in Rejections : RejectProposal(status)
              \/ CommitSnapshot \/ CommitLine \/ Leave
  BY <1>0, <1>3, <1>6, ProposalSettles, SameTagsSettle
<1>7. CASE ~CreateTag /\ EvalChild
  BY <1>0, <1>3, <1>7, EvalChildSettles, SameTagsSettle
<1>8. CASE ~CreateTag /\ (GateDecides \/ GateFails)
  BY <1>0, <1>3, <1>8, GateSettles, SameTagsSettle
<1>9. CASE ~CreateTag /\ RecordTerminal
  BY <1>0, <1>3, <1>9, RecordSettles, SameTagsSettle
<1>10. CASE ~CreateTag /\ (Audit \/ FinishRun)
  BY <1>0, <1>3, <1>10, AuditSettles, SameTagsSettle
<1> QED BY <1>1, <1>2, <1>4, <1>5, <1>6, <1>7, <1>8, <1>9, <1>10 DEF RunStep

LEMMA VerbSettles ==
  ASSUME MaxRetries = 0, SettleInv, VerbStep PROVE Settles
<1>0. /\ Control /\ Ledgers /\ Orders /\ Progress /\ TopsTagged /\ NoRetry
  BY DEF SettleInv, OnceInv, DriverInv
<1>1. commits' = commits
  BY OnlyCreateTagTags DEF Next, VerbStep, StartRun, AgentFork, AgentEdit, AgentCommit,
     UserResetsTree, AgentEval, Retry, Finalize, SealChampion, Annotate, Repair,
     UserDeletesStrays, durable
<1>2. ASSUME archive' = archive PROVE Tidy /\ SameTops
  BY <1>0, <1>2, QuietTidy
<1>3. ASSUME Tidy, SameTops, JudgedTagged', drv'.verb # "run", drv'.pc # "final" PROVE Settles
  BY <1>0, <1>1, <1>3, NoRunProgress, SameTagsSettle
<1>4. ASSUME Tidy, SameTops, drv.pc = "idle", drv' = drv PROVE Settles
  <2>1. ~Within' /\ ~Choosing' /\ ~Closing' /\ Resting
    BY <1>4 DEF Within, Choosing, Closing, Failing, Handles, Working, Resting
  <2>2. CASE drv.verb = "run"
    <3>1. PICK r : r = drv.round
      OBVIOUS
    <3>2. RoundsDealt(r)'
      BY <1>0, <1>4, <2>2, <3>1, RoundsKept DEF Progress
    <3>3. RoundsDealt(drv.round)'
      BY <1>4, <3>1, <3>2 DEF RoundsDealt
    <3> QED BY <1>0, <1>1, <1>4, <2>1, <3>3, OutsideProgress, RestingTagged, SameTagsSettle
  <2>3. CASE drv.verb # "run"
    BY <1>3, <1>4, <2>1, <2>3, RestingTagged
  <2> QED BY <2>2, <2>3
<1>5. CASE \/ \E g \in Candidates, p \in Genid : AgentFork(g, p)
           \/ \E g \in Candidates : AgentEdit(g) \/ UserResetsTree(g)
           \/ Repair \/ UserDeletesStrays
  <2>1. archive' = archive /\ drv' = drv /\ drv.pc = "idle"
    BY <1>5 DEF AgentFork, AgentEdit, UserResetsTree, Repair, UserDeletesStrays, Idling
  <2> QED BY <1>2, <1>4, <2>1
<1>6. CASE StartRun
  <2>1. archive' = archive /\ drv'.pc = "genesis" /\ drv'.verb = "run" /\ drv'.round = 0
    BY <1>6 DEF StartRun, durable, Idle
  <2>2. ~Within' /\ ~Choosing' /\ ~Closing' /\ Resting
    BY <2>1 DEF Within, Choosing, Closing, Failing, Handles, Working, Resting
  <2>3. RoundsDealt(0)
    BY RoundsBehind
  <2>4. RoundsDealt(drv.round)'
    BY <2>1, <2>3 DEF RoundsDealt
  <2> QED BY <1>0, <1>1, <1>2, <2>1, <2>2, <2>4, OutsideProgress, RestingTagged, SameTagsSettle
<1>7. CASE \E g \in Candidates : AgentCommit(g)
  <2>1. archive' = archive /\ drv'.pc = "commit" /\ drv'.verb = "agent"
    BY <1>7 DEF AgentCommit, durable, Idle
  <2>2. Resting
    BY <2>1 DEF Resting
  <2> QED BY <1>2, <1>3, <2>1, <2>2, RestingTagged
<1>8. ASSUME NEW g \in Genid, AgentEval(g) PROVE Settles
  <2>1. archive' = archive /\ drv'.pc = "evaluate" /\ drv'.verb = "eval" /\ drv'.gen = g
    BY <1>8 DEF AgentEval, durable, Idle
  <2>2. Tagged(g)
    BY <1>8 DEF AgentEval
  <2>3. JudgedTagged'
    BY <1>1, <2>1, <2>2 DEF JudgedTagged, Judging, Tagged
  <2> QED BY <1>2, <1>3, <2>1, <2>3
<1>9. ASSUME NEW g \in Genid, Finalize(g) PROVE Settles
  <2>1. archive' = archive /\ drv'.pc = "gate" /\ drv'.verb = "finalize"
    BY <1>9 DEF Finalize, durable, Idle
  <2>2. Resting
    BY <2>1 DEF Resting
  <2> QED BY <1>2, <1>3, <2>1, <2>2, RestingTagged
<1>10. ASSUME NEW g \in Genid, SealChampion(g) PROVE Settles
  <2>1. archive' = archive /\ drv'.pc = "evaluating" /\ drv'.verb = "seal" /\ drv'.purpose = "anchor"
    BY <1>10 DEF SealChampion, Idle
  <2>2. JudgedTagged'
    BY <2>1 DEF JudgedTagged, Judging
  <2> QED BY <1>2, <1>3, <2>1, <2>2
<1>11. ASSUME NEW g \in Genid, Annotate(g) PROVE Settles
  <2>1. AppendEvent(g, AuditEvent) /\ drv' = drv /\ drv.pc = "idle"
    BY <1>11 DEF Annotate, Idling
  <2>2. AuditEvent \in Harmless
    BY DEF Harmless
  <2>3. Tidy /\ SameTops
    BY <1>0, <2>1, <2>2, LineTidy
  <2> QED BY <1>4, <2>1, <2>3
<1>12. ASSUME NEW g \in Genid, Retry(g) PROVE FALSE
  BY <1>0, <1>12 DEF Retry, NoRetry
<1> QED BY <1>5, <1>6, <1>7, <1>8, <1>9, <1>10, <1>11, <1>12 DEF VerbStep

LEMMA FaultSettles ==
  ASSUME SettleInv, FaultStep PROVE Settles
<1>0. OnceInv /\ Orders /\ TopsTagged /\ JudgedTagged
  BY DEF SettleInv
<1>1. drv' = Idle
  BY DEF FaultStep, Kill, KillInStamp, Interrupt
<1>2. JudgedTagged' /\ Progress' /\ AtTheEnd'
  BY <1>1, IdleResting, RestingTagged, IdleProgress
<1>3. ASSUME archive' = archive, commits' = commits PROVE Settles
  BY <1>0, <1>2, <1>3, QuietTidy, SameTagsSettle
<1>4. ASSUME drv.pc = "evaluating", NEW outcome \in Outcomes, NEW score \in Scored,
             NEW receipt \in BOOLEAN, Stamp(outcome, score, receipt)
      PROVE  Settles
  BY <1>0, <1>2, <1>4, StampTidy, StampTags DEF Settles
<1>5. CASE Kill
  BY <1>3, <1>5 DEF Kill
<1>6. CASE \E r \in Results : KillInStamp(r[1], r[2])
  <2>1. PICK r \in Results : KillInStamp(r[1], r[2])
    BY <1>6
  <2>2. PICK outcome, score : outcome = r[1] /\ score = r[2]
    OBVIOUS
  <2>3. PICK receipt \in BOOLEAN : receipt = FALSE
    OBVIOUS
  <2>4. outcome \in Outcomes /\ score \in Scored
    BY <2>2, ResultFacts
  <2>5. Stamp(outcome, score, receipt) /\ drv.pc = "evaluating"
    BY <2>1, <2>2, <2>3 DEF KillInStamp, At
  <2> QED BY <1>4, <2>4, <2>5
<1>7. CASE Interrupt
  <2>1. CASE drv.pc = "evaluating"
    <3>1. PICK outcome, score : outcome = "cancelled" /\ score = None
      OBVIOUS
    <3>2. PICK receipt \in BOOLEAN : receipt = TRUE
      OBVIOUS
    <3>3. outcome \in Outcomes /\ score \in Scored
      BY <3>1 DEF Outcomes, Scored
    <3>4. Stamp(outcome, score, receipt)
      BY <1>7, <2>1, <3>1, <3>2 DEF Interrupt, At
    <3> QED BY <1>4, <2>1, <3>3, <3>4
  <2>2. CASE drv.pc # "evaluating"
    BY <1>3, <1>7, <2>2 DEF Interrupt, At
  <2> QED BY <2>1, <2>2
<1> QED BY <1>5, <1>6, <1>7 DEF FaultStep

LEMMA SettleInvKept ==
  ASSUME MaxRetries = 0, SettleInv, [Next]_vars PROVE SettleInv'
<1>1. OnceInv'
  BY OnceInvKept DEF SettleInv
<1>2. CASE UNCHANGED vars
  <2>1. archive' = archive /\ commits' = commits /\ drv' = drv
    BY <1>2 DEF vars
  <2>2. Orders' /\ TopsTagged'
    BY <2>1, QuietTidy DEF SettleInv, Tidy, TopsTagged, Tagged
  <2>3. JudgedTagged'
    BY <2>1 DEF SettleInv, JudgedTagged, Judging, Tagged, Open, Status, Row
  <2>4. AtTheEnd'
    BY <2>1 DEF SettleInv, AtTheEnd
  <2>5. Progress'
    <3>1. (Closing' <=> Closing) /\ (Within' <=> Within) /\ (Choosing' <=> Choosing)
          /\ \A g : Chosen(g)' <=> Chosen(g)
      BY <2>1 DEF Closing, Within, Choosing, Failing, Handles, Working, Chosen
    <3> QED BY <2>1, <3>1 DEF SettleInv, Progress, RoundsDealt, SlotsDealt, Slots
  <2> QED BY <1>1, <2>2, <2>3, <2>4, <2>5 DEF SettleInv
<1>3. CASE Next
  <2>1. Settles
    BY <1>3, RunSettlesStep, VerbSettles, FaultSettles DEF Next
  <2> QED BY <1>1, <2>1 DEF Settles, Tidy, SettleInv
<1> QED BY <1>2, <1>3

LEMMA InitSettleInv == Init => SettleInv
<1> SUFFICES ASSUME Init PROVE SettleInv
  OBVIOUS
<1>1. OnceInv
  BY InitOnceInv
<1>2. drv.pc = "idle" /\ drv.verb = "none" /\ drv.next = "idle"
  BY DEF Init, Idle
<1>3. JudgedTagged /\ Progress /\ AtTheEnd
  BY <1>2 DEF JudgedTagged, Judging, Progress, AtTheEnd
<1>4. PICK m : m = Empty
  OBVIOUS
<1>5. /\ DOMAIN m = LedgerFields /\ m.row = << >> /\ m.top = None /\ m.lines = {} /\ ~m.awaiting
  BY <1>4 DEF Empty, LedgerFields
<1>6. PICK row : row = m.row
  OBVIOUS
<1>7. DOMAIN row = {}
  BY <1>5, <1>6
<1>8. ASSUME NEW g, g # Genesis PROVE Orderly(g, m)
  <2>1. Get(row, "verdict") # "keep"
    BY <1>7, NoneAssumption DEF Get
  <2> QED BY <1>5, <1>6, <1>7, <1>8, <2>1, NoneAssumption
          DEF Orderly, Unevaluated, Verdicts, Endings
<1>9. PICK z, e, receipt : z = TRUE /\ e = Scaffold /\ receipt = FALSE
  OBVIOUS
<1>10. PICK l : l = Record(m, z, e, receipt)
  OBVIOUS
<1>11. /\ Plain(e) /\ "reason" \notin DOMAIN e /\ Get(e, "purpose") = None
       /\ DOMAIN e = {"parent", "score", "status", "valid_parent", "verdict", "mutated", "note"}
       /\ e["status"] = "pending" /\ e["verdict"] = "pending" /\ e["note"] = ScaffoldNote
       /\ e["valid_parent"] = FALSE
  BY <1>9, PlainLines DEF Scaffold, Get
<1>12. PICK r : r = MergeEventFields(row, e)
  OBVIOUS
<1>13. /\ l.row = r /\ l.top = m.top /\ l.lines = m.lines \cup {e}
       /\ l.awaiting <=> m.awaiting /\ ~IsGateRecord(e)
  <2>1. Plain(e) /\ e \notin m.lines /\ DOMAIN m = LedgerFields
    BY <1>5, <1>11
  <2> QED BY <1>6, <1>10, <1>12, <2>1, PlainRecord
<1>14. /\ DOMAIN r \subseteq DOMAIN e
       /\ \A k \in {"score", "status", "verdict", "mutated", "note"} : Get(r, k) = e[k]
  BY <1>7, <1>11, <1>12, MergeFacts DEF Reserved
<1>15. Get(r, "valid_parent") = FALSE
  <2>1. MergesPlain(row, r, e)
    BY <1>7, <1>11, <1>12, PlainMergeFields
  <2> QED BY <1>11, <2>1 DEF MergesPlain, Get
<1>16. Orderly(Genesis, l)
  <2>1. DOMAIN r \cap Stamped = {"score", "status"} /\ "mutated" \in DOMAIN r
    <3>1. MergeEventFields(row, e) = Overlay(row, Only(e, DOMAIN e))
      <4>1. \A k \in DOMAIN e : k \notin Reserved /\ k \notin DOMAIN row
        BY <1>7, <1>11 DEF Reserved
      <4>2. e["valid_parent"] # TRUE
        BY <1>11
      <4> QED BY <4>1, <4>2 DEF MergeEventFields
    <3>2. DOMAIN r = DOMAIN e
      BY <1>7, <1>12, <3>1 DEF Overlay, Only
    <3> QED BY <1>11, <3>2 DEF Stamped
  <2>2. Get(r, "verdict") # "keep" /\ Get(r, "status") = "pending" /\ Get(r, "note") = ScaffoldNote
    BY <1>11, <1>14
  <2>3. Verdicts(l) = {}
    BY <1>5, <1>11, <1>13 DEF Verdicts
  <2>4. \A f \in l.lines : Get(f, "purpose") \notin {"genesis", "candidate"}
    BY <1>5, <1>11, <1>13, NoneAssumption
  <2>5. Unevaluated(Genesis, l)
    BY <1>5, <1>13, <1>15, <2>1, <2>2, <2>3, <2>4 DEF Unevaluated
  <2> QED BY <1>5, <1>13, <2>5, NoneAssumption DEF Orderly
<1>17. archive = [g \in Genid |-> IF g = Genesis THEN l ELSE m]
  BY <1>4, <1>9, <1>10 DEF Init
<1>18. Orders
  BY <1>8, <1>16, <1>17 DEF Orders
<1>19. TopsTagged
  <2>1. Tagged(Genesis)
    BY DEF Init, Tagged
  <2>2. \A g \in Genid : archive[g].top = None
    BY <1>5, <1>13, <1>17
  <2> QED BY <2>1, <2>2, NoneAssumption DEF TopsTagged
<1> QED BY <1>1, <1>3, <1>18, <1>19 DEF SettleInv

LEMMA SettledSummary ==
  ASSUME Ledgers, Orders, NEW g \in Genid,
         \/ Get(Row(g), "status") = "complete" /\ EvaluatedGeneration(g)
         \/ Get(Row(g), "status") = "rejected_validation" /\ ValidationRejection(g)
  PROVE  ~Pending(g) /\ (Get(Row(g), "verdict") = "keep" <=> IsParent(g))
<1>1. PICK m, row : m = archive[g] /\ row = m.row
  OBVIOUS
<1>2. Row(g) = row /\ Status(g) = EvaluationStatus(row)
  BY <1>1 DEF Row, Status
<1>3. Standing(g, m) /\ Orderly(g, m)
  BY <1>1 DEF Ledgers, Orders
<1>4. /\ m.top \in {None, "dev"} /\ None # "dev"
      /\ m.top = "dev" <=> Get(row, "outcome") \in Outcomes
  BY <1>1, <1>3, TopEvaluated
<1>5. CASE Get(row, "status") = "complete" /\ EvaluatedGeneration(g)
  <2>1. /\ Get(row, "outcome") = "benchmark_complete" /\ Get(row, "receipt_certified") = TRUE
        /\ Get(row, "pending_gate_record") = FALSE /\ Get(row, "valid_parent") \in BOOLEAN
        /\ Get(row, "verdict") = (IF row["valid_parent"] THEN "keep" ELSE "discard")
        /\ Tagged(g)
    BY <1>2, <1>5 DEF EvaluatedGeneration
  <2>2. m.top = "dev" /\ Concluded(m) /\ Conclusive(row)
    BY <1>1, <1>3, <1>4, <2>1 DEF Orderly, Concluded, Outcomes
  <2>3. ~m.awaiting
    BY <1>1, <2>1, <2>2 DEF Concluded
  <2>4. ~Pending(g)
    BY <1>1, <1>2, <1>4, <2>2, <2>3, EvaluatedTerminal DEF Pending
  <2>5. row["valid_parent"] = Get(row, "valid_parent")
    BY <2>1, NoneAssumption DEF Get
  <2>6. Get(row, "verdict") = "keep" => Get(row, "valid_parent") = TRUE
    BY <2>1, <2>5
  <2>7. Get(row, "score") # None
    BY <1>5, <2>2 DEF Conclusive
  <2> QED BY <1>2, <2>1, <2>2, <2>4, <2>6, <2>7 DEF IsParent, IsParentRecord, Conclusive
<1>6. CASE Get(row, "status") = "rejected_validation" /\ ValidationRejection(g)
  <2>1. m.top = None
    BY <1>1, <1>3, <1>4, <1>6 DEF Orderly, Concluded, Rejections
  <2>2. Unevaluated(g, m) /\ Get(row, "outcome") \notin Outcomes
    BY <1>3, <1>4, <2>1 DEF Orderly
  <2>3. Status(g) \in Terminal
    BY <1>2, <1>6, <2>2, EvaluatedTerminal DEF Terminal, Unretryable, Rejections
  <2>4. ~Pending(g) /\ Get(row, "verdict") # "keep"
    BY <1>1, <2>2, <2>3 DEF Pending, Unevaluated
  <2>5. ~IsParent(g)
    BY <1>6 DEF ValidationRejection, IsParent
  <2> QED BY <1>2, <2>4, <2>5
<1> QED BY <1>2, <1>5, <1>6

\* A run that reaches its end has dealt with every generation, and a run summary that
\* passes names as kept exactly what select may take and leaves a resume nothing to do:
\* when nothing is retried, whatever failed, was killed and was resumed on the way.
THEOREM RunsSettle == MaxRetries = 0 => (Spec => []RunSettles)
<1> SUFFICES ASSUME MaxRetries = 0 PROVE Spec => []RunSettles
  OBVIOUS
<1>1. SettleInv => RunSettles
  <2> SUFFICES ASSUME SettleInv PROVE RunSettles
    OBVIOUS
  <2>0. Ledgers /\ Orders /\ Progress /\ AtTheEnd /\ Control
    BY DEF SettleInv, OnceInv, DriverInv
  <2>1. ASSUME At("final"), NEW g \in Candidates, Pending(g)
        PROVE  archive[g].awaiting /\ Get(Row(g), "status") = "operator_failed"
    <3>1. RoundsDealt(drv.round) /\ drv.round > MaxGen /\ drv.round \in Nat
      BY <2>0, <2>1 DEF At, AtTheEnd, Progress, Control
    <3>2. g[1] < drv.round
      BY <3>1, DriverAssumption DEF Candidates
    <3>3. Dealt(archive[g])
      BY <3>1, <3>2 DEF RoundsDealt
    <3> QED BY <2>1, <3>3 DEF Dealt, Pending, Status, Row
  <2>2. ASSUME RunPassed, NEW g \in Genid
        PROVE  ~Pending(g) /\ (Get(Row(g), "verdict") = "keep" <=> IsParent(g))
    BY <2>0, <2>2, SettledSummary DEF RunPassed
  <2> QED BY <2>1, <2>2 DEF RunSettles
<1>2. SettleInv /\ [Next]_vars => SettleInv'
  BY SettleInvKept
<1> QED BY <1>1, <1>2, InitSettleInv, PTL DEF Spec

------------------------------------------------------------------------------
(* The driver implements Generation, one per generation id.  A step appends  *)
(* at most one line, starts an evaluation, or ends one (Kinds); each kind is *)
(* a step of the generation at hand and leaves the others alone (KindsLive). *)
(* Which kind a verb's step is, and that Generation allows it, rests on what *)
(* the lock holder knows of the generation (Paced), on what its lines say of *)
(* its row (Registers), and on an account of its attempts: each one but the  *)
(* first was paid for with a fault, a failure or a retry (Account), so that  *)
(* AttemptBound forbids nothing.                                             *)

(* Generation seen through the mapping of DriverProps. *)

LEMMA LifeArchive ==
  ASSUME NEW g
  PROVE  /\ \A d, k : Life(g)!Get(d, k) = Get(d, k)
         /\ \A d : Life(g)!EvaluationStatus(d) = EvaluationStatus(d)
         /\ \A m : Life(g)!HasCompleteAnchor(m) <=> HasCompleteAnchor(m)
         /\ \A row : Life(g)!IsParentRecord(row) <=> IsParentRecord(row)
         /\ Life(g)!Outcomes = Outcomes
BY DEF Life!Get, Get, Life!EvaluationStatus, EvaluationStatus, Life!Outcomes, Outcomes,
       Life!HasCompleteAnchor, HasCompleteAnchor, Life!IsParentRecord, IsParentRecord

LEMMA LifeMerge ==
  ASSUME NEW g, NEW m, NEW z, NEW e, NEW receipt
  PROVE  Life(g)!Merge(m, z, e, receipt) = Merge(m, z, e, receipt)
BY DEF Life!Merge, Merge, Life!IsKeyedEvaluation, IsKeyedEvaluation,
  Life!IsUncertifiedRepeat, IsUncertifiedRepeat,
  Life!MergeKeyedEvaluation, MergeKeyedEvaluation,
  Life!IsGenesisReplacement, IsGenesisReplacement, Life!ReplaceTop, ReplaceTop, Life!MergeNote,
  MergeNote, Life!EvaluationEntry, EvaluationEntry, Life!MergeEntry, MergeEntry,
  Life!EvaluationFields, EvaluationFields,
  Life!MergeEventFields, MergeEventFields, Life!CanReplaceStamped, CanReplaceStamped,
  Life!IsRetryOfFailure, IsRetryOfFailure, Life!EvaluationStatus, EvaluationStatus,
  Life!Get, Get, Life!Overlay, Overlay, Life!Only, Only, Life!Outcomes, Outcomes,
  Life!Stamped, Stamped, Life!Reserved, Reserved, Life!ScaffoldNote, ScaffoldNote,
  Life!PendingNote, PendingNote

LEMMA LifeScan ==
  ASSUME NEW g, NEW e
  PROVE  /\ Life(g)!IsEvaluationStamp(e) <=> IsEvaluationStamp(e)
         /\ Life(g)!IsGateRecord(e) <=> IsGateRecord(e)
BY DEF Life!IsEvaluationStamp, IsEvaluationStamp,
  Life!IsGateRecord, IsGateRecord, Life!Get, Get,  Life!Outcomes, Outcomes,
  Life!Stamped, Stamped, Life!PendingNote, PendingNote

LEMMA LifeRecord ==
  ASSUME NEW g, NEW m, NEW z, NEW e, NEW receipt
  PROVE  Life(g)!Record(m, z, e, receipt) = Record(m, z, e, receipt)
<1>1. PICK n : n = Merge(m, z, e, receipt)
  OBVIOUS
<1>2. Life(g)!Merge(m, z, e, receipt) = n
  BY <1>1, LifeMerge
<1> QED BY <1>1, <1>2, LifeScan DEF Life!Record, Record

LEMMA LifeLines ==
  ASSUME NEW g
  PROVE  /\ \A p : Life(g)!CommitEvent(p) = CommitEvent(p)
         /\ \A p, s : Life(g)!Discarded(p, s) = Discarded(p, s)
         /\ \A p : Life(g)!OperatorFailed(p) = OperatorFailed(p)
         /\ \A a, r : Life(g)!GateEvent(a, r) = GateEvent(a, r)
         /\ Life(g)!RecordEvent = RecordEvent /\ Life(g)!RecordError = RecordError
         /\ Life(g)!AuditEvent = AuditEvent /\ Life(g)!Scaffold = Scaffold
BY DEF Life!CommitEvent, CommitEvent, Life!Discarded, Discarded, Life!OperatorFailed,
  OperatorFailed, Life!GateEvent, GateEvent, Life!RecordEvent, RecordEvent, Life!RecordError,
  RecordError, Life!AuditEvent, AuditEvent, Life!Scaffold, Scaffold, Life!ScaffoldNote, ScaffoldNote

LEMMA LifeEvaluation ==
  ASSUME NEW g, NEW purpose, NEW p, NEW outcome, NEW score, NEW attempt
  PROVE  Life(g)!Evaluation(purpose, p, outcome, score, attempt)
         = LineFor(g = Genesis, purpose, p, outcome, score, attempt)
<1>1. \A pur, o, s, a, b, d :
        Life(g)!EvaluationEvent(pur, o, s, a, b, d) = EvaluationEvent(pur, o, s, a, b, d)
  BY DEF Life!EvaluationEvent, EvaluationEvent, Life!Overlay, Overlay
<1>2. \A d, e : Life(g)!Overlay(d, e) = Overlay(d, e)
  BY DEF Life!Overlay, Overlay
<1>3. Life(g)!GenesisEvaluation(p, outcome, score, attempt)
      = GenesisEvaluation(p, outcome, score, attempt)
  BY <1>1 DEF Life!GenesisEvaluation, GenesisEvaluation
<1>4. Life(g)!AnchorEvaluation(p, outcome, score, attempt)
      = AnchorEvaluation(p, outcome, score, attempt)
  BY <1>1 DEF Life!AnchorEvaluation, AnchorEvaluation
<1>5. ASSUME NEW z
      PROVE  Life(g)!CandidateEvaluation(z, p, outcome, score, attempt)
             = CandidateEvaluation(z, p, outcome, score, attempt)
  BY DEF Life!CandidateEvaluation, CandidateEvaluation, Life!PendingNote, PendingNote,
         Life!EvaluationEvent, EvaluationEvent, Life!Overlay, Overlay
<1> QED BY <1>3, <1>4, <1>5 DEF Life!Evaluation, LineFor

LEMMA LifeStatuses ==
  ASSUME NEW g
  PROVE  /\ Life(g)!Purposes = Purposes /\ Life(g)!FailureOutcomes = FailureOutcomes
         /\ Life(g)!Rejections = Rejections /\ Life(g)!Unretryable = Unretryable
         /\ Life(g)!Terminal = Terminal
BY DEF Life!Purposes, Purposes, Life!FailureOutcomes, FailureOutcomes, Life!Outcomes, Outcomes,
  Life!Rejections, Rejections, Life!Unretryable, Unretryable, Life!Terminal, Terminal

------------------------------------------------------------------------------
(* The steps of a generation. *)

Running(g) == IF drv.pc = "evaluating" /\ drv.gen = g THEN drv.purpose ELSE None

LivesOn(g) == [Life(g)!Next]_(Life(g)!vars)

LEMMA Untouched ==
  ASSUME NEW g, archive'[g] = archive[g], attempts'[g] = attempts[g], stamps'[g] = stamps[g],
         gated'[g] = gated[g], Running(g)' = Running(g)
  PROVE  LivesOn(g)
BY DEF LivesOn, Life!vars, Running

LEMMA OthersUntouched ==
  ASSUME DOMAIN archive = Genid, NEW g, NEW h \in Genid, h # g,
         \E l : archive' = [archive EXCEPT ![g] = l], attempts' = attempts, stamps' = stamps,
         gated'[h] = gated[h], Running(h)' = Running(h)
  PROVE  LivesOn(h)
BY Untouched

\* One line, and nothing else of the generation.
Appends(g, e) ==
  /\ archive' = [archive EXCEPT ![g] = Record(archive[g], g = Genesis, e, FALSE)]
  /\ attempts' = attempts /\ stamps' = stamps
  /\ drv.pc # "evaluating" /\ drv'.pc # "evaluating"

LEMMA LifeAppend ==
  ASSUME DOMAIN archive = Genid, NEW g \in Genid, NEW e, Appends(g, e)
  PROVE  /\ Life(g)!AppendEvent(e)
         /\ attempts'[g] = attempts[g] /\ stamps'[g] = stamps[g]
         /\ Running(g) = None /\ Running(g)' = None
         /\ \A h \in Genid \ {g} : gated'[h] = gated[h] => LivesOn(h)
<1>1. archive'[g] = Record(archive[g], g = Genesis, e, FALSE)
  BY DEF Appends
<1>2. Running(g) = None /\ Running(g)' = None /\ \A h : Running(h)' = Running(h)
  BY DEF Running, Appends
<1>3. Life(g)!AppendEvent(e)
  BY <1>1, <1>2, LifeRecord DEF Life!AppendEvent, Running
<1>4. ASSUME NEW h \in Genid \ {g}, gated'[h] = gated[h] PROVE LivesOn(h)
  BY <1>2, <1>4, OthersUntouched DEF Appends
<1> QED BY <1>2, <1>3, <1>4 DEF Appends

\* The lines that leave the gate's word alone, and when they may be appended.
MayAppend(g, e) ==
  \/ g # Genesis /\ archive[g].lines = {} /\ \E p \in Genid : e = CommitEvent(p)
  \/ /\ g # Genesis /\ Get(archive[g].row, "outcome") \notin Outcomes
     /\ \E p \in Genid, s \in Rejections : e = Discarded(p, s)
  \/ g # Genesis /\ Pending(g) /\ \E p \in Genid \cup {None} : e = OperatorFailed(p)
  \/ ~archive[g].attempted /\ e \in {RecordEvent, RecordError}
  \/ archive[g].lines # {} /\ e = AuditEvent

LEMMA LineLives ==
  ASSUME DOMAIN archive = Genid, NEW g \in Genid, NEW e, Appends(g, e), gated' = gated,
         MayAppend(g, e)
  PROVE  \A h \in Genid : LivesOn(h)
<1>1. /\ Life(g)!AppendEvent(e) /\ attempts'[g] = attempts[g] /\ stamps'[g] = stamps[g]
      /\ Running(g) = None /\ Running(g)' = None
      /\ \A h \in Genid \ {g} : LivesOn(h)
  BY LifeAppend
<1>2. ASSUME NEW p \in Genid, g # Genesis, archive[g].lines = {}, e = CommitEvent(p)
      PROVE  Life(g)!Commit(p)
  BY <1>1, <1>2, LifeLines DEF Life!Commit, Running
<1>3. ASSUME NEW p \in Genid, NEW s \in Rejections, g # Genesis,
             Get(archive[g].row, "outcome") \notin Outcomes, e = Discarded(p, s)
      PROVE  Life(g)!Reject(p, s)
  BY <1>1, <1>3, LifeLines, LifeArchive DEF Life!Reject, Running
<1>4. ASSUME NEW p \in Genid \cup {None}, g # Genesis, Pending(g), e = OperatorFailed(p)
      PROVE  Life(g)!Fail(p)
  <2>1. Life(g)!Pending(archive[g])
    BY <1>4, LifeArchive, LifeStatuses DEF Life!Pending, Pending, Status, Row
  <2> QED BY <1>1, <1>4, <2>1, LifeLines DEF Life!Fail, Running
<1>5. ASSUME ~archive[g].attempted, e \in {RecordEvent, RecordError}
      PROVE  e \in {Life(g)!RecordEvent, Life(g)!RecordError} /\ Life(g)!RecordTerminal(e)
  BY <1>1, <1>5, LifeLines DEF Life!RecordTerminal, Running
<1>6. ASSUME archive[g].lines # {}, e = AuditEvent
      PROVE  Life(g)!Annotate
  BY <1>1, <1>6, LifeLines DEF Life!Annotate, Running
<1>7. Life(g)!Next
  BY <1>2, <1>3, <1>4, <1>5, <1>6, LifeStatuses DEF Life!Next, MayAppend
<1> QED BY <1>1, <1>7 DEF LivesOn

LEMMA GateLives ==
  ASSUME DOMAIN archive = Genid, DOMAIN gated = Genid, NEW g \in Genid, NEW accept \in BOOLEAN,
         NEW reason \in (Scores \cup {None, 0}) \X (Scores \cup {None}),
         NEW e, e = GateEvent(accept, reason), Appends(g, e), archive[g].awaiting,
         gated' = IF e \in archive[g].lines THEN gated
                  ELSE [gated EXCEPT ![g] = IF accept THEN "accept" ELSE "reject"]
  PROVE  \A h \in Genid : LivesOn(h)
<1>1. /\ Life(g)!AppendEvent(e) /\ attempts'[g] = attempts[g] /\ stamps'[g] = stamps[g]
      /\ Running(g) = None /\ Running(g)' = None
      /\ \A h \in Genid \ {g} : gated'[h] = gated[h] => LivesOn(h)
  BY LifeAppend
<1>2. \A h \in Genid \ {g} : gated'[h] = gated[h]
  OBVIOUS
<1>3. gated'[g] = IF e \in archive[g].lines THEN gated[g]
                  ELSE IF accept THEN "accept" ELSE "reject"
  OBVIOUS
<1>4. Life(g)!Gate(accept, reason)
  BY <1>1, <1>3, LifeLines DEF Life!Gate, Running
<1>5. Life(g)!Next
  BY <1>4 DEF Life!Next
<1> QED BY <1>1, <1>2, <1>5 DEF LivesOn

\* An evaluation begins.
Starts(g, purpose) ==
  /\ attempts' = [attempts EXCEPT ![g][purpose] = @ + 1]
  /\ drv.pc # "evaluating"
  /\ drv'.pc = "evaluating" /\ drv'.gen = g /\ drv'.purpose = purpose
  /\ archive' = archive /\ stamps' = stamps /\ gated' = gated

MayStart(g, purpose) ==
  \/ /\ purpose = "genesis" /\ g = Genesis
     /\ Status(g) \notin FailureOutcomes
     /\ ~(/\ Status(g) = "complete" /\ Get(Row(g), "selection_eligible") = TRUE)
  \/ /\ purpose = "candidate"
     /\ drv.verb = "retry" \/ (~Evaluated(g) /\ Status(g) \notin Unretryable)
  \/ purpose = "anchor" /\ ~HasCompleteAnchor(archive[g]) /\ (g = Genesis \/ IsParent(g))

LEMMA StartLives ==
  ASSUME attempts \in [Genid -> [Purposes -> Nat]], NEW g \in Genid, NEW purpose \in Purposes,
         Starts(g, purpose), MayStart(g, purpose), attempts[g][purpose] < AttemptBound
  PROVE  \A h \in Genid : LivesOn(h)
<1>1. ASSUME NEW h \in Genid, h # g PROVE LivesOn(h)
  <2>1. Running(h)' = Running(h)
    BY <1>1 DEF Running, Starts
  <2> QED BY <1>1, <2>1, Untouched DEF Starts
<1>2. Running(g) = None /\ Running(g)' = purpose
  BY DEF Running, Starts
<1>3. attempts'[g] = [attempts[g] EXCEPT ![purpose] = attempts[g][purpose] + 1]
  BY DEF Starts
<1>4. UNCHANGED <<archive[g], stamps[g], gated[g]>>
  BY DEF Starts
<1>5. PICK n : n = attempts[g][purpose] /\ n < AttemptBound
  OBVIOUS
<1>6. PICK m : m = archive[g]
  OBVIOUS
<1>7. /\ \A k : Life(g)!Get(m.row, k) = Get(m.row, k)
      /\ Life(g)!EvaluationStatus(m.row) = EvaluationStatus(m.row)
      /\ Life(g)!HasCompleteAnchor(m) <=> HasCompleteAnchor(m)
      /\ Life(g)!IsParentRecord(m.row) <=> IsParentRecord(m.row)
      /\ Life(g)!Outcomes = Outcomes /\ Life(g)!FailureOutcomes = FailureOutcomes
      /\ Life(g)!Unretryable = Unretryable /\ Life(g)!Purposes = Purposes
  BY LifeArchive, LifeStatuses
<1>8. ASSUME NEW force \in BOOLEAN,
             \/ /\ purpose = "genesis" /\ g = Genesis /\ ~force
                /\ EvaluationStatus(m.row) \notin FailureOutcomes
                /\ ~(/\ EvaluationStatus(m.row) = "complete"
                     /\ Get(m.row, "selection_eligible") = TRUE)
             \/ /\ purpose = "candidate"
                /\ \/ force
                   \/ /\ Get(m.row, "outcome") \notin Outcomes
                      /\ EvaluationStatus(m.row) \notin Unretryable
             \/ /\ purpose = "anchor" /\ ~force /\ ~HasCompleteAnchor(m)
                /\ g = Genesis \/ IsParentRecord(m.row)
      PROVE  Life(g)!Next
  <2>1. (IF drv.pc = "evaluating" /\ drv.gen = g THEN drv.purpose ELSE None) = None
        /\ (IF drv'.pc = "evaluating" /\ drv'.gen = g THEN drv'.purpose ELSE None) = purpose
    BY <1>2 DEF Running
  <2>2. CASE purpose = "genesis"
    <3>1. /\ g = Genesis /\ ~force
          /\ Life(g)!EvaluationStatus(archive[g].row) \notin Life(g)!FailureOutcomes
          /\ ~(/\ Life(g)!EvaluationStatus(archive[g].row) = "complete"
               /\ Life(g)!Get(archive[g].row, "selection_eligible") = TRUE)
      BY <1>6, <1>7, <1>8, <2>2
    <3> QED BY <1>3, <1>4, <1>5, <1>7, <1>8, <2>1, <2>2, <3>1 DEF Life!Next, Life!StartEvaluation
  <2>3. CASE purpose = "candidate"
    <3>1. \/ force
          \/ /\ Life(g)!Get(archive[g].row, "outcome") \notin Life(g)!Outcomes
             /\ Life(g)!EvaluationStatus(archive[g].row) \notin Life(g)!Unretryable
      BY <1>6, <1>7, <1>8, <2>3
    <3> QED BY <1>3, <1>4, <1>5, <1>7, <1>8, <2>1, <2>3, <3>1 DEF Life!Next, Life!StartEvaluation
  <2>4. CASE purpose = "anchor"
    <3>1. /\ ~force /\ ~Life(g)!HasCompleteAnchor(archive[g])
          /\ g = Genesis \/ Life(g)!IsParentRecord(archive[g].row)
      BY <1>6, <1>7, <1>8, <2>4
    <3> QED BY <1>3, <1>4, <1>5, <1>7, <1>8, <2>1, <2>4, <3>1 DEF Life!Next, Life!StartEvaluation
  <2> QED BY <1>8, <2>2, <2>3, <2>4
<1>9. Life(g)!Next
  <2>1. CASE purpose = "genesis" \/ purpose = "anchor"
    <3>1. PICK force \in BOOLEAN : force = FALSE
      OBVIOUS
    <3> QED BY <1>6, <1>8, <2>1, <3>1 DEF MayStart, Status, Row, IsParent
  <2>2. CASE purpose = "candidate"
    <3>1. PICK force \in BOOLEAN : force = (drv.verb = "retry")
      OBVIOUS
    <3> QED BY <1>6, <1>8, <2>2, <3>1 DEF MayStart, Evaluated, Status, Row
  <2> QED BY <2>1, <2>2 DEF Purposes
<1> QED BY <1>1, <1>9 DEF LivesOn

\* The label of the evaluation in progress is what the row of its generation says.
Labelled ==
  drv.pc = "evaluating" =>
    IF drv.purpose = "candidate" /\ Get(Row(drv.gen), "parent") = None
      THEN drv.label \in Genid
      ELSE drv.label = Get(Row(drv.gen), "parent")

LEMMA StampLives ==
  ASSUME DriverInv, Labelled, DOMAIN stamps = Genid, DOMAIN gated = Genid,
         drv.pc = "evaluating", drv'.pc # "evaluating",
         NEW outcome \in Failures \cup {"cancelled", "benchmark_complete"},
         NEW score \in Scored, NEW receipt \in BOOLEAN, Stamp(outcome, score, receipt)
  PROVE  \A h \in Genid : LivesOn(h)
<1>1. PICK g, purpose, label, attempt :
        /\ g = drv.gen /\ purpose = drv.purpose /\ label = drv.label
        /\ attempt = attempts[drv.gen][drv.purpose]
  OBVIOUS
<1>2. /\ DOMAIN archive = Genid /\ g \in Genid /\ purpose \in Purposes
      /\ purpose # None
  BY <1>1, NoneAssumption DEF DriverInv, Ledgers, Naming, Control, Purposes
<1>3. ASSUME NEW h \in Genid, h # g PROVE LivesOn(h)
  <2>1. Running(h)' = Running(h) /\ archive'[h] = archive[h] /\ attempts'[h] = attempts[h]
        /\ stamps'[h] = stamps[h] /\ gated'[h] = gated[h]
    BY <1>1, <1>3 DEF Running, Stamp, history
  <2> QED BY <2>1, Untouched
<1>4. Running(g) = purpose /\ Running(g)' = None
  BY <1>1 DEF Running
<1>5. EvaluationLine(outcome, score) = LineFor(g = Genesis, purpose, label, outcome, score, attempt)
  BY <1>1 DEF EvaluationLine, LineFor
<1>6. /\ archive'[g] = Record(archive[g], g = Genesis,
                        LineFor(g = Genesis, purpose, label, outcome, score, attempt), receipt)
      /\ attempts'[g] = attempts[g] /\ attempts[g][purpose] = attempt
      /\ score # None <=> outcome = "benchmark_complete"
  BY <1>1, <1>2, <1>5 DEF Stamp
<1>7. /\ stamps'[g] = IF receipt /\ purpose # "anchor" /\ outcome = "benchmark_complete"
                        THEN stamps[g] \cup {<<score, attempt, purpose>>} ELSE stamps[g]
      /\ gated'[g] = IF receipt /\ purpose # "anchor" /\ outcome = "benchmark_complete"
                       THEN "none" ELSE gated[g]
  BY <1>1, <1>2 DEF Stamp, history
<1>8. label \in Life(g)!EvaluationParents
  <2>1. IF purpose = "candidate" /\ Get(archive[g].row, "parent") = None
          THEN label \in Genid ELSE label = Get(archive[g].row, "parent")
    BY <1>1 DEF Labelled, Row
  <2> QED BY <1>4, <2>1, LifeArchive DEF Life!EvaluationParents, Running
<1>9. Life(g)!FinishEvaluation(label, outcome, score, receipt)
  BY <1>2, <1>4, <1>6, <1>7, LifeRecord, LifeEvaluation DEF Life!FinishEvaluation, Running
<1>10. Life(g)!Next
  BY <1>8, <1>9 DEF Life!Next, Scored
<1> QED BY <1>3, <1>10 DEF LivesOn

\* A kill while an evaluation runs leaves no line.
LEMMA KillLives ==
  ASSUME Control, NEW g \in Genid, UNCHANGED <<archive, attempts, stamps, gated>>,
         drv'.pc # "evaluating"
  PROVE  LivesOn(g)
<1>1. Running(g)' = None
  BY DEF Running
<1>2. CASE Running(g) = None
  BY <1>1, <1>2, Untouched
<1>3. CASE Running(g) # None
  <2>1. Life(g)!Killed
    BY <1>1, <1>3 DEF Life!Killed, Running
  <2> QED BY <2>1 DEF LivesOn, Life!Next
<1> QED BY <1>2, <1>3

------------------------------------------------------------------------------
(* What the simulation needs to know of a ledger. *)

Eligible(row) ==
  Get(row, "outcome") = "benchmark_complete" => Get(row, "selection_eligible") = TRUE

DevLines(m) == {e \in m.lines : Get(e, "purpose") \in {"genesis", "candidate"}}

\* An empty ledger shows no score, a development evaluation shows, a complete one is
\* eligible, and generation zero never awaits a gate.
Registered(g, m) ==
  /\ m.lines = {} => Get(m.row, "score") = None
  /\ DevLines(m) # {} => m.top = "dev"
  /\ Eligible(m.row)
  /\ g = Genesis => ~m.awaiting /\ "mutated" \in DOMAIN m.row

LEMMA PlainRegistered ==
  ASSUME NEW g, NEW m, Standing(g, m), Registered(g, m), NEW e, Plain(e), NEW z, NEW receipt,
         NEW l, l = Record(m, z, e, receipt)
  PROVE  Registered(g, l) /\ m.lines \subseteq l.lines /\ l.top = m.top
<1>1. CASE e \in m.lines
  BY <1>1 DEF Record
<1>2. CASE e \notin m.lines
  <2>1. DOMAIN m = LedgerFields /\ Shape(m.row, m.top)
    BY DEF Standing
  <2>2. PICK row, r : row = m.row /\ r = MergeEventFields(row, e)
    OBVIOUS
  <2>3. /\ l.row = r /\ l.top = m.top /\ l.lines = m.lines \cup {e}
        /\ l.awaiting <=> m.awaiting /\ ~IsGateRecord(e)
    BY <1>2, <2>1, <2>2, PlainRecord
  <2>4. MergesPlain(row, r, e)
    BY <2>1, <2>2, PlainMergeFields DEF Shape
  <2>5. Get(e, "purpose") = None
    BY DEF Plain, EvaluatedFields, Get
  <2>6. DevLines(l) = DevLines(m)
    BY <2>3, <2>5, NoneAssumption DEF DevLines
  <2>7. Get(r, "outcome") = Get(row, "outcome")
        /\ Get(r, "selection_eligible") = Get(row, "selection_eligible")
    BY <2>4 DEF MergesPlain, EvaluatedFields
  <2>8. Eligible(r) /\ (g = Genesis => "mutated" \in DOMAIN r)
    BY <2>2, <2>4, <2>7 DEF Registered, Eligible, MergesPlain
  <2> QED BY <2>3, <2>6, <2>8 DEF Registered
<1> QED BY <1>1, <1>2

LEMMA LineRegistered ==
  ASSUME NEW g, NEW m, Standing(g, m), Registered(g, m),
         NEW purpose \in AnyPurpose, purpose = "genesis" => g = Genesis,
         NEW label, NEW outcome \in Outcomes, NEW score, NEW attempt,
         NEW z \in BOOLEAN, z <=> g = Genesis,
         NEW e, e = LineFor(z, purpose, label, outcome, score, attempt),
         NEW receipt \in BOOLEAN, NEW l, l = Record(m, z, e, receipt)
  PROVE  /\ Registered(g, l) /\ m.lines \cup {e} \subseteq l.lines
         /\ l.top # m.top => purpose # "anchor"
         /\ Get(e, "purpose") = purpose /\ e["outcome"] = outcome
         /\ /\ purpose = "candidate" /\ g # Genesis /\ outcome = "benchmark_complete"
            /\ e \notin m.lines
            => l.awaiting
<1>1. LineOf(e, purpose, outcome, score, attempt) /\ GatedLine(z, purpose, outcome, e)
  BY EvaluationLines
<1>2. Get(e, "purpose") = purpose /\ e["outcome"] = outcome
  BY <1>1 DEF LineOf, EvaluationShape, Stamped, Get
<1>3. CASE e \in m.lines
  BY <1>2, <1>3 DEF Record
<1>4. CASE e \notin m.lines
  <2>1. PICK n : n = Merge(m, z, e, receipt)
    OBVIOUS
  <2>2. DOMAIN m = LedgerFields /\ Shape(m.row, m.top)
    BY DEF Standing
  <2>3. ASSUME SameLines(m, n)
        PROVE  /\ l.row = n.row /\ l.top = n.top /\ l.lines = m.lines \cup {e}
               /\ l.awaiting <=> IsEvaluationStamp(e) \/ (m.awaiting /\ ~IsGateRecord(e))
    BY <1>4, <2>1, <2>2, <2>3, RecordFacts
  <2>4. CASE purpose = "anchor"
    <3>1. LineOf(e, "anchor", outcome, score, attempt)
      BY <1>1, <2>4
    <3>2. SameLines(m, n) /\ n.row = m.row /\ n.top = m.top
      BY <2>1, <2>2, <3>1, AnchorMerge
    <3>3. ~IsEvaluationStamp(e)
      BY <3>1 DEF LineOf
    <3>4. DevLines(l) = DevLines(m)
      BY <1>2, <2>3, <2>4, <3>2 DEF DevLines
    <3> QED BY <1>2, <2>3, <2>4, <3>2, <3>3, <3>4 DEF Registered
  <2>5. CASE purpose \in {"genesis", "candidate"}
    <3>1. SameLines(m, n) /\ n.top = "dev" /\ Becomes(m.row, n.row, e, receipt)
      BY <1>1, <2>1, <2>2, <2>5, DevMerge
    <3>2. PICK row, r : row = m.row /\ r = n.row /\ Becomes(row, r, e, receipt)
      BY <3>1
    <3>3. e["outcome"] = "benchmark_complete" => e["selection_eligible"] = TRUE
      <4>1. PICK pending \in BOOLEAN : Reports(e, purpose, outcome, pending)
        BY LineReports
      <4> QED BY <1>2, <2>5, <4>1 DEF Reports
    <3>4. Eligible(r) /\ "mutated" \in DOMAIN r
      BY <3>2, <3>3 DEF Becomes, Eligible, Registered
    <3>5. g = Genesis => ~IsEvaluationStamp(e)
      BY <1>1, <2>5 DEF LineOf, GatedLine
    <3>6. purpose = "candidate" /\ g # Genesis /\ outcome = "benchmark_complete" => IsEvaluationStamp(e)
      BY <1>1 DEF GatedLine
    <3> QED BY <1>2, <2>3, <2>5, <3>1, <3>2, <3>4, <3>5, <3>6 DEF Registered
  <2> QED BY <2>4, <2>5 DEF AnyPurpose
<1> QED BY <1>3, <1>4

------------------------------------------------------------------------------
(* What holds of the driver while its generations live. *)

Budgets == [faults : 0..MaxFaults, failures : 0..MaxFailures, retries : 0..MaxRetries]
Paid == budget.faults + budget.failures + budget.retries

CompleteLines(m, p) ==
  {e \in m.lines : Get(e, "purpose") = p /\ e["outcome"] = "benchmark_complete"}

\* One attempt of a purpose needs no fault, failure or retry: the one in progress, or
\* the one that completed.  A retry is paid for before its attempt begins.
Covered(g, p) == CompleteLines(archive[g], p) # {} \/ Running(g) = p
Owing(g, p) == p = "candidate" /\ drv.pc = "evaluate" /\ drv.verb = "retry" /\ drv.gen = g

Counted(g, p) ==
  attempts[g][p] + (IF Owing(g, p) THEN 1 ELSE 0) <= Paid + (IF Covered(g, p) THEN 1 ELSE 0)

Account ==
  /\ budget \in Budgets
  /\ attempts \in [Genid -> [Purposes -> Nat]]
  /\ \A g \in Genid, p \in Purposes : Counted(g, p)

Registers == \A g \in Genid : Registered(g, archive[g])

\* What the lock holder knows of the generation at hand, and of those it will fail.
Paced ==
  /\ Judging => Tagged(drv.gen)
  /\ drv.pc \in {"committed", "tagged"} => archive[drv.gen].lines = {}
  /\ drv.pc = "tagged" => drv.gen \in Candidates /\ drv.parent \in Genid
  /\ drv.pc \in {"fork", "proposing", "guardrail"} => ~Tagged(drv.gen) /\ Pending(drv.gen)
  /\ drv.pc = "select" => PendingIn(drv.round) # {}
  /\ Failing => drv.todo # {} /\ drv.todo \subseteq PendingIn(drv.round)
  /\ drv.pc = "record" /\ drv.next = "selectFailed" => drv.gen \notin drv.todo
  /\ drv.pc = "record" => drv.gen \in Genid
  /\ drv.pc = "gate" => archive[drv.gen].awaiting
  /\ drv.pc = "evaluating" /\ drv.purpose = "candidate" /\ drv.verb # "retry" =>
       ~Evaluated(drv.gen)
  /\ Labelled

Histories == DOMAIN stamps = Genid /\ DOMAIN gated = Genid

LifeInv == DriverInv /\ Account /\ Registers /\ TopsTagged /\ Paced /\ Histories

------------------------------------------------------------------------------
(* The kinds of steps. *)

Quiet ==
  /\ UNCHANGED <<archive, attempts, stamps, gated>>
  /\ drv.pc # "evaluating" /\ drv'.pc # "evaluating"

\* A line that is the gate's word, and its history.
Gating(g, e) ==
  /\ archive[g].awaiting
  /\ \E accept \in BOOLEAN, reason \in (Scores \cup {None, 0}) \X (Scores \cup {None}) :
       /\ e = GateEvent(accept, reason)
       /\ gated' = IF e \in archive[g].lines THEN gated
                   ELSE [gated EXCEPT ![g] = IF accept THEN "accept" ELSE "reject"]

Writes(g, e) ==
  /\ Plain(e) /\ Appends(g, e)
  /\ \/ gated' = gated /\ MayAppend(g, e)
     \/ Gating(g, e)

Begins(g, purpose) ==
  /\ Starts(g, purpose) /\ MayStart(g, purpose) /\ budget' = budget
  /\ Owing(g, purpose) \/ ~Covered(g, purpose)

Finishes(outcome, score, receipt) ==
  /\ drv.pc = "evaluating" /\ drv'.pc # "evaluating"
  /\ Stamp(outcome, score, receipt)
  /\ outcome = "benchmark_complete" \/ Paid' > Paid

Stops ==
  /\ UNCHANGED <<archive, attempts, stamps, gated>>
  /\ drv.pc = "evaluating" /\ drv'.pc # "evaluating" /\ Paid' > Paid

FinalOutcomes == Failures \cup {"cancelled", "benchmark_complete"}

Kinds ==
  \/ Quiet
  \/ \E g \in Genid : \E e : Writes(g, e)
  \/ \E g \in Genid, purpose \in Purposes : Begins(g, purpose)
  \/ \E outcome \in FinalOutcomes, score \in Scored, receipt \in BOOLEAN :
       Finishes(outcome, score, receipt)
  \/ Stops

LEMMA LifeFacts ==
  ASSUME LifeInv
  PROVE  /\ DOMAIN archive = Genid /\ \A g \in Genid : Standing(g, archive[g])
         /\ DOMAIN stamps = Genid /\ DOMAIN gated = Genid
         /\ attempts \in [Genid -> [Purposes -> Nat]] /\ budget \in Budgets
         /\ Paid \in Nat /\ Paid + 1 < AttemptBound
<1>1. budget \in Budgets
  BY DEF LifeInv, Account
<1>2. /\ budget.faults \in 0..MaxFaults /\ budget.failures \in 0..MaxFailures
      /\ budget.retries \in 0..MaxRetries
  BY <1>1 DEF Budgets
<1>3. Paid \in Nat /\ Paid + 1 < AttemptBound
  BY <1>2, DriverAssumption DEF Paid, AttemptBound
<1> QED BY <1>1, <1>3 DEF LifeInv, Account, Histories, DriverInv, Ledgers

LEMMA KindsLive ==
  ASSUME LifeInv, Kinds PROVE \A h \in Genid : LivesOn(h)
<1>0. /\ DOMAIN archive = Genid /\ DOMAIN stamps = Genid /\ DOMAIN gated = Genid
      /\ attempts \in [Genid -> [Purposes -> Nat]] /\ Paid \in Nat /\ Paid + 1 < AttemptBound
      /\ DriverInv /\ Control /\ Labelled
  BY LifeFacts DEF LifeInv, Paced, DriverInv
<1>1. CASE Quiet
  <2> TAKE h \in Genid
  <2>1. Running(h)' = Running(h)
    BY <1>1 DEF Quiet, Running
  <2> QED BY <1>1, <2>1, Untouched DEF Quiet
<1>2. ASSUME NEW g \in Genid, NEW e, Writes(g, e) PROVE \A h \in Genid : LivesOn(h)
  <2>1. CASE gated' = gated /\ MayAppend(g, e)
    BY <1>0, <1>2, <2>1, LineLives DEF Writes
  <2>2. CASE Gating(g, e)
    BY <1>0, <1>2, <2>2, GateLives DEF Writes, Gating
  <2> QED BY <1>2, <2>1, <2>2 DEF Writes
<1>3. ASSUME NEW g \in Genid, NEW purpose \in Purposes, Begins(g, purpose)
      PROVE  \A h \in Genid : LivesOn(h)
  <2>1. Counted(g, purpose) /\ attempts[g][purpose] \in Nat
    BY <1>0 DEF LifeInv, Account
  <2>2. attempts[g][purpose] < AttemptBound
    BY <1>0, <2>1, DriverAssumption DEF Counted, AttemptBound
  <2> QED BY <1>0, <1>3, <2>2, StartLives DEF Begins
<1>4. ASSUME NEW outcome \in FinalOutcomes, NEW score \in Scored, NEW receipt \in BOOLEAN,
             Finishes(outcome, score, receipt)
      PROVE  \A h \in Genid : LivesOn(h)
  BY <1>0, <1>4, StampLives DEF Finishes, FinalOutcomes
<1>5. CASE Stops
  BY <1>0, <1>5, KillLives DEF Stops
<1> QED BY <1>1, <1>2, <1>3, <1>4, <1>5 DEF Kinds

LEMMA KindsRegister ==
  ASSUME LifeInv, Kinds
  PROVE  /\ Registers'
         /\ \A g \in Genid : archive[g].lines \subseteq archive'[g].lines
         /\ \A g \in Genid : archive'[g].top # archive[g].top => g = drv.gen /\ Tagged(g)
         /\ \A outcome, score, receipt :
              /\ drv.pc = "evaluating" /\ Stamp(outcome, score, receipt)
              /\ outcome = "benchmark_complete" /\ outcome \in FinalOutcomes
              /\ score \in Scored /\ receipt \in BOOLEAN
              => /\ CompleteLines(archive'[drv.gen], drv.purpose) # {}
                 /\ drv.purpose = "candidate" /\ drv.gen # Genesis /\ drv.verb # "retry"
                      => archive'[drv.gen].awaiting
<1>0. /\ DOMAIN archive = Genid /\ \A g \in Genid : Standing(g, archive[g])
      /\ \A g \in Genid : Registered(g, archive[g])
  BY LifeFacts DEF LifeInv, Registers
<1>1. ASSUME NEW h \in Genid, NEW l, archive' = [archive EXCEPT ![h] = l], Registered(h, l),
             archive[h].lines \subseteq l.lines, l.top = archive[h].top \/ (h = drv.gen /\ Tagged(h))
      PROVE  /\ Registers'
             /\ \A g \in Genid : archive[g].lines \subseteq archive'[g].lines
             /\ \A g \in Genid : archive'[g].top # archive[g].top => g = drv.gen /\ Tagged(g)
  <2>1. archive'[h] = l /\ \A g \in Genid \ {h} : archive'[g] = archive[g]
    BY <1>0, <1>1
  <2>2. \A g \in Genid : Registered(g, archive'[g])
    BY <1>0, <1>1, <2>1
  <2>3. Registers'
    BY <2>2 DEF Registers, Registered, DevLines, Eligible
  <2> QED BY <1>1, <2>1, <2>3
<1>2. ASSUME archive' = archive
      PROVE  /\ Registers'
             /\ \A g \in Genid : archive[g].lines \subseteq archive'[g].lines
             /\ \A g \in Genid : archive'[g].top # archive[g].top => g = drv.gen /\ Tagged(g)
  BY <1>0, <1>2 DEF Registers, Registered, DevLines, Eligible
<1>3. ASSUME NEW g \in Genid, NEW e, Writes(g, e)
      PROVE  /\ Registers'
             /\ \A h \in Genid : archive[h].lines \subseteq archive'[h].lines
             /\ \A h \in Genid : archive'[h].top # archive[h].top => h = drv.gen /\ Tagged(h)
  <2>1. PICK m, z, receipt : m = archive[g] /\ z = (g = Genesis) /\ receipt = FALSE
    OBVIOUS
  <2>2. PICK l : l = Record(m, z, e, receipt)
    OBVIOUS
  <2>3. archive' = [archive EXCEPT ![g] = l] /\ Plain(e)
    BY <1>3, <2>1, <2>2 DEF Writes, Appends
  <2>4. Registered(g, l) /\ m.lines \subseteq l.lines /\ l.top = m.top
    BY <1>0, <2>1, <2>2, <2>3, PlainRegistered
  <2> QED BY <1>1, <2>1, <2>3, <2>4
<1>4. ASSUME drv.pc = "evaluating", NEW outcome \in FinalOutcomes, NEW score \in Scored,
             NEW receipt \in BOOLEAN, Stamp(outcome, score, receipt)
      PROVE  /\ Registers'
             /\ \A g \in Genid : archive[g].lines \subseteq archive'[g].lines
             /\ \A g \in Genid : archive'[g].top # archive[g].top => g = drv.gen /\ Tagged(g)
             /\ outcome = "benchmark_complete" =>
                  /\ CompleteLines(archive'[drv.gen], drv.purpose) # {}
                  /\ drv.purpose = "candidate" /\ drv.gen # Genesis /\ drv.verb # "retry"
                       => archive'[drv.gen].awaiting
  <2>1. PICK g, purpose, label, attempt :
          /\ g = drv.gen /\ purpose = drv.purpose /\ label = drv.label
          /\ attempt = attempts[drv.gen][drv.purpose]
    OBVIOUS
  <2>2. /\ g \in Genid /\ purpose \in AnyPurpose
        /\ purpose = "genesis" => g = Genesis
        /\ purpose # "anchor" => Tagged(g)
        /\ purpose = "candidate" /\ drv.verb # "retry" => ~Evaluated(g)
    BY <1>4, <2>1 DEF LifeInv, DriverInv, Naming, Evaluating, Control, Purposes, AnyPurpose, Paced,
                Judging
  <2>3. PICK z \in BOOLEAN : z <=> g = Genesis
    OBVIOUS
  <2>4. PICK e : e = LineFor(z, purpose, label, outcome, score, attempt)
    OBVIOUS
  <2>5. EvaluationLine(outcome, score) = e
    BY <2>1, <2>3, <2>4 DEF EvaluationLine, LineFor
  <2>6. PICK m : m = archive[g]
    OBVIOUS
  <2>7. PICK l : l = Record(m, z, e, receipt)
    OBVIOUS
  <2>8. archive' = [archive EXCEPT ![g] = l]
    BY <1>4, <2>1, <2>3, <2>5, <2>6, <2>7 DEF Stamp
  <2>9. outcome \in Outcomes
    BY DriverAssumption DEF FinalOutcomes, Outcomes
  <2>10. Standing(g, m) /\ Registered(g, m)
    BY <1>0, <2>2, <2>6
  <2>11. /\ Registered(g, l) /\ m.lines \cup {e} \subseteq l.lines
         /\ l.top # m.top => purpose # "anchor"
         /\ Get(e, "purpose") = purpose /\ e["outcome"] = outcome
         /\ /\ purpose = "candidate" /\ g # Genesis /\ outcome = "benchmark_complete"
            /\ e \notin m.lines
            => l.awaiting
    BY <2>2, <2>3, <2>4, <2>7, <2>9, <2>10, LineRegistered
  <2>12. archive'[g] = l
    BY <1>0, <2>2, <2>8
  <2>13. outcome = "benchmark_complete" => CompleteLines(l, purpose) # {}
    BY <2>11 DEF CompleteLines
  <2>14. purpose = "candidate" /\ drv.verb # "retry" => e \notin m.lines
    <3>1. SUFFICES ASSUME purpose = "candidate", drv.verb # "retry", e \in m.lines PROVE FALSE
      OBVIOUS
    <3>2. m.top = "dev"
      BY <2>10, <2>11, <3>1 DEF Registered, DevLines
    <3>3. Evaluated(g)
      BY <2>6, <2>10, <3>2, TopEvaluated DEF Evaluated, Row
    <3> QED BY <2>2, <3>1, <3>3
  <2>15. /\ Registers'
         /\ \A h \in Genid : archive[h].lines \subseteq archive'[h].lines
         /\ \A h \in Genid : archive'[h].top # archive[h].top => h = drv.gen /\ Tagged(h)
    BY <1>1, <2>1, <2>2, <2>6, <2>8, <2>11
  <2> QED BY <2>1, <2>11, <2>12, <2>13, <2>14, <2>15
<1>5. CASE Quiet \/ Stops \/ \E g \in Genid, purpose \in Purposes : Begins(g, purpose)
  BY <1>2, <1>4, <1>5 DEF Quiet, Stops, Begins, Starts
<1>6. CASE \E g \in Genid : \E e : Writes(g, e)
  BY <1>3, <1>4, <1>6
<1>7. CASE \E outcome \in FinalOutcomes, score \in Scored, receipt \in BOOLEAN :
             Finishes(outcome, score, receipt)
  BY <1>4, <1>7 DEF Finishes
<1> QED BY <1>5, <1>6, <1>7 DEF Kinds

------------------------------------------------------------------------------
(* The account of the attempts. *)

\* A retry is paid for as it is asked for.
Solvent == drv'.pc = "evaluate" /\ drv'.verb = "retry" => drv.pc = "idle" /\ Paid' > Paid

Spending == budget' \in Budgets /\ Paid' >= Paid

LEMMA Spends ==
  ASSUME budget \in Budgets,
         \/ budget' = budget
         \/ CanFail /\ Spend("failures")
         \/ CanFault /\ Spend("faults")
         \/ budget.retries < MaxRetries /\ Spend("retries")
  PROVE  Spending /\ (budget' # budget => Paid' > Paid)
         /\ (\A kind \in {"faults", "failures", "retries"} : Spend(kind) => Paid' > Paid)
<1>1. /\ budget.faults \in 0..MaxFaults /\ budget.failures \in 0..MaxFailures
      /\ budget.retries \in 0..MaxRetries
      /\ budget =
           [faults |-> budget.faults, failures |-> budget.failures, retries |-> budget.retries]
  BY DEF Budgets
<1>2. ASSUME budget' = budget
      PROVE  Spending /\ ~(\E kind \in {"faults", "failures", "retries"} : Spend(kind))
  BY <1>1, <1>2 DEF Spending, Paid, Spend
<1>3. ASSUME CanFail, Spend("failures") PROVE Spending /\ Paid' > Paid
  <2>1. budget' =
             [faults |-> budget.faults, failures |-> budget.failures + 1, retries |-> budget.retries]
    BY <1>1, <1>3 DEF Spend
  <2>2. budget.failures + 1 \in 0..MaxFailures
    BY <1>1, <1>3, DriverAssumption DEF CanFail
  <2> QED BY <1>1, <2>1, <2>2 DEF Spending, Paid, Budgets
<1>4. ASSUME CanFault, Spend("faults") PROVE Spending /\ Paid' > Paid
  <2>1. budget' =
             [faults |-> budget.faults + 1, failures |-> budget.failures, retries |-> budget.retries]
    BY <1>1, <1>4 DEF Spend
  <2>2. budget.faults + 1 \in 0..MaxFaults
    BY <1>1, <1>4, DriverAssumption DEF CanFault
  <2> QED BY <1>1, <2>1, <2>2 DEF Spending, Paid, Budgets
<1>5. ASSUME budget.retries < MaxRetries, Spend("retries") PROVE Spending /\ Paid' > Paid
  <2>1. budget' =
             [faults |-> budget.faults, failures |-> budget.failures, retries |-> budget.retries + 1]
    BY <1>1, <1>5 DEF Spend
  <2>2. budget.retries + 1 \in 0..MaxRetries
    BY <1>1, <1>5, DriverAssumption
  <2> QED BY <1>1, <2>1, <2>2 DEF Spending, Paid, Budgets
<1> QED BY <1>2, <1>3, <1>4, <1>5

\* What no attempt is added to stays paid for.
LEMMA CountKept ==
  ASSUME Account, Spending, Solvent, attempts' = attempts,
         \A g \in Genid, p \in Purposes :
           Covered(g, p) => Covered(g, p)' \/ (Paid' > Paid /\ drv.pc = "evaluating")
  PROVE  Account'
<1>1. /\ budget \in Budgets /\ budget' \in Budgets /\ Paid' >= Paid
      /\ attempts \in [Genid -> [Purposes -> Nat]]
  BY DEF Account, Spending
<1>2. Paid \in Nat /\ Paid' \in Nat
  BY <1>1 DEF Budgets, Paid
<1>3. ASSUME NEW g \in Genid, NEW p \in Purposes PROVE Counted(g, p)'
  <2>1. PICK n : n = attempts[g][p] /\ n \in Nat
    BY <1>1
  <2>2. n + (IF Owing(g, p) THEN 1 ELSE 0) <= Paid + (IF Covered(g, p) THEN 1 ELSE 0)
    BY <2>1 DEF Account, Counted
  <2>3. Covered(g, p) => Covered(g, p)' \/ (Paid' > Paid /\ drv.pc = "evaluating")
    OBVIOUS
  <2>4. Owing(g, p)' => Paid' > Paid /\ drv.pc # "evaluating"
    BY DEF Solvent, Owing
  <2>5. n + (IF Owing(g, p)' THEN 1 ELSE 0) <= Paid' + (IF Covered(g, p)' THEN 1 ELSE 0)
    BY <1>1, <1>2, <2>1, <2>2, <2>3, <2>4
  <2> QED BY <2>1, <2>5 DEF Counted
<1>4. attempts' \in [Genid -> [Purposes -> Nat]]
  BY <1>1
<1> QED BY <1>1, <1>3, <1>4 DEF Account

LEMMA CountBegin ==
  ASSUME Account, NEW g \in Genid, NEW purpose \in Purposes, Begins(g, purpose)
  PROVE  Account'
<1>1. /\ budget \in Budgets /\ budget' = budget /\ Paid' = Paid
      /\ attempts \in [Genid -> [Purposes -> Nat]]
  BY DEF Account, Begins, Paid
<1>2. Paid \in Nat
  BY <1>1 DEF Budgets, Paid
<1>3. /\ attempts' = [attempts EXCEPT ![g][purpose] = @ + 1] /\ archive' = archive
      /\ drv.pc # "evaluating" /\ drv'.pc = "evaluating" /\ drv'.gen = g /\ drv'.purpose = purpose
  BY DEF Begins, Starts
<1>4. attempts' \in [Genid -> [Purposes -> Nat]]
  BY <1>1, <1>3
<1>5. ASSUME NEW h \in Genid, NEW p \in Purposes PROVE Counted(h, p)'
  <2>1. PICK n : n = attempts[h][p] /\ n \in Nat
    BY <1>1
  <2>2. n + (IF Owing(h, p) THEN 1 ELSE 0) <= Paid + (IF Covered(h, p) THEN 1 ELSE 0)
    BY <2>1 DEF Account, Counted
  <2>3. ~Owing(h, p)'
    BY <1>3 DEF Owing
  <2>4. CASE h = g /\ p = purpose
    <3>1. attempts'[h][p] = n + 1 /\ Covered(h, p)'
      BY <1>1, <1>3, <2>1, <2>4 DEF Covered, Running
    <3>2. Owing(h, p) \/ ~Covered(h, p)
      BY <2>4 DEF Begins
    <3>3. n + 1 <= Paid + 1
      <4>1. CASE Owing(h, p)
        BY <1>2, <2>1, <2>2, <4>1
      <4>2. CASE ~Owing(h, p) /\ ~Covered(h, p)
        BY <1>2, <2>1, <2>2, <4>2
      <4> QED BY <3>2, <4>1, <4>2
    <3>4. n + 1 + 0 <= Paid' + 1
      BY <1>1, <1>2, <2>1, <3>3
    <3>5. attempts'[h][p] + (IF Owing(h, p)' THEN 1 ELSE 0)
          <= Paid' + (IF Covered(h, p)' THEN 1 ELSE 0)
      BY <2>3, <3>1, <3>4
    <3> QED BY <3>5 DEF Counted
  <2>5. CASE ~(h = g /\ p = purpose)
    <3>1. attempts'[h][p] = n
      BY <1>1, <1>3, <2>1, <2>5
    <3>2. Covered(h, p) => Covered(h, p)'
      <4>1. Running(h) = None
        BY <1>3 DEF Running
      <4>2. p # None
        BY NoneAssumption DEF Purposes
      <4> QED BY <1>3, <4>1, <4>2 DEF Covered, CompleteLines
    <3> QED BY <1>1, <1>2, <2>1, <2>2, <2>3, <3>1, <3>2 DEF Counted
  <2> QED BY <2>4, <2>5
<1> QED BY <1>1, <1>4, <1>5 DEF Account

LEMMA KindsCount ==
  ASSUME LifeInv, Kinds, Spending, Solvent PROVE Account'
<1>0. Account /\ Control
  BY DEF LifeInv, DriverInv
<1>1. \A g \in Genid : archive[g].lines \subseteq archive'[g].lines
  BY KindsRegister
<1>2. \A g \in Genid : \A p : CompleteLines(archive[g], p) # {} => CompleteLines(archive'[g], p) # {}
  BY <1>1 DEF CompleteLines
<1>3. \A g \in Genid, p \in Purposes :
        Covered(g, p) => Covered(g, p)' \/ (drv.pc = "evaluating" /\ g = drv.gen /\ p = drv.purpose)
  BY <1>2, NoneAssumption DEF Covered, CompleteLines, Running, Purposes
<1>4. CASE drv.pc # "evaluating" /\ attempts' = attempts
  BY <1>0, <1>3, <1>4, CountKept
<1>5. CASE Stops
  BY <1>0, <1>3, <1>5, CountKept DEF Stops
<1>6. ASSUME NEW outcome \in FinalOutcomes, NEW score \in Scored, NEW receipt \in BOOLEAN,
             Finishes(outcome, score, receipt)
      PROVE  Account'
  <2>1. attempts' = attempts /\ drv.pc = "evaluating"
    BY <1>6 DEF Finishes, Stamp
  <2>2. CASE Paid' > Paid
    BY <1>0, <1>3, <2>1, <2>2, CountKept
  <2>3. CASE outcome = "benchmark_complete"
    <3>1. CompleteLines(archive'[drv.gen], drv.purpose) # {}
      BY <1>6, <2>1, <2>3, KindsRegister DEF Finishes
    <3>2. \A g \in Genid, p \in Purposes : Covered(g, p) => Covered(g, p)'
      BY <1>3, <3>1 DEF Covered, CompleteLines
    <3> QED BY <1>0, <2>1, <3>2, CountKept
  <2> QED BY <1>6, <2>2, <2>3 DEF Finishes
<1>7. CASE \E g \in Genid, purpose \in Purposes : Begins(g, purpose)
  BY <1>0, <1>7, CountBegin
<1> QED BY <1>4, <1>5, <1>6, <1>7 DEF Kinds, Quiet, Writes, Appends

------------------------------------------------------------------------------
(* Every step of the driver is of one of these kinds. *)

LivesStep == Kinds /\ Spending /\ Solvent /\ Paced'

\* The steps after which nothing is asked.
Unasked ==
  /\ drv'.pc \notin {"select", "selectFailed", "fork", "proposing", "guardrail", "committed",
                     "tagged", "evaluate", "evaluating", "gate"}
  /\ drv'.pc = "record" => drv'.next # "selectFailed" /\ drv'.gen \in Genid
  /\ drv'.pc = "leave" => drv'.next # "evaluate"

LEMMA UnaskedPaced ==
  ASSUME Unasked PROVE Paced' /\ Solvent /\ drv'.pc # "evaluating"
BY DEF Unasked, Paced, Solvent, Judging, Failing, Labelled

LEMMA IdleUnasked ==
  ASSUME drv' = Idle \/ drv' = NextSlot \/ drv' = Done PROVE Unasked
<1>1. drv' = Idle \/ drv' = NextSlot
  BY DEF Done
<1>2. CASE drv' = Idle
  <2>1. drv'.pc = "idle"
    BY <1>2 DEF Idle
  <2> QED BY <2>1 DEF Unasked
<1>3. CASE drv' = NextSlot
  <2>1. drv'.pc = "slots"
    BY <1>3 DEF NextSlot, Idle
  <2> QED BY <2>1 DEF Unasked
<1> QED BY <1>1, <1>2, <1>3

\* An evaluation that is not on record needs no paying for.
LEMMA NotCovered ==
  ASSUME drv.pc # "evaluating", NEW g, NEW p \in Purposes, CompleteLines(archive[g], p) = {}
  PROVE  ~Covered(g, p)
BY NoneAssumption DEF Covered, Running, Purposes

LEMMA UnevaluatedNotCovered ==
  ASSUME LifeInv, drv.pc # "evaluating", NEW g \in Genid, ~Evaluated(g),
         NEW p \in {"genesis", "candidate"}
  PROVE  ~Covered(g, p)
<1>1. PICK m : m = archive[g]
  OBVIOUS
<1>2. Standing(g, m) /\ Registered(g, m)
  BY <1>1, LifeFacts DEF LifeInv, Registers
<1>3. m.top # "dev"
  BY <1>1, <1>2, TopEvaluated DEF Evaluated, Row
<1>4. CompleteLines(m, p) = {}
  BY <1>2, <1>3 DEF Registered, DevLines, CompleteLines
<1> QED BY <1>1, <1>4, NotCovered DEF Purposes

LEMMA UnanchoredNotCovered ==
  ASSUME LifeInv, drv.pc # "evaluating", NEW g \in Genid, ~HasCompleteAnchor(archive[g])
  PROVE  ~Covered(g, "anchor")
<1>1. PICK m : m = archive[g]
  OBVIOUS
<1>2. AnchoredOnce(m)
  BY <1>1, LifeFacts DEF Standing
<1>3. CompleteLines(m, "anchor") = {}
  BY <1>1, <1>2 DEF AnchoredOnce, CompleteAnchors, CompleteLines
<1> QED BY <1>1, <1>3, NotCovered DEF Purposes

LEMMA BegunLives ==
  ASSUME LifeInv, NEW g \in Genid, NEW purpose \in Purposes, NEW label,
         drv.pc # "evaluating", drv'.pc = "evaluating", drv'.gen = g, drv'.purpose = purpose,
         drv'.label = label, attempts' = [attempts EXCEPT ![g][purpose] = @ + 1],
         UNCHANGED <<archive, commits, stamps, gated, budget>>,
         MayStart(g, purpose), Owing(g, purpose) \/ ~Covered(g, purpose),
         purpose # "anchor" => Tagged(g),
         purpose = "candidate" /\ drv'.verb # "retry" => ~Evaluated(g),
         IF purpose = "candidate" /\ Get(Row(g), "parent") = None
           THEN label \in Genid ELSE label = Get(Row(g), "parent")
  PROVE  LivesStep
<1>1. Kinds
  BY DEF Kinds, Begins, Starts
<1>2. Spending
  BY LifeFacts, Spends
<1>3. Solvent
  BY DEF Solvent
<1>4. Labelled'
  BY DEF Labelled, Row
<1>5. Judging' => Tagged(drv.gen)'
  BY DEF Judging, Tagged
<1>6. drv'.purpose = "candidate" /\ drv'.verb # "retry" => ~Evaluated(drv.gen)'
  BY DEF Evaluated, Row
<1>7. Paced'
  BY <1>4, <1>5, <1>6 DEF Paced, Failing
<1> QED BY <1>1, <1>2, <1>3, <1>7 DEF LivesStep

LEMMA BeginLives ==
  ASSUME LifeInv, NEW g \in Genid, NEW purpose \in Purposes, NEW label, Begin(g, purpose, label),
         budget' = budget, drv.pc # "evaluating",
         MayStart(g, purpose), Owing(g, purpose) \/ ~Covered(g, purpose),
         purpose # "anchor" => Tagged(g),
         purpose = "candidate" /\ drv.verb # "retry" => ~Evaluated(g),
         IF purpose = "candidate" /\ Get(Row(g), "parent") = None
           THEN label \in Genid ELSE label = Get(Row(g), "parent")
  PROVE  LivesStep
<1>1. DOMAIN drv = DrvFields
  BY DEF LifeInv, DriverInv, Control
<1>2. /\ drv'.pc = "evaluating" /\ drv'.gen = g /\ drv'.purpose = purpose /\ drv'.label = label
      /\ drv'.verb = drv.verb
      /\ attempts' = [attempts EXCEPT ![g][purpose] = @ + 1]
      /\ UNCHANGED <<archive, commits, stamps, gated, budget>>
  BY <1>1 DEF Begin, DrvFields, history
<1> QED BY <1>2, BegunLives

LEMMA AnchorLives ==
  ASSUME LifeInv, NEW g \in Genid, Begin(g, "anchor", Get(Row(g), "parent")), budget' = budget,
         drv.pc # "evaluating", ~HasCompleteAnchor(archive[g]), g = Genesis \/ IsParent(g)
  PROVE  LivesStep
<1>1. ~Covered(g, "anchor")
  BY UnanchoredNotCovered
<1>2. MayStart(g, "anchor") /\ "anchor" \in Purposes
  BY DEF MayStart, Purposes
<1> QED BY <1>1, <1>2, BeginLives

LEMMA QuietLives ==
  ASSUME LifeInv, UNCHANGED <<archive, attempts, stamps, gated>>, drv.pc # "evaluating",
         drv'.pc # "evaluating",
         \/ budget' = budget
         \/ CanFail /\ Spend("failures")
         \/ CanFault /\ Spend("faults")
         \/ budget.retries < MaxRetries /\ Spend("retries"),
         Solvent, Paced'
  PROVE  LivesStep
<1>1. Kinds
  BY DEF Kinds, Quiet
<1>2. Spending
  BY LifeFacts, Spends
<1> QED BY <1>1, <1>2 DEF LivesStep

LEMMA EnsureGenesisLives ==
  ASSUME LifeInv, EnsureGenesis PROVE LivesStep
<1>1. PICK m : m = archive[Genesis]
  OBVIOUS
<1>2. /\ Genesis \in Genid /\ Standing(Genesis, m) /\ Registered(Genesis, m)
      /\ Tagged(Genesis) /\ DOMAIN drv = DrvFields
  BY <1>1, LifeFacts DEF LifeInv, Registers, TopsTagged, DriverInv, Control, Genid
<1>3. drv.pc = "genesis" /\ budget' = budget
  BY DEF EnsureGenesis, At
<1>4. CASE (Goto("anchor") \/ drv' = Idle) /\ UNCHANGED <<durable, history>>
  <2>1. Unasked
    <3>1. Goto("anchor") => drv'.pc = "anchor"
      BY <1>2 DEF Goto, DrvFields
    <3> QED BY <1>4, <3>1, IdleUnasked DEF Unasked
  <2> QED BY <1>3, <1>4, <2>1, UnaskedPaced, QuietLives DEF durable, history
<1>5. CASE /\ ~(/\ Get(Row(Genesis), "outcome") = "benchmark_complete"
                /\ Get(Row(Genesis), "selection_eligible") = TRUE)
           /\ Status(Genesis) \notin FailureOutcomes
           /\ Begin(Genesis, "genesis", Get(Row(Genesis), "parent"))
  <2>1. Get(m.row, "outcome") \notin Outcomes
    <3>1. SUFFICES ASSUME Get(m.row, "outcome") \in Outcomes PROVE FALSE
      OBVIOUS
    <3>2. m.row["outcome"] = Get(m.row, "outcome")
      BY <3>1, NoneAssumption DEF Get, Outcomes
    <3>3. Get(m.row, "outcome") # "benchmark_complete"
      BY <1>1, <1>2, <1>5 DEF Registered, Eligible, Row
    <3> QED BY <1>1, <1>5, <3>1, <3>2, <3>3 DEF Status, Row, EvaluationStatus, FailureOutcomes
  <2>2. ~Evaluated(Genesis)
    BY <1>1, <2>1 DEF Evaluated, Row
  <2>3. Status(Genesis) # "complete"
    <3>1. m.top # "dev" /\ m.top \in {None, "dev"}
      BY <1>2, <2>1, TopEvaluated
    <3>2. Get(m.row, "status") # "complete"
      BY <1>2, <3>1 DEF Standing, Shape
    <3> QED BY <1>1, <2>1, <3>2 DEF Status, Row, EvaluationStatus
  <2>4. MayStart(Genesis, "genesis") /\ "genesis" \in Purposes
    BY <1>5, <2>3 DEF MayStart, Purposes
  <2>5. ~Covered(Genesis, "genesis")
    BY <1>2, <1>3, <2>2, UnevaluatedNotCovered
  <2> QED BY <1>2, <1>3, <1>5, <2>4, <2>5, BeginLives
<1> QED BY <1>4, <1>5 DEF EnsureGenesis

LEMMA EnsureGenesisAnchorLives ==
  ASSUME LifeInv, EnsureGenesisAnchor PROVE LivesStep
<1>1. DOMAIN drv = DrvFields /\ Genesis \in Genid /\ drv.pc = "anchor" /\ budget' = budget
  BY DEF LifeInv, DriverInv, Control, Genid, EnsureGenesisAnchor, At
<1>2. CASE drv' = [drv EXCEPT !.pc = "round", !.round = 1] /\ UNCHANGED <<durable, history>>
  <2>1. drv'.pc = "round"
    BY <1>1, <1>2 DEF DrvFields
  <2>2. Unasked
    BY <2>1 DEF Unasked
  <2> QED BY <1>1, <1>2, <2>2, UnaskedPaced, QuietLives DEF durable, history
<1>3. CASE /\ ~HasCompleteAnchor(archive[Genesis])
           /\ Begin(Genesis, "anchor", Get(Row(Genesis), "parent"))
  BY <1>1, <1>3, AnchorLives
<1> QED BY <1>2, <1>3 DEF EnsureGenesisAnchor

LEMMA FinishRunLives ==
  ASSUME LifeInv, FinishRun PROVE LivesStep
<1>1. drv.pc = "final" /\ budget' = budget
  BY DEF FinishRun, At
<1>2. CASE drv' = Idle /\ UNCHANGED <<durable, history>>
  BY <1>1, <1>2, IdleUnasked, UnaskedPaced, QuietLives DEF durable, history
<1>3. ASSUME NEW best \in BestRows, ~HasCompleteAnchor(archive[best]),
             Begin(best, "anchor", Get(Row(best), "parent"))
      PROVE  LivesStep
  <2>1. best \in Genid /\ IsParent(best)
    BY DEF BestRows, ValidParents
  <2> QED BY <1>1, <1>3, <2>1, AnchorLives
<1> QED BY <1>2, <1>3 DEF FinishRun

\* What a round asks of its pending generations.
LEMMA FailingPaced ==
  ASSUME drv'.pc = "selectFailed" \/ (drv'.pc = "record" /\ drv'.next = "selectFailed"),
         drv'.todo # {}, \A g \in drv'.todo : Pending(g)',
         drv'.todo \subseteq Slots(drv'.round),
         drv'.pc = "record" => drv'.gen \in Genid /\ drv'.gen \notin drv'.todo
  PROVE  Paced' /\ Solvent /\ drv'.pc # "evaluating"
<1>1. drv'.todo \subseteq PendingIn(drv.round)'
  BY DEF Slots, PendingIn
<1> QED BY <1>1 DEF Paced, Failing, Solvent, Judging, Labelled

LEMMA LoopLives ==
  ASSUME LifeInv, Round \/ (\E ps \in Answers : Select(ps)) \/ SelectFails
  PROVE  LivesStep
<1>0. /\ Control /\ Paced /\ DOMAIN drv = DrvFields
  BY DEF LifeInv, DriverInv, Control
<1>1. UNCHANGED <<archive, attempts, stamps, gated>> /\ drv.pc \in {"round", "select"}
  BY DEF Round, Select, SelectFails, durable, history, At
<1>2. \A g : Pending(g)' <=> Pending(g)
  BY <1>1 DEF Pending, Status, Row
<1>3. ASSUME budget' = budget \/ (CanFail /\ Spend("failures")), Solvent, Paced',
             drv'.pc # "evaluating"
      PROVE  LivesStep
  BY <1>1, <1>3, QuietLives
<1>4. CASE Round
  <2>1. drv.round \in Nat /\ drv.pc = "round" /\ budget' = budget
    BY <1>0, <1>4 DEF Control, Round, At
  <2>2. CASE PendingIn(drv.round) # {} /\ drv' = [drv EXCEPT !.pc = "select"]
    <3>1. drv'.pc = "select" /\ drv'.round = drv.round
      BY <1>0, <2>2 DEF DrvFields
    <3>2. PendingIn(drv.round)' = PendingIn(drv.round)
      BY <1>2, <3>1 DEF PendingIn
    <3>3. Paced' /\ Solvent
      BY <2>2, <3>1, <3>2 DEF Paced, Failing, Solvent, Judging, Labelled
    <3> QED BY <1>3, <2>1, <3>1, <3>3
  <2>3. CASE drv' = [drv EXCEPT !.pc = "final"] \/ drv' = [drv EXCEPT !.round = @ + 1]
    <3>1. drv'.pc \in {"final", "round"}
      BY <1>0, <2>1, <2>3 DEF DrvFields
    <3>2. Unasked
      BY <3>1 DEF Unasked
    <3> QED BY <1>3, <2>1, <3>2, UnaskedPaced
  <2> QED BY <1>4, <2>1, <2>2, <2>3, DriverAssumption DEF Round
<1>5. ASSUME NEW todo, todo # {}, todo \subseteq PendingIn(drv.round), drv.pc = "select",
             drv'.pc = "selectFailed", drv'.todo = todo, drv'.round = drv.round
      PROVE  Paced' /\ Solvent /\ drv'.pc # "evaluating"
  <2>1. todo \subseteq Slots(drv.round) /\ \A g \in todo : Pending(g)
    BY <1>5 DEF PendingIn, Slots
  <2> QED BY <1>2, <1>5, <2>1, FailingPaced
<1>6. CASE \E ps \in Answers : Select(ps)
  <2>1. PICK ps \in Answers : Select(ps)
    BY <1>6
  <2> DEFINE pending == PendingIn(drv.round)
             covered == {g \in pending : Len(ps) = 1 \/ g[2] + 1 \in DOMAIN ps}
  <2>2. PICK chosen :
          drv' = [drv EXCEPT !.pc = IF covered = pending THEN "slots" ELSE "selectFailed",
                             !.slot = 0, !.todo = pending \ covered, !.selected = chosen]
    BY <2>1 DEF Select
  <2>3. /\ drv.pc = "select" /\ covered \subseteq pending
        /\ budget' = budget \/ (CanFail /\ Spend("failures"))
    BY <2>1 DEF Select, At
  <2> HIDE DEF pending, covered
  <2>4. /\ drv'.pc = IF covered = pending THEN "slots" ELSE "selectFailed"
        /\ drv'.todo = pending \ covered /\ drv'.round = drv.round
    BY <1>0, <2>2 DEF DrvFields
  <2>5. CASE covered = pending
    BY <1>3, <2>3, <2>4, <2>5, UnaskedPaced DEF Unasked
  <2>6. CASE covered # pending
    <3>1. pending \ covered # {} /\ pending \ covered \subseteq PendingIn(drv.round)
      BY <2>3, <2>6 DEF pending
    <3> QED BY <1>3, <1>5, <2>3, <2>4, <2>6, <3>1
  <2> QED BY <2>5, <2>6
<1>7. CASE SelectFails
  <2>1. /\ drv.pc = "select" /\ drv'.pc = "selectFailed" /\ drv'.todo = PendingIn(drv.round)
        /\ drv'.round = drv.round /\ CanFail /\ Spend("failures")
    BY <1>0, <1>7 DEF SelectFails, At, DrvFields
  <2> QED BY <1>0, <1>3, <1>5, <2>1 DEF Paced
<1> QED BY <1>4, <1>6, <1>7

\* A line that leaves the gate's word alone.
LEMMA LineKind ==
  ASSUME NEW g \in Genid, NEW e, AppendEvent(g, e), Plain(e), MayAppend(g, e),
         attempts' = attempts, UNCHANGED history, drv.pc # "evaluating", drv'.pc # "evaluating"
  PROVE  Kinds
<1>1. Appends(g, e)
  BY DEF AppendEvent, Appends, history
<1> QED BY <1>1 DEF Kinds, Writes, history

LEMMA LineStays ==
  ASSUME LifeInv, NEW g \in Genid, NEW e, AppendEvent(g, e)
  PROVE  \A h \in Genid : h # g => archive'[h] = archive[h] /\ (Pending(h)' <=> Pending(h))
<1>1. DOMAIN archive = Genid
  BY LifeFacts
<1>2. \A h \in Genid : h # g => archive'[h] = archive[h]
  BY <1>1 DEF AppendEvent
<1> QED BY <1>2 DEF Pending, Status, Row

LEMMA FailUnselectedLives ==
  ASSUME LifeInv, FailUnselected PROVE LivesStep
<1>0. Control /\ Paced /\ DOMAIN drv = DrvFields
  BY DEF LifeInv, DriverInv, Control
<1>1. drv.todo # {} /\ drv.todo \subseteq PendingIn(drv.round) /\ drv.pc = "selectFailed"
  BY <1>0 DEF FailUnselected, At, Paced, Failing
<1>2. PICK g : g = CHOOSE h \in drv.todo : \A k \in drv.todo : h[2] <= k[2]
  OBVIOUS
<1>3. drv.round \in 1..MaxGen
  BY <1>0, <1>1 DEF Control, Loops
<1>4. drv.todo \subseteq Slots(drv.round) /\ \A h \in drv.todo : Pending(h) /\ h \in Candidates
  BY <1>1, <1>3 DEF PendingIn, Slots, Slot, Candidates
<1>5. g \in drv.todo
  BY <1>1, <1>2, <1>4, FirstSlot
<1>6. g \in Genid /\ g # Genesis /\ Pending(g)
  BY <1>4, <1>5 DEF Genid, Candidates, Genesis
<1>7. /\ AppendEvent(g, OperatorFailed(None)) /\ attempts' = attempts /\ UNCHANGED history
      /\ budget' = budget
  BY <1>2 DEF FailUnselected
<1>8. /\ drv'.pc = "record" /\ drv'.todo = drv.todo \ {g} /\ drv'.round = drv.round
      /\ drv'.gen = g /\ drv'.next = IF drv.todo = {g} THEN "slots" ELSE "selectFailed"
  BY <1>0, <1>2 DEF FailUnselected, DrvFields
<1>9. PICK e : e = OperatorFailed(None)
  OBVIOUS
<1>10. Plain(e) /\ MayAppend(g, e)
  <2>1. Plain(OperatorFailed(None))
    BY NothingLines DEF SaysNothing, Named
  <2> QED BY <1>6, <1>9, <2>1 DEF MayAppend
<1>11. Kinds
  BY <1>1, <1>6, <1>7, <1>8, <1>9, <1>10, LineKind
<1>12. Spending
  BY <1>7, LifeFacts, Spends
<1>13. Paced' /\ Solvent
  <2>1. CASE drv.todo = {g}
    BY <1>6, <1>8, <2>1, UnaskedPaced DEF Unasked
  <2>2. CASE drv.todo # {g}
    <3>1. \A h \in drv'.todo : Pending(h)'
      BY <1>4, <1>6, <1>7, <1>8, LineStays DEF Genid
    <3>2. drv'.todo # {} /\ drv'.todo \subseteq Slots(drv'.round) /\ drv'.gen \notin drv'.todo
      BY <1>1, <1>4, <1>5, <1>8, <2>2
    <3> QED BY <1>6, <1>8, <2>2, <3>1, <3>2, FailingPaced
  <2> QED BY <2>1, <2>2
<1> QED BY <1>11, <1>12, <1>13 DEF LivesStep

LEMMA TakeSlotLives ==
  ASSUME LifeInv, TakeSlot PROVE LivesStep
<1>0. Control /\ DOMAIN drv = DrvFields
  BY DEF LifeInv, DriverInv, Control
<1>1. UNCHANGED <<archive, attempts, stamps, gated>> /\ drv.pc = "slots" /\ budget' = budget
      /\ commits' = commits
  BY DEF TakeSlot, durable, history, At
<1>2. ASSUME Paced', Solvent, drv'.pc # "evaluating" PROVE LivesStep
  BY <1>1, <1>2, QuietLives
<1> DEFINE g == Slot(drv.round, drv.slot)
           parent == IF g \in DOMAIN drv.selected THEN drv.selected[g]
                     ELSE IF Tagged(g) THEN Get(Row(g), "parent") ELSE None
           fresh == ~Tagged(g)
           pc == IF ~Tagged(g) THEN "fork" ELSE IF ~Evaluated(g) THEN "evaluate" ELSE "gate"
<1>3. CASE drv' = [Idle EXCEPT !.pc = "round", !.verb = "run", !.round = drv.round + 1]
  <2>1. drv'.pc = "round"
    BY <1>3 DEF Idle
  <2> QED BY <1>2, <2>1, UnaskedPaced DEF Unasked
<1>4. CASE drv' = NextSlot
  BY <1>2, <1>4, IdleUnasked, UnaskedPaced
<1>5. CASE /\ Pending(g)
           /\ drv' = [drv EXCEPT !.gen = g, !.parent = parent, !.fresh = fresh, !.pc = pc]
  <2>1. /\ pc = "fork" => ~Tagged(g)
        /\ pc = "evaluate" => Tagged(g)
        /\ pc = "gate" => Evaluated(g)
        /\ pc \in {"fork", "evaluate", "gate"}
    OBVIOUS
  <2>2. pc = "gate" => archive[g].awaiting
    BY <1>5, <2>1, EvaluatedPending
  <2> HIDE DEF g, parent, fresh, pc
  <2>3. drv'.pc = pc /\ drv'.gen = g /\ drv'.verb = drv.verb
    BY <1>0, <1>5 DEF DrvFields
  <2>4. drv.verb = "run"
    BY <1>0, <1>1 DEF Control, Loops
  <2>5. Solvent /\ drv'.pc # "evaluating"
    BY <2>1, <2>3, <2>4 DEF Solvent
  <2>7. /\ drv'.pc = "fork" => ~Tagged(drv.gen)' /\ Pending(drv.gen)'
        /\ drv'.pc = "evaluate" => Tagged(drv.gen)'
        /\ drv'.pc = "gate" => archive'[drv'.gen].awaiting
    BY <1>1, <1>5, <2>1, <2>2, <2>3 DEF Tagged, Pending, Status, Row
  <2>8. Paced'
    BY <2>1, <2>3, <2>7 DEF Paced, Failing, Judging, Labelled
  <2> QED BY <1>2, <2>5, <2>8
<1>6. drv.slot = Children \/ drv.slot < Children
  BY <1>0, <1>1, DriverAssumption DEF Control
<1> QED BY <1>3, <1>4, <1>5, <1>6 DEF TakeSlot

------------------------------------------------------------------------------
(* A proposal. *)

LEMMA ProposalLives ==
  ASSUME LifeInv,
         \/ Fork \/ Propose \/ StageFails \/ AdmitProposal
         \/ \E status \in Rejections : RejectProposal(status)
         \/ CommitSnapshot \/ CreateTag \/ CommitLine \/ Leave
  PROVE  LivesStep
<1>0. /\ Control /\ Lineage /\ Naming /\ Paced /\ DOMAIN drv = DrvFields
      /\ Ledgers /\ TopsTagged
  BY DEF LifeInv, DriverInv, Control
<1>1. /\ attempts' = attempts /\ UNCHANGED history
      /\ drv.pc \in {"fork", "proposing", "guardrail", "commit", "committed", "tagged", "leave"}
      /\ budget' = budget \/ (CanFail /\ Spend("failures"))
  BY DEF Fork, Propose, StageFails, AdmitProposal, RejectProposal, CommitSnapshot, CreateTag,
         CommitLine, Leave, durable, history, At
<1>2. ASSUME archive' = archive, Paced', Solvent, drv'.pc # "evaluating" PROVE LivesStep
  BY <1>1, <1>2, QuietLives DEF history
<1>3. /\ drv.gen \in Genid /\ (drv.verb = "run" => drv.gen \in Candidates /\ drv.parent \in Genid)
      /\ drv.pc \in Working => drv.gen \in Candidates /\ drv.parent \in Genid
  <2>1. Handles
    BY <1>1 DEF Handles, Working
  <2>2. drv.pc \in Working => drv.gen \in Candidates /\ drv.parent \in Genid
    BY <1>0 DEF Lineage, Tree
  <2> QED BY <1>0, <2>1, <2>2, SlotCandidates DEF Naming
<1>4. ASSUME NEW e, AppendEvent(drv.gen, e), Plain(e), MayAppend(drv.gen, e), Paced', Solvent,
             drv'.pc # "evaluating"
      PROVE  LivesStep
  <2>1. Kinds
    BY <1>1, <1>3, <1>4, LineKind
  <2>2. Spending
    BY <1>1, LifeFacts, Spends
  <2> QED BY <1>4, <2>1, <2>2 DEF LivesStep
<1>5. drv.gen \in Candidates => drv.gen # Genesis
  BY DEF Candidates, Genesis
<1>6. ASSUME drv.gen \in Candidates, drv.parent \in Genid, Pending(drv.gen),
             AppendEvent(drv.gen, OperatorFailed(drv.parent)), ThenRecord(drv.parent, "leave")
      PROVE  LivesStep
  <2>1. drv'.pc = "record" /\ drv'.next = "leave" /\ drv'.gen = drv.gen
    BY <1>0, <1>6 DEF ThenRecord, DrvFields
  <2>2. Paced' /\ Solvent /\ drv'.pc # "evaluating"
    BY <1>3, <2>1, UnaskedPaced DEF Unasked
  <2>3. Plain(OperatorFailed(drv.parent))
    BY <1>6, NothingLines DEF SaysNothing, Named
  <2>4. PICK e : e = OperatorFailed(drv.parent)
    OBVIOUS
  <2>5. MayAppend(drv.gen, e)
    BY <1>5, <1>6, <2>4 DEF MayAppend
  <2> QED BY <1>4, <1>6, <2>2, <2>3, <2>4, <2>5
<1>7. ASSUME drv.gen \in Candidates, drv.parent \in Genid, ~Tagged(drv.gen),
             NEW status \in Rejections,
             AppendEvent(drv.gen, Discarded(drv.parent, status)), Unasked
      PROVE  LivesStep
  <2>1. Paced' /\ Solvent /\ drv'.pc # "evaluating"
    BY <1>7, UnaskedPaced
  <2>2. Plain(Discarded(drv.parent, status))
    BY <1>7, NothingLines DEF SaysNothing, Named
  <2>3. PICK e, m : e = Discarded(drv.parent, status) /\ m = archive[drv.gen]
    OBVIOUS
  <2>4. Get(m.row, "outcome") \notin Outcomes
    <3>1. Standing(drv.gen, m) /\ m.top # "dev"
      BY <1>0, <1>3, <1>7, <2>3 DEF Ledgers, TopsTagged
    <3> QED BY <3>1, TopEvaluated
  <2>5. MayAppend(drv.gen, e)
    BY <1>5, <1>7, <2>3, <2>4 DEF MayAppend
  <2> QED BY <1>4, <1>7, <2>1, <2>2, <2>3, <2>5
<1>8. CASE Fork
  <2>1. drv.pc = "fork" /\ drv.verb = "run" /\ ~Tagged(drv.gen) /\ Pending(drv.gen)
        /\ commits' = commits
    BY <1>0, <1>8 DEF Fork, At, Control, Paced
  <2>2. CASE Goto("proposing") /\ archive' = archive
    <3>1. drv'.pc = "proposing" /\ drv'.gen = drv.gen
      BY <1>0, <2>2 DEF Goto, DrvFields
    <3>2. ~Tagged(drv.gen)' /\ Pending(drv.gen)'
      BY <2>1, <2>2, <3>1 DEF Tagged, Pending, Status, Row
    <3>3. Paced' /\ Solvent
      BY <3>1, <3>2 DEF Paced, Failing, Judging, Labelled, Solvent
    <3> QED BY <1>2, <2>2, <3>1, <3>3
  <2> QED BY <1>3, <1>6, <1>8, <2>1, <2>2 DEF Fork
<1>9. CASE Propose
  <2>1. ~Tagged(drv.gen) /\ Pending(drv.gen) /\ commits' = commits /\ archive' = archive
    BY <1>0, <1>9 DEF Propose, At, Paced
  <2>2. drv'.pc = "guardrail" /\ drv'.gen = drv.gen
    BY <1>0, <1>9 DEF Propose, Goto, DrvFields
  <2>3. ~Tagged(drv.gen)' /\ Pending(drv.gen)'
    BY <2>1, <2>2 DEF Tagged, Pending, Status, Row
  <2>4. Paced' /\ Solvent
    BY <2>2, <2>3 DEF Paced, Failing, Judging, Labelled, Solvent
  <2> QED BY <1>2, <2>1, <2>2, <2>4
<1>10. CASE StageFails
  <2>1. Pending(drv.gen) /\ drv.pc \in Working
    BY <1>0, <1>10 DEF StageFails, Paced, Working
  <2> QED BY <1>3, <1>6, <1>10, <2>1 DEF StageFails
<1>11. ASSUME NEW status \in Rejections, RejectProposal(status) PROVE LivesStep
  <2>1. ~Tagged(drv.gen) /\ drv.pc \in Working
    BY <1>0, <1>11 DEF RejectProposal, At, Paced, Working
  <2>2. drv'.pc = "record" /\ drv'.next = "leave" /\ drv'.gen = drv.gen
    BY <1>0, <1>11 DEF RejectProposal, ThenRecord, DrvFields
  <2>3. Unasked
    BY <1>3, <2>2 DEF Unasked
  <2> QED BY <1>3, <1>7, <1>11, <2>1, <2>3 DEF RejectProposal
<1>12. CASE AdmitProposal
  <2>1. drv'.pc = "commit" /\ archive' = archive
    BY <1>0, <1>12 DEF AdmitProposal, Goto, DrvFields, durable
  <2>2. Unasked
    BY <2>1 DEF Unasked
  <2> QED BY <1>2, <2>1, <2>2, UnaskedPaced
<1>13. CASE CommitSnapshot
  <2>1. drv.pc = "commit" /\ drv.pc \in Working
    BY <1>13 DEF CommitSnapshot, At, Working
  <2>2. trees[drv.gen].work \in {"clean", "dirty"}
    BY <1>0, <2>1 DEF Lineage, Tree, Working
  <2>3. \/ drv' = Idle /\ archive' = archive
        \/ /\ ~Tagged(drv.gen)
           /\ AppendEvent(drv.gen, Discarded(drv.parent, "no_proposal"))
           /\ drv' = [drv EXCEPT !.pc = "leave", !.next = "slots"]
        \/ archive[drv.gen].lines = {} /\ Goto("committed") /\ archive' = archive
    BY <1>13, <2>2 DEF CommitSnapshot, CommitRefused
  <2>4. CASE drv' = Idle /\ archive' = archive
    BY <1>2, <2>4, IdleUnasked, UnaskedPaced
  <2>5. CASE /\ ~Tagged(drv.gen)
             /\ AppendEvent(drv.gen, Discarded(drv.parent, "no_proposal"))
             /\ drv' = [drv EXCEPT !.pc = "leave", !.next = "slots"]
    <3>1. drv'.pc = "leave" /\ drv'.next = "slots"
      BY <1>0, <2>5 DEF DrvFields
    <3>2. Unasked
      BY <3>1 DEF Unasked
    <3>3. "no_proposal" \in Rejections
      BY DEF Rejections
    <3> QED BY <1>3, <1>7, <2>1, <2>5, <3>2, <3>3
  <2>6. CASE archive[drv.gen].lines = {} /\ Goto("committed") /\ archive' = archive
    <3>1. drv'.pc = "committed" /\ drv'.gen = drv.gen
      BY <1>0, <2>6 DEF Goto, DrvFields
    <3>2. Paced' /\ Solvent
      BY <2>6, <3>1 DEF Paced, Failing, Judging, Labelled, Solvent
    <3> QED BY <1>2, <2>6, <3>1, <3>2
  <2> QED BY <2>3, <2>4, <2>5, <2>6
<1>14. CASE CreateTag
  <2>1. drv.pc = "committed" /\ drv.pc \in Working /\ archive[drv.gen].lines = {}
        /\ archive' = archive
    BY <1>0, <1>14 DEF CreateTag, At, Working, Paced
  <2>2. drv'.pc = "tagged" /\ drv'.gen = drv.gen /\ drv'.parent = drv.parent
    BY <1>0, <1>14 DEF CreateTag, Goto, DrvFields
  <2>3. Tagged(drv.gen)'
    BY <1>14, <2>2 DEF CreateTag, Tagged
  <2>4. Paced' /\ Solvent
    BY <1>3, <2>1, <2>2, <2>3 DEF Paced, Failing, Judging, Labelled, Solvent
  <2> QED BY <1>2, <2>1, <2>2, <2>4
<1>15. CASE CommitLine
  <2>1. /\ drv.pc = "tagged" /\ archive[drv.gen].lines = {} /\ drv.gen \in Candidates
        /\ drv.parent \in Genid /\ Tagged(drv.gen) /\ commits' = commits
    BY <1>0, <1>15 DEF CommitLine, At, Paced, Judging
  <2>2. drv'.pc = "leave" /\ drv'.gen = drv.gen
    BY <1>0, <1>15 DEF CommitLine, DrvFields
  <2>3. Paced' /\ Solvent
    BY <2>1, <2>2 DEF Paced, Failing, Judging, Labelled, Solvent, Tagged
  <2>4. PICK e : e = CommitEvent(drv.parent)
    OBVIOUS
  <2>5. MayAppend(drv.gen, e)
    BY <1>5, <2>1, <2>4 DEF MayAppend
  <2>6. AppendEvent(drv.gen, e) /\ Plain(e)
    BY <1>15, <2>4, PlainLines DEF CommitLine
  <2> QED BY <1>4, <2>2, <2>3, <2>5, <2>6
<1>16. CASE Leave
  <2>1. drv.pc = "leave" /\ archive' = archive /\ commits' = commits
    BY <1>16 DEF Leave, At
  <2>2. CASE drv.verb = "run" /\ drv.next = "evaluate" /\ drv' = [drv EXCEPT !.pc = "evaluate"]
    <3>1. drv'.pc = "evaluate" /\ drv'.gen = drv.gen /\ drv'.verb = "run"
      BY <1>0, <2>2 DEF DrvFields
    <3>2. Tagged(drv.gen)
      BY <1>0, <2>1, <2>2 DEF Paced, Judging
    <3>3. Paced' /\ Solvent
      BY <2>1, <3>1, <3>2 DEF Paced, Failing, Judging, Labelled, Solvent, Tagged
    <3> QED BY <1>2, <2>1, <3>1, <3>3
  <2>3. CASE drv' = Done
    BY <1>2, <2>1, <2>3, IdleUnasked, UnaskedPaced
  <2> QED BY <1>16, <2>2, <2>3 DEF Leave
<1> QED BY <1>8, <1>9, <1>10, <1>11, <1>12, <1>13, <1>14, <1>15, <1>16

------------------------------------------------------------------------------
(* An evaluation, its gate and its record. *)

LEMMA EvaluationLabels ==
  ASSUME Ledgers, NEW g \in Genid, NEW p \in EvaluationParents(g)
  PROVE  /\ p \in Genid
         /\ Get(Row(g), "parent") # None => p = Get(Row(g), "parent")
<1>1. CASE Get(Row(g), "parent") # None
  <2>1. p = Row(g)["parent"] /\ Row(g)["parent"] = Get(Row(g), "parent")
    BY <1>1 DEF EvaluationParents, Get
  <2> QED BY <1>1, <2>1, RowParent DEF Named
<1>2. CASE Get(Row(g), "parent") = None
  <2>1. p = Genesis \/ p \in BestRows
    BY <1>2 DEF EvaluationParents
  <2> QED BY <1>2, <2>1 DEF BestRows, ValidParents, Genid
<1> QED BY <1>1, <1>2

LEMMA EvalChildLives ==
  ASSUME LifeInv, EvalChild PROVE LivesStep
<1>0. /\ Control /\ Paced /\ DOMAIN drv = DrvFields /\ Ledgers /\ Naming
      /\ drv.pc = "evaluate" /\ budget' = budget
  BY DEF LifeInv, DriverInv, Control, EvalChild, At
<1>1. PICK g, m : g = drv.gen /\ m = archive[g]
  OBVIOUS
<1>2. g \in Genid /\ Tagged(g)
  BY <1>0, <1>1 DEF Naming, Handles, Paced, Judging
<1>3. Standing(g, m) /\ Registered(g, m)
  BY <1>1, <1>2, LifeFacts DEF LifeInv, Registers
<1>4. CASE m.awaiting /\ drv' = [drv EXCEPT !.pc = "gate"] /\ UNCHANGED <<durable, history>>
  <2>1. drv'.pc = "gate" /\ drv'.gen = g
    BY <1>0, <1>1, <1>4 DEF DrvFields
  <2>2. archive' = archive
    BY <1>4 DEF durable
  <2>3. Paced' /\ Solvent
    BY <1>1, <1>4, <2>1, <2>2 DEF Paced, Failing, Judging, Labelled, Solvent
  <2> QED BY <1>0, <1>4, <2>1, <2>3, QuietLives DEF durable, history
<1>5. CASE (drv' = Done \/ drv' = Idle) /\ UNCHANGED <<durable, history>>
  BY <1>0, <1>5, IdleUnasked, UnaskedPaced, QuietLives DEF durable, history
<1>6. ASSUME NEW p \in EvaluationParents(g), ~Skipped(g), Begin(g, "candidate", p)
      PROVE  LivesStep
  <2>1. MayStart(g, "candidate") /\ "candidate" \in Purposes
    BY <1>6 DEF MayStart, Skipped, Purposes
  <2>2. drv.verb # "retry" => ~Evaluated(g)
    BY <1>6 DEF Skipped
  <2>3. Owing(g, "candidate") \/ ~Covered(g, "candidate")
    <3>1. CASE drv.verb = "retry"
      BY <1>0, <1>1, <3>1 DEF Owing
    <3>2. CASE drv.verb # "retry"
      BY <1>0, <1>2, <2>2, <3>2, UnevaluatedNotCovered
    <3> QED BY <3>1, <3>2
  <2>4. IF Get(Row(g), "parent") = None THEN p \in Genid ELSE p = Get(Row(g), "parent")
    BY <1>0, <1>2, EvaluationLabels
  <2> QED BY <1>0, <1>2, <1>6, <2>1, <2>2, <2>3, <2>4, BeginLives
<1>7. ASSUME NEW p \in EvaluationParents(g), "mutated" \notin DOMAIN m.row,
             AppendEvent(g, Discarded(p, "invalid_proposal")), drv' = Done,
             attempts' = attempts, UNCHANGED history
      PROVE  LivesStep
  <2>1. PICK e : e = Discarded(p, "invalid_proposal")
    OBVIOUS
  <2>2. p \in Genid
    BY <1>0, <1>2, EvaluationLabels
  <2>3. Plain(e)
    BY <2>1, PlainLines
  <2>4. g # Genesis
    BY <1>3, <1>7 DEF Registered
  <2>5. Get(m.row, "outcome") \notin Outcomes
    <3>1. m.top # "dev"
      BY <1>3, <1>7 DEF Standing, Shape
    <3> QED BY <1>3, <3>1, TopEvaluated
  <2>6. MayAppend(g, e)
    BY <1>1, <2>1, <2>2, <2>4, <2>5 DEF MayAppend, Rejections
  <2>7. Unasked
    BY <1>7, IdleUnasked
  <2>8. Paced' /\ Solvent /\ drv'.pc # "evaluating"
    BY <2>7, UnaskedPaced
  <2>9. Kinds
    BY <1>0, <1>2, <1>7, <2>1, <2>3, <2>6, <2>8, LineKind
  <2>10. Spending
    BY <1>0, LifeFacts, Spends
  <2> QED BY <2>8, <2>9, <2>10 DEF LivesStep
<1>8. \/ m.awaiting /\ drv' = [drv EXCEPT !.pc = "gate"] /\ UNCHANGED <<durable, history>>
      \/ (drv' = Done \/ drv' = Idle) /\ UNCHANGED <<durable, history>>
      \/ \E p \in EvaluationParents(g) : ~Skipped(g) /\ Begin(g, "candidate", p)
      \/ \E p \in EvaluationParents(g) :
           /\ "mutated" \notin DOMAIN m.row /\ AppendEvent(g, Discarded(p, "invalid_proposal"))
           /\ drv' = Done /\ attempts' = attempts /\ UNCHANGED history
  BY <1>1 DEF EvalChild, Row
<1> QED BY <1>4, <1>5, <1>6, <1>7, <1>8

LEMMA FinalResults ==
  ASSUME NEW r \in Results PROVE r[1] \in FinalOutcomes /\ r[2] \in Scored
BY DEF Results, FinalOutcomes, Scored

LEMMA FinishEvaluationLives ==
  ASSUME LifeInv, NEW outcome \in FinalOutcomes, NEW score \in Scored,
         FinishEvaluation(outcome, score)
  PROVE  LivesStep
<1>0. Control /\ DOMAIN drv = DrvFields
  BY DEF LifeInv, DriverInv, Control
<1>1. PICK receipt \in BOOLEAN : receipt = TRUE
  OBVIOUS
<1>2. Stamp(outcome, score, receipt) /\ drv.pc = "evaluating" /\ drv.purpose \in Purposes
  BY <1>0, <1>1 DEF FinishEvaluation, At, Control
<1>3. /\ budget' = budget \/ (CanFail /\ Spend("failures"))
      /\ outcome # "benchmark_complete" => Spend("failures")
  BY DEF FinishEvaluation
<1>4. Spending /\ (outcome # "benchmark_complete" => Paid' > Paid)
  BY <1>3, LifeFacts, Spends
<1>5. PICK complete \in BOOLEAN : complete <=> outcome = "benchmark_complete"
  OBVIOUS
<1>6. drv' = AfterEvaluation(complete)
  BY <1>5 DEF FinishEvaluation, AfterEvaluation
<1> DEFINE cleared == [drv EXCEPT !.purpose = None, !.label = None]
<1>7. \/ drv' = Idle \/ drv' = [cleared EXCEPT !.pc = "anchor"]
      \/ drv' = [cleared EXCEPT !.pc = "round", !.round = 1] \/ drv' = NextSlot
      \/ /\ complete /\ drv.verb = "run" /\ drv.purpose = "candidate"
         /\ drv' = [cleared EXCEPT !.pc = "gate"]
  BY <1>2, <1>6 DEF AfterEvaluation, Purposes
<1>8. CASE /\ complete /\ drv.verb = "run" /\ drv.purpose = "candidate"
           /\ drv' = [cleared EXCEPT !.pc = "gate"]
  <2>1. drv'.pc = "gate" /\ drv'.gen = drv.gen
    BY <1>0, <1>8 DEF DrvFields
  <2>2. drv.gen \in Candidates
    BY <1>0, <1>2, <1>8, SlotCandidates DEF Handles
  <2>3. drv.gen # Genesis
    BY <2>2 DEF Candidates, Genesis
  <2>4. Kinds
    BY <1>2, <1>4, <2>1 DEF Kinds, Finishes
  <2>5. archive'[drv.gen].awaiting
    BY <1>2, <1>5, <1>8, <2>3, <2>4, KindsRegister
  <2>6. Paced' /\ Solvent
    BY <2>1, <2>5 DEF Paced, Failing, Judging, Labelled, Solvent
  <2> QED BY <1>4, <2>4, <2>6 DEF LivesStep
<1>9. ASSUME Unasked PROVE LivesStep
  <2>1. Paced' /\ Solvent /\ drv'.pc # "evaluating"
    BY <1>9, UnaskedPaced
  <2>2. Kinds
    BY <1>2, <1>4, <2>1 DEF Kinds, Finishes
  <2> QED BY <1>4, <2>1, <2>2 DEF LivesStep
<1>10. CASE \/ drv' = [cleared EXCEPT !.pc = "anchor"]
            \/ drv' = [cleared EXCEPT !.pc = "round", !.round = 1]
  <2>1. drv'.pc \in {"anchor", "round"}
    BY <1>0, <1>10 DEF DrvFields
  <2> QED BY <1>9, <2>1 DEF Unasked
<1> QED BY <1>7, <1>8, <1>9, <1>10, IdleUnasked

LEMMA GateLivesStep ==
  ASSUME LifeInv, GateDecides \/ GateFails PROVE LivesStep
<1>0. /\ Control /\ Paced /\ DOMAIN drv = DrvFields /\ Ledgers /\ Naming /\ drv.pc = "gate"
  BY DEF LifeInv, DriverInv, Control, GateDecides, GateFails, At
<1>1. PICK g, p : g = drv.gen /\ p = drv.parent
  OBVIOUS
<1>2. g \in Genid /\ p \in Genid /\ archive[g].awaiting
  BY <1>0, <1>1 DEF Naming, Handles, Paced
<1>3. ThenRecord(g, AfterGate) /\ attempts' = attempts
  BY <1>1 DEF GateDecides, GateFails
<1>4. drv'.pc = "record" /\ drv'.next = AfterGate /\ drv'.gen = g
  BY <1>0, <1>1, <1>3 DEF ThenRecord, DrvFields
<1>5. Paced' /\ Solvent /\ drv'.pc # "evaluating"
  BY <1>2, <1>4, UnaskedPaced DEF Unasked, AfterGate
<1>6. CASE GateDecides
  <2>1. PICK accept, reason : accept = GateAccepts(p, g) /\ reason = GateReason(p, g)
    OBVIOUS
  <2>2. accept \in BOOLEAN
    <3>1. GateAccepts(p, g) \in BOOLEAN
      BY DriverAssumption DEF GateAccepts
    <3> QED BY <2>1, <3>1
  <2>3. reason \in (Scores \cup {None, 0}) \X (Scores \cup {None})
    <3>1. MatchedScore(p, g) \in Scored
      BY <1>0, <1>2, MatchedScored
    <3>2. ScoreOrZero(g) \in Scores \cup {None, 0}
      <4>1. Get(Row(g), "score") \in Scored
        BY <1>0, <1>2 DEF Ledgers, Standing, Row
      <4> QED BY <4>1 DEF ScoreOrZero, Get, Scored
    <3> QED BY <2>1, <3>1, <3>2 DEF GateReason, Scored
  <2>4. PICK e : e = GateEvent(accept, reason)
    OBVIOUS
  <2>5. /\ AppendEvent(g, e) /\ stamps' = stamps /\ budget' = budget
        /\ gated' = IF e \in archive[g].lines THEN gated
                    ELSE [gated EXCEPT ![g] = IF accept THEN "accept" ELSE "reject"]
    BY <1>1, <1>6, <2>1, <2>4 DEF GateDecides
  <2>6. Plain(e)
    BY <2>4, PlainLines
  <2>7. Gating(g, e)
    BY <1>2, <2>2, <2>3, <2>4, <2>5 DEF Gating
  <2>8. Writes(g, e)
    BY <1>0, <1>3, <1>5, <2>5, <2>6, <2>7 DEF Writes, Appends, AppendEvent
  <2>9. Kinds
    BY <1>2, <2>8 DEF Kinds
  <2>10. Spending
    BY <2>5, LifeFacts, Spends
  <2> QED BY <1>5, <2>9, <2>10 DEF LivesStep
<1>7. CASE GateFails
  <2>1. PICK e : e = OperatorFailed(p)
    OBVIOUS
  <2>2. AppendEvent(g, e) /\ UNCHANGED history /\ CanFail /\ Spend("failures")
    BY <1>1, <1>7, <2>1 DEF GateFails
  <2>3. Plain(e)
    BY <1>2, <2>1, NothingLines DEF SaysNothing, Named
  <2>4. g # Genesis
    BY <1>2 DEF LifeInv, Registers, Registered
  <2>5. MayAppend(g, e)
    BY <1>2, <2>1, <2>4 DEF MayAppend, Pending
  <2>6. Kinds
    BY <1>0, <1>2, <1>3, <1>5, <2>2, <2>3, <2>5, LineKind
  <2>7. Spending
    BY <2>2, LifeFacts, Spends
  <2> QED BY <1>5, <2>6, <2>7 DEF LivesStep
<1> QED BY <1>6, <1>7

LEMMA RecordLives ==
  ASSUME LifeInv, RecordTerminal PROVE LivesStep
<1>0. /\ Control /\ Paced /\ DOMAIN drv = DrvFields /\ drv.pc = "record"
      /\ drv.next \in {"leave", "audit", "done", "selectFailed", "slots"}
  BY DEF LifeInv, DriverInv, Control, RecordTerminal, At
<1>1. PICK g : g = drv.gen
  OBVIOUS
<1>2. g \in Genid
  BY <1>0, <1>1 DEF Paced
<1>3. PICK e \in {RecordEvent, RecordError} :
        \/ archive' = archive
        \/ ~archive[g].attempted /\ AppendEvent(g, e)
  BY <1>1 DEF RecordTerminal
<1>4. /\ attempts' = attempts /\ UNCHANGED history
      /\ budget' = budget \/ (CanFail /\ Spend("failures"))
  BY DEF RecordTerminal
<1>5. \A h \in Genid : h # g => (Pending(h)' <=> Pending(h))
  BY <1>2, <1>3, LineStays DEF Pending, Status, Row
<1>6. Paced' /\ Solvent /\ drv'.pc # "evaluating"
  <2>1. drv' = Idle \/ drv' = AfterRecord
    BY DEF RecordTerminal
  <2>2. CASE drv' = Idle
    BY <2>2, IdleUnasked, UnaskedPaced
  <2>3. CASE drv' = AfterRecord /\ drv.next = "selectFailed"
    <3>1. drv' = [drv EXCEPT !.pc = "selectFailed"]
      BY <2>3 DEF AfterRecord
    <3>2. drv'.pc = "selectFailed" /\ drv'.todo = drv.todo /\ drv'.round = drv.round
      BY <1>0, <3>1 DEF DrvFields
    <3>3. drv.todo # {} /\ drv.todo \subseteq PendingIn(drv.round) /\ g \notin drv.todo
      BY <1>0, <1>1, <2>3 DEF Paced, Failing
    <3>4. drv.round \in 1..MaxGen
      BY <1>0, <2>3 DEF Control, Loops
    <3>5. drv.todo \subseteq Slots(drv.round) /\ drv.todo \subseteq Genid /\ \A h \in drv.todo : Pending(h)
      BY <3>3, <3>4 DEF PendingIn, Slots, Slot, Candidates, Genid
    <3>6. \A h \in drv'.todo : Pending(h)'
      BY <1>5, <3>2, <3>3, <3>5
    <3> QED BY <3>2, <3>3, <3>5, <3>6, FailingPaced
  <2>4. CASE drv' = AfterRecord /\ drv.next \in {"leave", "audit"}
    <3>1. drv' = [drv EXCEPT !.pc = drv.next]
      BY <2>4 DEF AfterRecord
    <3>2. drv'.pc = drv.next /\ drv'.next = drv.next
      BY <1>0, <3>1 DEF DrvFields
    <3> QED BY <2>4, <3>2, UnaskedPaced DEF Unasked
  <2>5. CASE drv' = AfterRecord /\ drv.next = "done"
    BY <2>5, IdleUnasked, UnaskedPaced DEF AfterRecord
  <2>6. CASE drv' = AfterRecord /\ drv.next = "slots"
    <3>1. drv'.pc = "slots"
      BY <2>6 DEF AfterRecord, Idle
    <3> QED BY <3>1, UnaskedPaced DEF Unasked
  <2> QED BY <1>0, <2>1, <2>2, <2>3, <2>4, <2>5, <2>6
<1>7. CASE archive' = archive
  BY <1>0, <1>4, <1>6, <1>7, QuietLives DEF history
<1>8. CASE ~archive[g].attempted /\ AppendEvent(g, e)
  <2>1. Plain(e) /\ MayAppend(g, e)
    BY <1>8, PlainLines DEF MayAppend
  <2>2. Kinds
    BY <1>0, <1>2, <1>4, <1>6, <1>8, <2>1, LineKind
  <2>3. Spending
    BY <1>4, LifeFacts, Spends
  <2> QED BY <1>6, <2>2, <2>3 DEF LivesStep
<1> QED BY <1>3, <1>7, <1>8

LEMMA AuditLives ==
  ASSUME LifeInv, Audit PROVE LivesStep
<1>0. /\ Naming /\ drv.pc = "audit" /\ attempts' = attempts /\ UNCHANGED history
      /\ budget' = budget /\ drv' = Done
  BY DEF LifeInv, DriverInv, Audit, At
<1>1. PICK g : g = drv.gen
  OBVIOUS
<1>2. g \in Genid
  BY <1>0, <1>1 DEF Naming, Handles
<1>3. Paced' /\ Solvent /\ drv'.pc # "evaluating"
  BY <1>0, IdleUnasked, UnaskedPaced
<1>4. CASE archive' = archive
  BY <1>0, <1>3, <1>4, QuietLives DEF history
<1>5. CASE Suspicious(g) /\ AppendEvent(g, AuditEvent)
  <2>1. archive[g].lines # {}
    BY <1>2, <1>5 DEF LifeInv, Registers, Registered, Suspicious, Row
  <2>2. PICK e : e = AuditEvent
    OBVIOUS
  <2>3. Plain(e) /\ MayAppend(g, e)
    BY <2>1, <2>2, PlainLines DEF MayAppend
  <2>4. Kinds
    BY <1>0, <1>2, <1>3, <1>5, <2>2, <2>3, LineKind
  <2>5. Spending
    BY <1>0, LifeFacts, Spends
  <2> QED BY <1>3, <2>4, <2>5 DEF LivesStep
<1> QED BY <1>1, <1>4, <1>5 DEF Audit

LEMMA RunLives ==
  ASSUME LifeInv, RunStep PROVE LivesStep
<1>1. CASE \E r \in Results : FinishEvaluation(r[1], r[2])
  <2>1. PICK r \in Results : FinishEvaluation(r[1], r[2])
    BY <1>1
  <2>2. PICK outcome, score : outcome = r[1] /\ score = r[2]
    OBVIOUS
  <2>3. outcome \in FinalOutcomes /\ score \in Scored /\ FinishEvaluation(outcome, score)
    BY <2>1, <2>2, FinalResults
  <2> QED BY <2>3, FinishEvaluationLives
<1> QED BY <1>1, EnsureGenesisLives, EnsureGenesisAnchorLives, LoopLives, FailUnselectedLives,
           TakeSlotLives, ProposalLives, EvalChildLives, GateLivesStep, RecordLives, AuditLives,
           FinishRunLives
        DEF RunStep

------------------------------------------------------------------------------
(* The verbs of an agent or a user, and the faults. *)

LEMMA VerbLives ==
  ASSUME LifeInv, VerbStep PROVE LivesStep
<1>1. drv.pc = "idle" /\ commits' = commits
  BY DEF VerbStep, StartRun, AgentFork, AgentEdit, AgentCommit, UserResetsTree, AgentEval, Retry,
         Finalize, SealChampion, Annotate, Repair, UserDeletesStrays, Idling, durable
<1>2. ASSUME drv' = drv PROVE Unasked
  BY <1>1, <1>2 DEF Unasked
<1>3. CASE \/ \E g \in Candidates, p \in Genid : AgentFork(g, p)
           \/ \E g \in Candidates : AgentEdit(g) \/ UserResetsTree(g)
           \/ Repair \/ UserDeletesStrays
  <2>1. UNCHANGED <<archive, attempts, stamps, gated>> /\ drv' = drv /\ budget' = budget
    BY <1>3 DEF AgentFork, AgentEdit, UserResetsTree, Repair, UserDeletesStrays, history
  <2> QED BY <1>1, <1>2, <2>1, UnaskedPaced, QuietLives
<1>4. CASE StartRun \/ (\E g \in Candidates : AgentCommit(g))
  <2>1. UNCHANGED <<archive, attempts, stamps, gated>> /\ budget' = budget
    BY <1>4 DEF StartRun, AgentCommit, durable, history
  <2>2. drv'.pc \in {"genesis", "commit"}
    <3>1. StartRun => drv'.pc = "genesis"
      BY DEF StartRun, Idle
    <3>2. \A g \in Candidates : AgentCommit(g) => drv'.pc = "commit"
      BY DEF AgentCommit, Idle
    <3> QED BY <1>4, <3>1, <3>2
  <2>3. Unasked
    BY <2>2 DEF Unasked
  <2> QED BY <1>1, <2>1, <2>3, UnaskedPaced, QuietLives
<1>5. ASSUME NEW g \in Genid, AgentEval(g) \/ Retry(g) PROVE LivesStep
  <2>1. /\ UNCHANGED <<archive, attempts, stamps, gated>>
        /\ Tagged(g) /\ drv'.pc = "evaluate" /\ drv'.gen = g
    BY <1>5 DEF AgentEval, Retry, durable, history, Idle
  <2>2. AgentEval(g) => drv'.verb = "eval" /\ budget' = budget
    BY DEF AgentEval, Idle
  <2>3. Retry(g) => budget.retries < MaxRetries /\ Spend("retries")
    BY DEF Retry
  <2>4. Retry(g) => Paid' > Paid
    BY <2>3, LifeFacts, Spends
  <2>5. Solvent
    BY <1>1, <1>5, <2>2, <2>4 DEF Solvent
  <2>6. Paced'
    BY <1>1, <2>1 DEF Paced, Failing, Judging, Labelled, Tagged
  <2> QED BY <1>1, <1>5, <2>1, <2>2, <2>3, <2>5, <2>6, QuietLives
<1>6. ASSUME NEW g \in Genid, Finalize(g) PROVE LivesStep
  <2>1. /\ UNCHANGED <<archive, attempts, stamps, gated>> /\ budget' = budget
        /\ archive[g].awaiting /\ drv'.pc = "gate" /\ drv'.gen = g
    BY <1>6 DEF Finalize, durable, history, Idle
  <2>2. Paced' /\ Solvent
    BY <2>1 DEF Paced, Failing, Judging, Labelled, Solvent
  <2> QED BY <1>1, <2>1, <2>2, QuietLives
<1>7. ASSUME NEW g \in Genid, SealChampion(g) PROVE LivesStep
  <2>1. PICK purpose, label : purpose = "anchor" /\ label = Get(Row(g), "parent")
    OBVIOUS
  <2>2. /\ drv'.pc = "evaluating" /\ drv'.gen = g /\ drv'.purpose = purpose /\ drv'.label = label
        /\ attempts' = [attempts EXCEPT ![g][purpose] = @ + 1]
        /\ UNCHANGED <<archive, commits, stamps, gated, budget>>
    BY <1>7, <2>1 DEF SealChampion, Idle, history
  <2>3. IsParent(g) /\ ~HasCompleteAnchor(archive[g])
    BY <1>7 DEF SealChampion
  <2>4. ~Covered(g, purpose)
    BY <1>1, <2>1, <2>3, UnanchoredNotCovered
  <2>5. MayStart(g, purpose) /\ purpose \in Purposes
    BY <2>1, <2>3 DEF MayStart, Purposes
  <2> QED BY <1>1, <2>1, <2>2, <2>4, <2>5, BegunLives
<1>8. ASSUME NEW g \in Genid, Annotate(g) PROVE LivesStep
  <2>1. PICK e : e = AuditEvent
    OBVIOUS
  <2>2. /\ AppendEvent(g, e) /\ archive[g].lines # {} /\ drv' = drv /\ attempts' = attempts
        /\ UNCHANGED history /\ budget' = budget
    BY <1>8, <2>1 DEF Annotate
  <2>3. Plain(e) /\ MayAppend(g, e)
    BY <2>1, <2>2, PlainLines DEF MayAppend
  <2>4. Paced' /\ Solvent /\ drv'.pc # "evaluating"
    BY <1>2, <2>2, UnaskedPaced
  <2>5. Kinds
    BY <1>1, <2>2, <2>3, <2>4, LineKind
  <2>6. Spending
    BY <2>2, LifeFacts, Spends
  <2> QED BY <2>4, <2>5, <2>6 DEF LivesStep
<1> QED BY <1>3, <1>4, <1>5, <1>6, <1>7, <1>8 DEF VerbStep

LEMMA FaultLives ==
  ASSUME LifeInv, FaultStep PROVE LivesStep
<1>1. drv' = Idle /\ CanFault /\ Spend("faults")
  BY DEF FaultStep, Kill, KillInStamp, Interrupt
<1>2. Paced' /\ Solvent /\ drv'.pc # "evaluating"
  BY <1>1, IdleUnasked, UnaskedPaced
<1>3. Spending /\ Paid' > Paid
  BY <1>1, LifeFacts, Spends
<1>4. ASSUME UNCHANGED <<archive, attempts, stamps, gated>> PROVE LivesStep
  <2>1. Kinds
    BY <1>2, <1>3, <1>4 DEF Kinds, Quiet, Stops
  <2> QED BY <1>2, <1>3, <2>1 DEF LivesStep
<1>5. ASSUME drv.pc = "evaluating", NEW outcome \in FinalOutcomes, NEW score \in Scored,
             NEW receipt \in BOOLEAN, Stamp(outcome, score, receipt)
      PROVE  LivesStep
  <2>1. Kinds
    BY <1>2, <1>3, <1>5 DEF Kinds, Finishes
  <2> QED BY <1>2, <1>3, <2>1 DEF LivesStep
<1>6. CASE Kill
  BY <1>4, <1>6 DEF Kill, history
<1>7. CASE \E r \in Results : KillInStamp(r[1], r[2])
  <2>1. PICK r \in Results : KillInStamp(r[1], r[2])
    BY <1>7
  <2>2. PICK outcome, score : outcome = r[1] /\ score = r[2]
    OBVIOUS
  <2>3. PICK receipt \in BOOLEAN : receipt = FALSE
    OBVIOUS
  <2>4. outcome \in FinalOutcomes /\ score \in Scored
    BY <2>1, <2>2, FinalResults
  <2>5. Stamp(outcome, score, receipt) /\ drv.pc = "evaluating"
    BY <2>1, <2>2, <2>3 DEF KillInStamp, At
  <2> QED BY <1>5, <2>4, <2>5
<1>8. CASE Interrupt
  <2>1. CASE drv.pc = "evaluating"
    <3>1. PICK outcome, score : outcome = "cancelled" /\ score = None
      OBVIOUS
    <3>2. PICK receipt \in BOOLEAN : receipt = TRUE
      OBVIOUS
    <3>3. outcome \in FinalOutcomes /\ score \in Scored
      BY <3>1 DEF FinalOutcomes, Scored
    <3>4. Stamp(outcome, score, receipt)
      BY <1>8, <2>1, <3>1, <3>2 DEF Interrupt, At
    <3> QED BY <1>5, <2>1, <3>3, <3>4
  <2>2. CASE drv.pc # "evaluating"
    BY <1>4, <1>8, <2>2 DEF Interrupt, At, history
  <2> QED BY <2>1, <2>2
<1> QED BY <1>6, <1>7, <1>8 DEF FaultStep

------------------------------------------------------------------------------
(* The invariant is kept, and every generation lives on. *)

\* A tag is never removed.
LEMMA TagsStay ==
  ASSUME [Next]_vars PROVE \A g : Tagged(g) => Tagged(g)'
<1>1. CASE ~CreateTag
  BY <1>1, OnlyCreateTagTags, SameTags
<1>2. CASE CreateTag
  BY <1>2 DEF CreateTag, Tagged
<1> QED BY <1>1, <1>2

LEMMA HistoriesKept ==
  ASSUME LifeInv, Kinds PROVE Histories'
<1>1. DOMAIN stamps = Genid /\ DOMAIN gated = Genid
  BY LifeFacts
<1>2. /\ stamps' = stamps \/ \E g, s : stamps' = [stamps EXCEPT ![g] = s]
      /\ gated' = gated \/ \E g, s : gated' = [gated EXCEPT ![g] = s]
  <2>1. CASE Quiet \/ Stops \/ \E g \in Genid, purpose \in Purposes : Begins(g, purpose)
    BY <2>1 DEF Quiet, Stops, Begins, Starts
  <2>2. CASE \E g \in Genid : \E e : Writes(g, e)
    BY <2>2 DEF Writes, Appends, Gating
  <2>3. CASE \E outcome \in FinalOutcomes, score \in Scored, receipt \in BOOLEAN :
               Finishes(outcome, score, receipt)
    <3>1. PICK outcome \in FinalOutcomes, score \in Scored, receipt \in BOOLEAN :
                 Stamp(outcome, score, receipt)
      BY <2>3 DEF Finishes
    <3>2. \/ \E s : stamps' = [stamps EXCEPT ![drv.gen] = s] /\ gated' = [gated EXCEPT ![drv.gen] = "none"]
          \/ UNCHANGED <<stamps, gated>>
      BY <3>1 DEF Stamp, history
    <3> QED BY <3>2
  <2> QED BY <2>1, <2>2, <2>3 DEF Kinds
<1>3. DOMAIN stamps' = DOMAIN stamps /\ DOMAIN gated' = DOMAIN gated
  BY <1>2
<1> QED BY <1>1, <1>3 DEF Histories

LEMMA LifeInvKept ==
  ASSUME LifeInv, [Next]_vars
  PROVE  LifeInv' /\ \A h \in Genid : LivesOn(h)
<1>1. DriverInv'
  BY DriverInvKept DEF LifeInv
<1>2. CASE UNCHANGED vars
  <2>1. UNCHANGED <<archive, commits, attempts, drv, stamps, gated, budget>>
    BY <1>2 DEF vars
  <2>2. \A h \in Genid : LivesOn(h)
    <3> TAKE h \in Genid
    <3>1. Running(h)' = Running(h)
      BY <2>1 DEF Running
    <3> QED BY <2>1, <3>1, Untouched
  <2>3. Account'
    BY <2>1 DEF LifeInv, Account, Counted, Owing, Covered, Running, CompleteLines, Paid
  <2>4. Registers'
    BY <2>1 DEF LifeInv, Registers, Registered, DevLines, Eligible
  <2>5. TopsTagged' /\ Histories'
    BY <2>1 DEF LifeInv, TopsTagged, Tagged, Histories
  <2>6. Paced'
    BY <2>1 DEF LifeInv, Paced, Judging, Failing, Tagged, Pending, Status, Row, PendingIn, Evaluated,
                Labelled
  <2> QED BY <1>1, <2>2, <2>3, <2>4, <2>5, <2>6 DEF LifeInv
<1>3. CASE Next
  <2>1. Kinds /\ Spending /\ Solvent /\ Paced'
    BY <1>3, RunLives, VerbLives, FaultLives DEF Next, LivesStep
  <2>2. Account'
    BY <2>1, KindsCount
  <2>3. /\ Registers'
        /\ \A g \in Genid : archive'[g].top # archive[g].top => g = drv.gen /\ Tagged(g)
    BY <2>1, KindsRegister
  <2>4. TopsTagged'
    <3>1. \A g \in Genid : archive'[g].top = "dev" => Tagged(g)
      BY <2>3 DEF LifeInv, TopsTagged
    <3>2. Tagged(Genesis)' /\ \A g \in Genid : archive'[g].top = "dev" => Tagged(g)'
      BY <3>1, TagsStay DEF LifeInv, TopsTagged
    <3> QED BY <3>2 DEF TopsTagged
  <2>5. Histories'
    BY <2>1, HistoriesKept
  <2>6. \A h \in Genid : LivesOn(h)
    BY <2>1, KindsLive
  <2> QED BY <1>1, <2>1, <2>2, <2>3, <2>4, <2>5, <2>6 DEF LifeInv
<1> QED BY <1>2, <1>3

LEMMA InitLifeInv == Init => LifeInv
<1> SUFFICES ASSUME Init PROVE LifeInv
  OBVIOUS
<1>1. DriverInv
  BY InitDriverInv
<1>2. drv.pc = "idle"
  BY DEF Init, Idle
<1>3. Paced
  BY <1>2 DEF Paced, Judging, Failing, Labelled
<1>4. Histories
  BY DEF Init, Histories
<1>5. Account
  <2>1. budget = [faults |-> 0, failures |-> 0, retries |-> 0]
        /\ attempts = [g \in Genid |-> [p \in Purposes |-> 0]]
    BY DEF Init
  <2>2. budget \in Budgets /\ Paid = 0
    BY <2>1, DriverAssumption DEF Budgets, Paid
  <2>3. \A g \in Genid, p \in Purposes : ~Owing(g, p) /\ attempts[g][p] = 0
    BY <1>2, <2>1 DEF Owing
  <2>4. \A g \in Genid, p \in Purposes : Counted(g, p)
    BY <2>2, <2>3 DEF Counted
  <2> QED BY <2>1, <2>2, <2>4 DEF Account
<1>6. PICK m : m = Empty
  OBVIOUS
<1>7. /\ DOMAIN m = LedgerFields /\ m.row = << >> /\ m.top = None /\ m.lines = {} /\ ~m.awaiting
  BY <1>6 DEF Empty, LedgerFields
<1>8. PICK row : row = m.row
  OBVIOUS
<1>9. DOMAIN row = {}
  BY <1>7, <1>8
<1>10. \A g \in Genid : g # Genesis => Registered(g, m)
  <2>1. DevLines(m) = {} /\ Eligible(m.row) /\ Get(m.row, "score") = None
    BY <1>7, <1>8, <1>9, NoneAssumption DEF DevLines, Eligible, Get
  <2> QED BY <1>7, <2>1 DEF Registered
<1>11. PICK z, e, receipt : z = TRUE /\ e = Scaffold /\ receipt = FALSE
  OBVIOUS
<1>12. PICK l : l = Record(m, z, e, receipt)
  OBVIOUS
<1>13. /\ Plain(e) /\ Get(e, "purpose") = None
       /\ DOMAIN e = {"parent", "score", "status", "valid_parent", "verdict", "mutated", "note"}
  BY <1>11, PlainLines DEF Scaffold, Get
<1>14. PICK r : r = MergeEventFields(row, e)
  OBVIOUS
<1>15. /\ l.row = r /\ l.top = m.top /\ l.lines = m.lines \cup {e}
       /\ l.awaiting <=> m.awaiting /\ ~IsGateRecord(e)
  <2>1. Plain(e) /\ e \notin m.lines /\ DOMAIN m = LedgerFields
    BY <1>7, <1>13
  <2> QED BY <1>8, <1>12, <1>14, <2>1, PlainRecord
<1>16. Registered(Genesis, l)
  <2>1. MergesPlain(row, r, e)
    BY <1>9, <1>13, <1>14, PlainMergeFields
  <2>2. "mutated" \in DOMAIN r
    <3>1. "mutated" \notin Reserved /\ "mutated" \notin DOMAIN row
      BY <1>9 DEF Reserved
    <3> QED BY <1>13, <1>14, <3>1 DEF MergeEventFields, Overlay, Only
  <2>3. Get(r, "outcome") = None
    BY <1>9, <2>1 DEF MergesPlain, EvaluatedFields, Get
  <2>4. Eligible(r)
    BY <2>3, NoneAssumption DEF Eligible
  <2>5. DevLines(l) = {}
    BY <1>7, <1>13, <1>15, NoneAssumption DEF DevLines
  <2> QED BY <1>7, <1>15, <2>2, <2>4, <2>5 DEF Registered
<1>17. archive = [g \in Genid |-> IF g = Genesis THEN l ELSE m]
  BY <1>6, <1>11, <1>12 DEF Init
<1>18. Registers
  BY <1>10, <1>16, <1>17 DEF Registers
<1>19. TopsTagged
  <2>1. Tagged(Genesis)
    BY DEF Init, Tagged
  <2>2. \A g \in Genid : archive[g].top = None
    BY <1>7, <1>15, <1>17
  <2> QED BY <2>1, <2>2, NoneAssumption DEF TopsTagged
<1> QED BY <1>1, <1>3, <1>4, <1>5, <1>18, <1>19 DEF LifeInv

LEMMA InitLives == Init => \A g \in Genid : Life(g)!Init
<1> SUFFICES ASSUME Init, NEW g \in Genid PROVE Life(g)!Init
  OBVIOUS
<1>1. Life(g)!Empty = Empty
  BY DEF Life!Empty, Empty
<1>2. /\ attempts[g] = [p \in Life(g)!Purposes |-> 0]
      /\ stamps[g] = {} /\ gated[g] = "none" /\ Running(g) = None
  BY LifeStatuses DEF Init, Idle, Running
<1>3. PICK z, e, receipt : z = (g = Genesis) /\ e = Scaffold /\ receipt = FALSE
  OBVIOUS
<1>4. PICK m, l : m = Empty /\ l = Record(m, z, e, receipt)
  OBVIOUS
<1>5. archive[g] = IF g = Genesis THEN l ELSE m
  BY <1>3, <1>4 DEF Init
<1>6. Life(g)!Record(Life(g)!Empty, g = Genesis, Life(g)!Scaffold, FALSE) = l
  <2>1. Life(g)!Record(m, z, e, receipt) = l
    BY <1>4, LifeRecord
  <2>2. Life(g)!Scaffold = e
    BY <1>3, LifeLines
  <2> QED BY <1>1, <1>3, <1>4, <2>1, <2>2
<1> QED BY <1>1, <1>2, <1>4, <1>5, <1>6 DEF Life!Init, Running

\* Every generation's ledger, attempts and history live as Generation says, whatever
\* verbs, kills, interrupts, resumes and retries interleave in the workspace: the driver
\* implements one Generation per generation id.  No hypothesis on the number of retries.
THEOREM DriverImplementsGeneration == Spec => Lives
<1>1. LifeInv /\ [Next]_vars => LifeInv' /\ \A h \in Genid : LivesOn(h)
  BY LifeInvKept
<1>2. (\A h \in Genid : LivesOn(h)) => \A g \in Genid : [Life(g)!Next]_(Life(g)!vars)
  BY DEF LivesOn
<1>3. Spec => [][\A g \in Genid : [Life(g)!Next]_(Life(g)!vars)]_vars
  BY <1>1, <1>2, InitLifeInv, PTL DEF Spec
<1>4. Spec => \A g \in Genid : Life(g)!Init
  BY InitLives DEF Spec
<1> QED BY <1>3, <1>4 DEF Lives

=============================================================================
