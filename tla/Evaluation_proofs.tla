--------------------------- MODULE Evaluation_proofs ---------------------------
(***************************************************************************)
(* Proofs about an evaluation in a workspace, for every dataset, every split *)
(* ratio, any number of tasks, edits and faults: what the engine runs is     *)
(* what was pinned, what an evaluation leaves behind, and that its verdict   *)
(* follows from its trials.                                                  *)
(***************************************************************************)
EXTENDS Evaluation, FiniteSetTheorems, SequenceTheorems, WellFoundedInduction, TLAPS

------------------------------------------------------------------------------
(* The split manifest. *)

LEMMA LeastNatural ==
  ASSUME NEW S \in SUBSET Nat, S # {}
  PROVE  \E x \in S : \A y \in S : x <= y
<1>1. PICK x \in S : \A y \in S : ~(<<y, x>> \in OpToRel(<, Nat))
  BY WFMin, NatLessThanWellFounded
<1>2. \A y \in S : ~(y < x)
  BY <1>1 DEF OpToRel
<1> QED BY <1>2

LEMMA PositionsFinite ==
  ASSUME NEW n \in Nat, NEW at \in SUBSET (1..n)
  PROVE  IsFiniteSet(at) /\ Cardinality(at) \in Nat
<1>1. IsFiniteSet(1..n)
  BY FS_Interval
<1>2. at \subseteq 1..n
  OBVIOUS
<1>3. IsFiniteSet(at)
  BY <1>1, <1>2, FS_Subset
<1> QED BY <1>3, FS_CardinalityType

\* Among finitely many positions there is a k-th.
LEMMA NthPosition ==
  ASSUME NEW n \in Nat, NEW at \in SUBSET (1..n), NEW k \in 1..Cardinality(at)
  PROVE  \E i \in at : Cardinality({j \in at : j <= i}) = k
<1> DEFINE upto(i) == {j \in at : j <= i}
           enough == {i \in 0..n : k <= Cardinality(upto(i))}
<1>1. IsFiniteSet(at) /\ Cardinality(at) \in Nat
  BY PositionsFinite
<1>2. \A i : IsFiniteSet(upto(i)) /\ Cardinality(upto(i)) \in Nat
  BY <1>1, FS_Subset, FS_CardinalityType
<1>3. upto(n) = at /\ upto(0) = {}
  <2>1. \A j \in at : j \in 1..n
    OBVIOUS
  <2>2. \A j \in at : j <= n /\ ~(j <= 0)
    BY <2>1
  <2> QED BY <2>2
<1>4. n \in enough /\ 0 \notin enough
  BY <1>1, <1>3, FS_EmptySet
<1> HIDE DEF upto
<1>5. enough \in SUBSET Nat /\ enough # {}
  BY <1>4
<1>6. PICK i \in enough : \A y \in enough : i <= y
  BY <1>5, LeastNatural
<1>7. i \in 1..n /\ i - 1 \in 0..n /\ i - 1 \notin enough
  BY <1>4, <1>6
<1>8. Cardinality(upto(i - 1)) < k /\ k <= Cardinality(upto(i))
  BY <1>2, <1>6, <1>7
<1>13. \A j \in at : j \in 1..n
  OBVIOUS
<1>9. i \in at
  <2>1. CASE i \notin at
    <3>1. \A j \in at : j <= i <=> j <= i - 1
      BY <1>7, <1>13, <2>1
    <3>2. upto(i) = upto(i - 1)
      BY <3>1 DEF upto
    <3> QED BY <3>2, <1>2, <1>8
  <2> QED BY <2>1
<1>10. upto(i) = upto(i - 1) \cup {i} /\ i \notin upto(i - 1)
  <2>1. \A j \in at : j <= i <=> j <= i - 1 \/ j = i
    BY <1>7, <1>13
  <2>2. ~(i <= i - 1) /\ i <= i
    BY <1>7
  <2> QED BY <2>1, <2>2, <1>9 DEF upto
<1>11. Cardinality(upto(i)) = Cardinality(upto(i - 1)) + 1
  BY <1>2, <1>10, FS_AddElement
<1>12. Cardinality(upto(i)) = k
  BY <1>2, <1>8, <1>11
<1> QED BY <1>9, <1>12 DEF upto

\* The given names in order: names of the order that are given, each once if the
\* order has each once.
LEMMA InOrderFacts ==
  ASSUME NEW S, NEW order \in Seq(S), NEW names
  PROVE  /\ InOrder(order, names) \in Seq(S)
         /\ \A k \in 1..Len(InOrder(order, names)) : InOrder(order, names)[k] \in names
         /\ (\A i, j \in 1..Len(order) : order[i] = order[j] => i = j) =>
              \A k, l \in 1..Len(InOrder(order, names)) :
                InOrder(order, names)[k] = InOrder(order, names)[l] => k = l
<1> DEFINE at == {i \in 1..Len(order) : order[i] \in names}
           pick(k) == CHOOSE i \in at : Cardinality({j \in at : j <= i}) = k
           n == Cardinality(at)
<1>1. Len(order) \in Nat /\ \A i \in 1..Len(order) : order[i] \in S
  OBVIOUS
<1>2. at \in SUBSET (1..Len(order)) /\ n \in Nat
  <2>1. at \in SUBSET (1..Len(order))
    OBVIOUS
  <2> QED BY <1>1, <2>1, PositionsFinite
<1>3. \A k \in 1..n : pick(k) \in at /\ Cardinality({j \in at : j <= pick(k)}) = k
  <2> HIDE DEF at
  <2> TAKE k \in 1..n
  <2>1. \E i \in at : Cardinality({j \in at : j <= i}) = k
    BY <1>1, <1>2, NthPosition
  <2> QED BY <2>1
<1>4. InOrder(order, names) = [k \in 1..n |-> order[pick(k)]]
  BY DEF InOrder
<1>5. \A i \in at : i \in 1..Len(order) /\ order[i] \in names
  OBVIOUS
<1> HIDE DEF at, pick, n
<1>6. \A k \in 1..n : order[pick(k)] \in S /\ order[pick(k)] \in names
  BY <1>1, <1>3, <1>5
<1>7. /\ InOrder(order, names) \in Seq(S)
      /\ Len(InOrder(order, names)) = n
      /\ \A k \in 1..n : InOrder(order, names)[k] = order[pick(k)]
  BY <1>2, <1>4, <1>6
<1>8. ASSUME \A i, j \in 1..Len(order) : order[i] = order[j] => i = j,
             NEW k \in 1..n, NEW l \in 1..n, order[pick(k)] = order[pick(l)]
      PROVE  k = l
  <2>1. pick(k) = pick(l)
    BY <1>3, <1>5, <1>8
  <2> QED BY <1>3, <2>1
<1> QED BY <1>6, <1>7, <1>8

Members(s) == {s[i] : i \in 1..Len(s)}

LEMMA SetupFacts ==
  /\ \A s \in SplitNames : Ratios[s] \in 0..10
  /\ SeedOrder \in Seq(Tasks) /\ NameOrder \in Seq(Tasks)
  /\ \A i, j \in 1..Len(SeedOrder) : SeedOrder[i] = SeedOrder[j] => i = j
  /\ \A i, j \in 1..Len(NameOrder) : NameOrder[i] = NameOrder[j] => i = j
BY SetupAssumption, Zenon

\* What Counts gives a split is a number of tasks.
LEMMA CountsAreNumbers ==
  ASSUME NEW n \in Nat
  PROVE  Counts(n) \in [SplitNames -> Nat]
<1>1. \A s \in SplitNames : Ratios[s] \in Nat
  BY SetupFacts
<1>2. \A s \in SplitNames : n * Ratios[s] \in Nat
  BY <1>1
<1>3. \A s \in SplitNames : (n * Ratios[s]) \div 10 \in Nat
  BY <1>2
<1>4. \A s \in SplitNames, b \in {0, 1} : (n * Ratios[s]) \div 10 + b \in Nat
  BY <1>3
<1> QED BY <1>4 DEF Counts

\* No task is in two splits, and every split is a sequence of the dataset's tasks.
LEMMA SplitsDisjoint ==
  ASSUME NEW names
  PROVE  /\ \A s \in SplitNames : Assign(names)[s] \in Seq(Tasks)
         /\ \A s, t \in SplitNames :
              s # t => Members(Assign(names)[s]) \cap Members(Assign(names)[t]) = {}
<1> DEFINE ordered == Ordered(names)
           counts == Counts(Len(ordered))
           train == counts["train"]
           gate == counts["train"] + counts["gate"]
           piece(first, last) == {ordered[i] : i \in (first..last) \cap (1..Len(ordered))}
<1>1. /\ ordered \in Seq(Tasks) /\ Len(ordered) \in Nat
      /\ \A i, j \in 1..Len(ordered) : ordered[i] = ordered[j] => i = j
  <2>1. /\ ordered \in Seq(Tasks)
        /\ \A i, j \in 1..Len(ordered) : ordered[i] = ordered[j] => i = j
    BY SetupFacts, InOrderFacts DEF Ordered
  <2> QED BY <2>1
<1>2. train \in Nat /\ gate \in Nat /\ train <= gate
  <2>1. counts \in [SplitNames -> Nat]
    BY <1>1, CountsAreNumbers
  <2>2. counts["train"] \in Nat /\ counts["gate"] \in Nat
    BY <2>1 DEF SplitNames
  <2> QED BY <2>2
<1>3. /\ Assign(names)["train"] = Sorted(piece(1, train))
      /\ Assign(names)["gate"] = Sorted(piece(train + 1, gate))
      /\ Assign(names)["sealed"] = Sorted(piece(gate + 1, Len(ordered)))
  BY DEF Assign, Piece, SplitNames
<1>4. \A P : Sorted(P) \in Seq(Tasks) /\ Members(Sorted(P)) \subseteq P
  <2> TAKE P
  <2>1. /\ Sorted(P) \in Seq(Tasks)
        /\ \A k \in 1..Len(Sorted(P)) : Sorted(P)[k] \in P
    BY SetupFacts, InOrderFacts DEF Sorted
  <2> QED BY <2>1 DEF Members
<1>5. /\ piece(1, train) \cap piece(train + 1, gate) = {}
      /\ piece(1, train) \cap piece(gate + 1, Len(ordered)) = {}
      /\ piece(train + 1, gate) \cap piece(gate + 1, Len(ordered)) = {}
  <2>1. \A i, j \in 1..Len(ordered) : i # j => ordered[i] # ordered[j]
    BY <1>1
  <2> HIDE DEF ordered, train, gate
  <2>2. /\ \A i \in 1..train, j \in (train + 1)..gate : i # j
        /\ \A i \in 1..train, j \in (gate + 1)..Len(ordered) : i # j
        /\ \A i \in (train + 1)..gate, j \in (gate + 1)..Len(ordered) : i # j
    BY <1>1, <1>2
  <2> QED BY <2>1, <2>2
<1> HIDE DEF piece, train, gate, ordered
<1>6. \A s \in SplitNames : s = "train" \/ s = "gate" \/ s = "sealed"
  BY DEF SplitNames
<1> QED BY <1>3, <1>4, <1>5, <1>6

\* A limit takes tasks away and adds none.
LEMMA SelectedFacts ==
  ASSUME NEW S, NEW manifest, NEW split, NEW limit \in {None} \cup Nat,
         manifest.tasks[split] \in Seq(S)
  PROVE  Members(Selected(manifest, split, limit)) \subseteq Members(manifest.tasks[split])
<1> DEFINE names == manifest.tasks[split]
           cap == IF limit # None THEN limit ELSE IF split = "gate" THEN GateLimit ELSE 0
<1>1. cap \in Nat
  BY SetupAssumption
<1>2. Len(names) \in Nat /\ \A i \in 1..Len(names) : names[i] \in S
  OBVIOUS
<1>3. Selected(manifest, split, limit) =
        IF cap > 0 /\ cap < Len(names) THEN SubSeq(names, 1, cap) ELSE names
  BY DEF Selected
<1> HIDE DEF names, cap
<1>4. CASE cap > 0 /\ cap < Len(names)
  <2>1. \A i \in 1..cap : names[i] \in S
    BY <1>1, <1>2, <1>4
  <2>2. /\ Len(SubSeq(names, 1, cap)) = cap
        /\ \A i \in 1..cap : SubSeq(names, 1, cap)[i] = names[i]
    BY <1>1, <1>4, <2>1, SubSeqProperties
  <2>3. 1..cap \subseteq 1..Len(names)
    BY <1>1, <1>2, <1>4
  <2> QED BY <1>3, <1>4, <2>2, <2>3 DEF Members, names
<1>5. CASE ~(cap > 0 /\ cap < Len(names))
  BY <1>3, <1>5 DEF Members, names
<1> QED BY <1>4, <1>5

------------------------------------------------------------------------------
(* The inductive invariant. *)

BeforeEngine == {"plan", "preflight", "python", "sync", "resync", "build", "ready"}
HostPcs == {"idle", "over", "dead", "wait", "terminate", "terminated"} \cup BeforeEngine
Copying == {"select", "copy", "prepare"}
EnginePcs == {"off", "gone", "harbor", "parse", "cleanup", "unsnap"} \cup Copying

RecordsShape ==
  /\ DOMAIN host = {"pc", "candidate", "purpose", "limit"} /\ host.pc \in HostPcs
  /\ DOMAIN engine = {"pc", "rc"} /\ engine.pc \in EnginePcs
  /\ DOMAIN plan = {"tasks", "strict"}
  /\ DOMAIN setup = {"pc", "staged"}
  /\ DOMAIN tree = DOMAIN NewTree

\* An evaluation starts in a workspace whose init has tagged it and has ended, and
\* the engine runs only when the host has launched it.
InSequence ==
  /\ host.pc # "idle" => setup.pc \in {"done", "dead"}
  /\ host.pc \in {"idle"} \cup BeforeEngine => engine.pc = "off"
  /\ host.pc \in {"wait", "terminate", "terminated"} => engine.pc # "off"
  /\ host.pc # "idle" =>
       /\ host.purpose \in Purposes /\ host.limit \in Limits

\* The manifest splits the dataset as it was at init.
ManifestSplits ==
  /\ \A s \in SplitNames : tree.manifest.tasks[s] \in Seq(Tasks)
  /\ \A s, t \in SplitNames :
       s # t => Members(tree.manifest.tasks[s]) \cap Members(tree.manifest.tasks[t]) = {}

\* The plan selects from the split the evaluation is for, and what the engine works
\* with beyond its copy is the plan as pinned.
PlanPinned ==
  /\ engine.pc # "off" \/ host.pc \in BeforeEngine \ {"plan"} => plan.tasks = ContractTasks
  /\ engine.pc \in {"prepare", "harbor", "parse"} => snapshot = Expected

\* The copy, the containers and the worktree that are left to be removed, and by
\* whom: each is there only while a step that removes it is to come.
LeftToRemove ==
  /\ host.pc \in {"idle", "over"} => ~checkout
  /\ engine.pc = "off" => pending = None /\ snapshot = None
  /\ engine.pc \in {"off"} \cup Copying => containers = {}
  /\ engine.pc = "gone" /\ happened \cap {"killed", "untrapped"} = {} =>
       pending = None /\ snapshot = None
  /\ engine.pc \in {"unsnap", "gone"} =>
       (happened \cap {"killed", "untrapped", "no docker"} = {} => containers = {})

EvaluationInv ==
  RecordsShape /\ InSequence /\ ManifestSplits /\ PlanPinned /\ LeftToRemove

------------------------------------------------------------------------------
(* Every step keeps it. *)

LEMMA InitEvaluationInv == InitEvaluation => EvaluationInv
<1> SUFFICES ASSUME InitEvaluation PROVE EvaluationInv
  OBVIOUS
<1>1. /\ \A s \in SplitNames : NoManifest.tasks[s] = << >>
      /\ tree.manifest = NoManifest /\ tree = NewTree
  BY DEF InitEvaluation, InitSetup, NoManifest, NewTree
<1>2. Members(<< >>) = {} /\ << >> \in Seq(Tasks)
  BY DEF Members
<1>3. ManifestSplits
  BY <1>1, <1>2 DEF ManifestSplits
<1>4. RecordsShape /\ InSequence /\ PlanPinned /\ LeftToRemove
  BY <1>1 DEF InitEvaluation, InitSetup, RecordsShape, InSequence, PlanPinned, LeftToRemove,
              NoPlan, HostPcs, EnginePcs, BeforeEngine, Copying
<1> QED BY <1>3, <1>4 DEF EvaluationInv

\* What is pinned depends on the plan, the evaluation's arguments and the manifest.
LEMMA PinnedByManifest ==
  ASSUME plan' = plan, tree'.manifest = tree.manifest
  PROVE  /\ Expected' = Expected /\ PlannedTasks' = PlannedTasks
         /\ host'.purpose = host.purpose /\ host'.limit = host.limit =>
              ContractTasks' = ContractTasks
BY DEF Expected, PlannedTasks, ContractTasks, EvaluationSplit, Selected

\* A step of init or of the user's leaves the evaluation alone; the manifest is
\* written before any evaluation begins.
LEMMA WorldKeepsInv ==
  ASSUME EvaluationInv, UNCHANGED evalVars,
         \/ InitStep \/ KillInit \/ EditDataset
         \/ UNCHANGED <<setup, tree>>
  PROVE  EvaluationInv'
<1>1. UNCHANGED <<host, plan, checkout, engine, pending, snapshot, containers, happened>>
  BY DEF evalVars
<1>2. DOMAIN setup' = {"pc", "staged"} /\ DOMAIN tree' = DOMAIN NewTree
  BY DEF EvaluationInv, RecordsShape, InitStep, InitWorkspace, StageTarget, WriteFiles,
         CopyTarget, VendorMechanism, InitGit, WriteGen0Archive, KillInit, EditDataset
<1>3. host.pc # "idle" => UNCHANGED <<setup, tree>>
  BY DEF EvaluationInv, InSequence, InitStep, InitWorkspace, StageTarget, WriteFiles,
         CopyTarget, VendorMechanism, InitGit, WriteGen0Archive, KillInit, EditDataset
<1>4. tree'.manifest = tree.manifest \/ tree'.manifest = ManifestOf(content)
  BY DEF EvaluationInv, RecordsShape, InitStep, InitWorkspace, StageTarget, WriteFiles,
         CopyTarget, VendorMechanism, InitGit, WriteGen0Archive, KillInit, EditDataset, NewTree
<1>5. ManifestSplits'
  <2>1. CASE tree'.manifest = tree.manifest
    BY <2>1 DEF EvaluationInv, ManifestSplits
  <2>2. CASE tree'.manifest = ManifestOf(content)
    <3>1. PICK names : tree'.manifest.tasks = Assign(names)
      BY <2>2 DEF ManifestOf
    <3> QED BY <3>1, SplitsDisjoint DEF ManifestSplits
  <2> QED BY <1>4, <2>1, <2>2
<1>6. RecordsShape' /\ InSequence' /\ LeftToRemove'
  BY <1>1, <1>2, <1>3 DEF EvaluationInv, RecordsShape, InSequence, LeftToRemove
<1>7. PlanPinned'
  <2>1. CASE host.pc = "idle"
    BY <1>1, <2>1 DEF EvaluationInv, PlanPinned, InSequence, BeforeEngine
  <2>2. CASE host.pc # "idle"
    BY <1>1, <1>3, <2>2, PinnedByManifest DEF EvaluationInv, PlanPinned
  <2> QED BY <2>1, <2>2
<1> QED BY <1>5, <1>6, <1>7 DEF EvaluationInv

\* What a step of the evaluation leaves alone of the workspace.
Settled == /\ DOMAIN tree' = DOMAIN NewTree /\ tree'.manifest = tree.manifest
           /\ setup' = setup

LEMMA SettledFacts ==
  ASSUME EvaluationInv, HostStep \/ EngineStep \/ OlderWorkspace \/ RaiseError \/ Interrupt
                        \/ Terminate \/ Escalate \/ KillHost
  PROVE  Settled
<1>1. CASE OlderWorkspace
  BY <1>1 DEF OlderWorkspace, EvaluationInv, RecordsShape, NewTree, Settled
<1>2. CASE HostStep \/ EngineStep \/ RaiseError \/ Interrupt \/ Terminate \/ Escalate \/ KillHost
  <2>1. UNCHANGED <<tree, setup>>
    BY <1>2 DEF HostStep, EngineStep, RaiseError, Interrupt, Terminate, Escalate, KillHost,
                Evaluate, PlanAttempt, Preflight, PreparePython, SyncDependencies, BuildProject,
                LaunchEngine, CollectEvidence, Terminated, SelectTasks, CopyTask, CheckCopy,
                PrepareJobs, StartTrial, EndTrial, EndHarbor, ParseScore, Cleanup,
                RemoveSnapshot, World
  <2> QED BY <2>1 DEF Settled, EvaluationInv, RecordsShape
<1> QED BY <1>1, <1>2

\* The start and the plan.
LEMMA PlanningKeepsInv ==
  ASSUME EvaluationInv, Evaluate \/ PlanAttempt
  PROVE  EvaluationInv'
<1>1. Settled
  BY SettledFacts DEF HostStep
<1>2. ManifestSplits'
  BY <1>1 DEF Settled, EvaluationInv, ManifestSplits
<1>3. CASE Evaluate
  <2>1. /\ host.pc = "idle" /\ setup.pc \in {"done", "dead"}
        /\ DOMAIN host' = {"pc", "candidate", "purpose", "limit"}
        /\ host'.pc \in {"over", "plan"} /\ checkout' = (host'.pc = "plan")
        /\ host'.purpose \in Purposes /\ host'.limit \in Limits
        /\ UNCHANGED <<plan, engine, pending, snapshot, containers, happened>>
    BY <1>3 DEF Evaluate, Files
  <2>2. engine.pc = "off"
    BY <2>1 DEF EvaluationInv, InSequence
  <2> QED BY <1>1, <1>2, <2>1, <2>2
          DEF Settled, EvaluationInv, RecordsShape, InSequence, PlanPinned, LeftToRemove, HostPcs,
              BeforeEngine
<1>4. CASE PlanAttempt
  <2>1. /\ host.pc = "plan" /\ host' = [host EXCEPT !.pc = host'.pc]
        /\ \/ host'.pc = "over" /\ plan' = plan /\ checkout' = FALSE
           \/ host'.pc \in {"preflight", "python"} /\ plan'.tasks = ContractTasks
        /\ DOMAIN plan' = {"tasks", "strict"}
        /\ UNCHANGED <<engine, pending, snapshot, containers, happened>>
    BY <1>4 DEF PlanAttempt, Goto, Files, EvaluationInv, RecordsShape
  <2>2. engine.pc = "off"
    BY <2>1 DEF EvaluationInv, InSequence, BeforeEngine
  <2>3. ContractTasks' = ContractTasks
    BY <1>1, <2>1 DEF Settled, EvaluationInv, RecordsShape, ContractTasks, EvaluationSplit, Selected
  <2> QED BY <1>1, <1>2, <2>1, <2>2, <2>3
          DEF Settled, EvaluationInv, RecordsShape, InSequence, PlanPinned, LeftToRemove, HostPcs,
              BeforeEngine
<1> QED BY <1>3, <1>4

\* A move of the host's that touches neither the plan nor what the engine works on.
LEMMA HostMoveKeepsInv ==
  ASSUME EvaluationInv, Settled, NEW pc \in HostPcs \ {"idle", "plan"},
         host' = [host EXCEPT !.pc = pc], host.pc # "idle",
         pc \in BeforeEngine => host.pc \in BeforeEngine \ {"plan"},
         pc \in {"wait", "terminate", "terminated"} => engine.pc # "off",
         pc = "over" => ~checkout', happened \subseteq happened',
         UNCHANGED <<plan, engine, pending, snapshot, containers>>
  PROVE  EvaluationInv'
<1>1. /\ host'.pc = pc /\ DOMAIN host' = DOMAIN host
      /\ host'.purpose = host.purpose /\ host'.limit = host.limit
  BY DEF EvaluationInv, RecordsShape
<1>2. Expected' = Expected /\ ContractTasks' = ContractTasks
  BY <1>1, PinnedByManifest DEF Settled
<1>3. RecordsShape' /\ InSequence' /\ ManifestSplits'
  BY <1>1 DEF Settled, EvaluationInv, RecordsShape, InSequence, ManifestSplits, HostPcs
<1>4. PlanPinned'
  BY <1>1, <1>2 DEF EvaluationInv, PlanPinned
<1>5. LeftToRemove'
  BY <1>1 DEF EvaluationInv, LeftToRemove
<1> QED BY <1>3, <1>4, <1>5 DEF EvaluationInv

\* From the preflight to the record, and the errors, interrupts and kills.
LEMMA HostKeepsInv ==
  ASSUME EvaluationInv,
         \/ Preflight \/ PreparePython \/ SyncDependencies \/ BuildProject \/ CollectEvidence
         \/ Terminated \/ RaiseError \/ Interrupt \/ KillHost
  PROVE  EvaluationInv'
<1>1. Settled
  BY SettledFacts DEF HostStep
<1>2. UNCHANGED <<plan, engine, pending, snapshot, containers>> /\ happened \subseteq happened'
  BY DEF Preflight, PreparePython, SyncDependencies, BuildProject, CollectEvidence, Terminated,
         RaiseError, Interrupt, KillHost, Files, RuntimeFails, RuntimeReady, Conclude, Goto
<1>3. host.pc # "idle"
  BY DEF Preflight, PreparePython, SyncDependencies, BuildProject, CollectEvidence, Terminated,
         RaiseError, Interrupt, KillHost
<1>4. \E pc \in HostPcs \ {"idle", "plan"} :
        /\ host' = [host EXCEPT !.pc = pc]
        /\ pc \in BeforeEngine => host.pc \in BeforeEngine \ {"plan"}
        /\ pc \in {"wait", "terminate", "terminated"} => engine.pc # "off"
        /\ pc = "over" => ~checkout'
  BY DEF Preflight, PreparePython, SyncDependencies, BuildProject, CollectEvidence, Terminated,
         RaiseError, Interrupt, KillHost, RuntimeFails, RuntimeReady, Conclude, Goto, HostPcs,
         BeforeEngine, EvaluationInv, InSequence
<1> QED BY <1>1, <1>2, <1>3, <1>4, HostMoveKeepsInv

\* The engine starts, or is ended by a signal.
LEMMA SignalsKeepInv ==
  ASSUME EvaluationInv, LaunchEngine \/ Terminate \/ Escalate
  PROVE  EvaluationInv'
<1>1. Settled
  BY SettledFacts DEF HostStep
<1>2. UNCHANGED <<plan, checkout, pending, snapshot, containers>>
  BY DEF LaunchEngine, Terminate, Escalate, Files
<1>3. /\ DOMAIN host' = {"pc", "candidate", "purpose", "limit"}
      /\ host'.purpose = host.purpose /\ host'.limit = host.limit
      /\ host.pc # "idle" /\ host'.pc \in {"wait", "terminated"}
  BY DEF LaunchEngine, Terminate, Escalate, Goto, EvaluationInv, RecordsShape
<1>4. \/ /\ host.pc = "ready" /\ engine.pc = "off" /\ engine'.pc = "select"
         /\ happened' = happened
      \/ engine'.pc = "cleanup" /\ engine.pc \in {"harbor", "parse"} /\ happened' = happened
      \/ engine'.pc = "gone" /\ happened' \cap {"killed", "untrapped"} # {} /\ engine.pc # "off"
      \/ engine' = engine /\ happened' = happened /\ engine.pc # "off"
  <2>1. CASE LaunchEngine
    BY <2>1 DEF LaunchEngine, EvaluationInv, InSequence, BeforeEngine
  <2>2. CASE Terminate
    <3>1. CASE engine.pc \in {"harbor", "parse"}
      BY <2>2, <3>1 DEF Terminate
    <3>2. CASE engine.pc \in {"select", "copy", "prepare", "cleanup", "unsnap"}
      BY <2>2, <3>2 DEF Terminate
    <3>3. CASE engine.pc \notin {"harbor", "parse", "select", "copy", "prepare", "cleanup", "unsnap"}
      BY <2>2, <3>3 DEF Terminate, EvaluationInv, InSequence
    <3> QED BY <3>1, <3>2, <3>3
  <2>3. CASE Escalate
    BY <2>3 DEF Escalate, EvaluationInv, InSequence
  <2> QED BY <2>1, <2>2, <2>3
<1>5. DOMAIN engine' = {"pc", "rc"} /\ engine'.pc \in EnginePcs
  BY <1>4 DEF LaunchEngine, Terminate, Escalate, EvaluationInv, RecordsShape, EnginePcs, Copying
<1>6. Expected' = Expected /\ ContractTasks' = ContractTasks
  BY <1>1, <1>2, <1>3, PinnedByManifest DEF Settled
<1>7. RecordsShape' /\ InSequence' /\ ManifestSplits'
  BY <1>1, <1>2, <1>3, <1>4, <1>5
     DEF Settled, EvaluationInv, RecordsShape, InSequence, ManifestSplits, HostPcs, BeforeEngine
<1>8. PlanPinned'
  BY <1>2, <1>3, <1>4, <1>6 DEF EvaluationInv, PlanPinned, BeforeEngine
<1>9. LeftToRemove'
  BY <1>2, <1>3, <1>4 DEF EvaluationInv, LeftToRemove, Copying
<1> QED BY <1>7, <1>8, <1>9 DEF EvaluationInv

\* Where a step of the engine may lead, and what it has removed by then.
EngineMoved ==
  /\ DOMAIN engine' = {"pc", "rc"} /\ engine'.pc \in EnginePcs \ {"off"}
  /\ engine'.pc \in {"prepare", "harbor", "parse"} => snapshot' = Expected
  /\ engine'.pc \in Copying => containers' = {}
  /\ engine'.pc = "gone" => pending' = None /\ snapshot' = None
  /\ engine'.pc \in {"unsnap", "gone"} =>
       (happened' \cap {"killed", "untrapped", "no docker"} = {} => containers' = {})

\* The engine's own steps: the copy is the plan as pinned before anything runs, and
\* each way out passes the steps that remove what there is.
LEMMA EngineKeepsInv ==
  ASSUME EvaluationInv, EngineStep
  PROVE  EvaluationInv'
<1>1. Settled
  BY SettledFacts
<1>2. UNCHANGED <<host, plan, checkout>> /\ happened \subseteq happened'
  BY DEF EngineStep, SelectTasks, CopyTask, CheckCopy, PrepareJobs, StartTrial, EndTrial,
         EndHarbor, ParseScore, Cleanup, RemoveSnapshot
<1>3. Expected' = Expected /\ ContractTasks' = ContractTasks
  BY <1>1, <1>2, PinnedByManifest DEF Settled
<1>4. /\ engine.pc \notin {"off", "gone"} /\ EngineMoved
  <2>11. /\ DOMAIN engine = {"pc", "rc"} /\ engine.pc \in EnginePcs
         /\ engine.pc \in {"prepare", "harbor", "parse"} => snapshot = Expected
         /\ engine.pc \in Copying => containers = {}
         /\ engine.pc = "unsnap" =>
              (happened \cap {"killed", "untrapped", "no docker"} = {} => containers = {})
    BY DEF EvaluationInv, RecordsShape, PlanPinned, LeftToRemove
  <2> USE <2>11 DEF EngineMoved, EnginePcs, Copying, Files, Move, Fail
  <2>1. CASE SelectTasks
    <3>1. engine.pc = "select" /\ UNCHANGED <<snapshot, containers, happened>>
      BY <2>1 DEF SelectTasks
    <3>2. DOMAIN engine' = {"pc", "rc"} /\ engine'.pc \in {"copy", "unsnap"}
      BY <2>1 DEF SelectTasks
    <3> QED BY <3>1, <3>2
  <2>2. CASE CopyTask
    <3>1. engine.pc = "copy" /\ UNCHANGED <<snapshot, containers, happened>>
      BY <2>2 DEF CopyTask
    <3>2. DOMAIN engine' = {"pc", "rc"} /\ engine'.pc \in {"copy", "unsnap"}
      BY <2>2 DEF CopyTask
    <3> QED BY <3>1, <3>2
  <2>3. CASE CheckCopy
    <3>1. engine.pc = "copy" /\ UNCHANGED <<containers, happened>>
      BY <2>3 DEF CheckCopy
    <3>2. /\ DOMAIN engine' = {"pc", "rc"}
          /\ engine'.pc = "unsnap" \/ (engine'.pc = "prepare" /\ snapshot' = Expected)
      BY <2>3 DEF CheckCopy
    <3> QED BY <3>1, <3>2
  <2>4. CASE PrepareJobs
    <3>1. engine.pc = "prepare" /\ UNCHANGED <<snapshot, containers, happened>>
      BY <2>4 DEF PrepareJobs
    <3>2. DOMAIN engine' = {"pc", "rc"} /\ engine'.pc \in {"harbor", "unsnap"}
      BY <2>4 DEF PrepareJobs
    <3> QED BY <3>1, <3>2
  <2>5. CASE StartTrial
    BY <2>5 DEF StartTrial
  <2>6. CASE EndTrial
    BY <2>6 DEF EndTrial
  <2>7. CASE EndHarbor
    BY <2>7 DEF EndHarbor
  <2>8. CASE ParseScore
    BY <2>8 DEF ParseScore
  <2>9. CASE Cleanup
    BY <2>9 DEF Cleanup
  <2>10. CASE RemoveSnapshot
    BY <2>10 DEF RemoveSnapshot
  <2> QED BY <2>1, <2>2, <2>3, <2>4, <2>5, <2>6, <2>7, <2>8, <2>9, <2>10 DEF EngineStep
<1>6. RecordsShape' /\ InSequence' /\ ManifestSplits'
  BY <1>1, <1>2, <1>4
     DEF Settled, EvaluationInv, RecordsShape, InSequence, ManifestSplits, EngineMoved
<1>7. PlanPinned'
  BY <1>2, <1>3, <1>4 DEF EngineMoved, EvaluationInv, PlanPinned
<1>8. LeftToRemove'
  BY <1>2, <1>4 DEF EngineMoved, EvaluationInv, LeftToRemove
<1> QED BY <1>6, <1>7, <1>8 DEF EvaluationInv

LEMMA NextEvaluationInv == EvaluationInv /\ [Next]_vars => EvaluationInv'
<1> SUFFICES ASSUME EvaluationInv, [Next]_vars PROVE EvaluationInv'
  OBVIOUS
<1>1. CASE UNCHANGED vars
  BY <1>1, WorldKeepsInv DEF vars, setupVars
<1>2. CASE (InitStep \/ KillInit \/ EditDataset) /\ UNCHANGED evalVars
  BY <1>2, WorldKeepsInv
<1>3. CASE NetworkFails \/ DockerFails \/ Recovers
  BY <1>3, WorldKeepsInv DEF NetworkFails, DockerFails, Recovers
<1>4. CASE OlderWorkspace
  <2>1. Settled /\ UNCHANGED evalVars
    BY <1>4, SettledFacts DEF OlderWorkspace
  <2>2. UNCHANGED <<host, plan, checkout, engine, pending, snapshot, containers, happened>>
    BY <2>1 DEF evalVars
  <2>3. Expected' = Expected /\ ContractTasks' = ContractTasks
    BY <2>1, <2>2, PinnedByManifest DEF Settled
  <2> QED BY <2>1, <2>2, <2>3
          DEF Settled, EvaluationInv, RecordsShape, InSequence, ManifestSplits, PlanPinned,
              LeftToRemove
<1>5. CASE HostStep \/ EngineStep \/ RaiseError \/ Interrupt \/ Terminate \/ Escalate \/ KillHost
  BY <1>5, PlanningKeepsInv, HostKeepsInv, SignalsKeepInv, EngineKeepsInv DEF HostStep
<1> QED BY <1>1, <1>2, <1>3, <1>4, <1>5 DEF Next

------------------------------------------------------------------------------
(* What follows from it. *)

\* Whatever Harbor runs is the task as the manifest pinned it, of the split the
\* evaluation is for and of no other, whatever a user does to the dataset
\* (splits.py, _snapshot_selected_tasks).
THEOREM PinnedTasksRun == Spec => []RunsPinnedTasks
<1>1. EvaluationInv => RunsPinnedTasks
  <2> SUFFICES ASSUME EvaluationInv, engine.pc \in {"harbor", "parse"} PROVE RunsPinnedTasks
    BY DEF RunsPinnedTasks
  <2> DEFINE home == EvaluationSplit(host.purpose)
  <2>1. host.purpose \in Purposes /\ host.limit \in {None} \cup Nat
    BY EvaluationAssumption DEF EvaluationInv, InSequence
  <2>2. home \in SplitNames
    BY DEF EvaluationSplit, SplitNames
  <2>3. snapshot = Expected /\ plan.tasks = Selected(tree.manifest, home, host.limit)
    BY DEF EvaluationInv, PlanPinned, ContractTasks
  <2>4. PlannedTasks = Members(plan.tasks)
    BY DEF PlannedTasks, Members
  <2>5. PlannedTasks \subseteq Members(tree.manifest.tasks[home])
    BY <2>1, <2>2, <2>3, <2>4, SelectedFacts DEF EvaluationInv, ManifestSplits
  <2>6. \A s \in SplitNames \ {home} : PlannedTasks \cap Members(tree.manifest.tasks[s]) = {}
    BY <2>2, <2>5 DEF EvaluationInv, ManifestSplits
  <2> QED BY <2>3, <2>5, <2>6 DEF RunsPinnedTasks, Members
<1> QED BY <1>1, InitEvaluationInv, NextEvaluationInv, PTL DEF Spec

\* When the host and the engine are gone, no copy, no container and no worktree is
\* left, but for the signals and refusals named (engine.sh, execution.py).
THEOREM CleanedUp == Spec => []NothingLeftBehind
<1>1. EvaluationInv => NothingLeftBehind
  BY DEF EvaluationInv, LeftToRemove, NothingLeftBehind
<1> QED BY <1>1, InitEvaluationInv, NextEvaluationInv, PTL DEF Spec

------------------------------------------------------------------------------
(* Counting. *)

\* A function that takes no value twice has as many values as arguments.
LEMMA ImageCardinality ==
  ASSUME NEW E, IsFiniteSet(E), NEW f, DOMAIN f = E,
         \A x, y \in E : f[x] = f[y] => x = y
  PROVE  IsFiniteSet({f[x] : x \in E}) /\ Cardinality({f[x] : x \in E}) = Cardinality(E)
<1> DEFINE T == {f[x] : x \in E}
           h == [x \in E |-> f[x]]
<1>1. h \in [E -> T] /\ \A x, y \in E : h[x] = h[y] => x = y
  OBVIOUS
<1>2. \A t \in T : \E x \in E : h[x] = t
  OBVIOUS
<1>3. ExistsBijection(E, T)
  <2> HIDE DEF T, h
  <2>1. h \in Bijection(E, T)
    BY <1>1, <1>2 DEF Bijection, Injection, Surjection, IsInjective
  <2> QED BY <2>1 DEF ExistsBijection
<1> QED BY <1>3, FS_Bijection

\* The sum of rewards that are 0 or 1 is the number of those that are 1.
LEMMA SumOfRewards ==
  ASSUME NEW S, IsFiniteSet(S), \A v \in S : v.result.reward \in {0, 1}
  PROVE  MapThenSumSet(LAMBDA v : v.result.reward, S) = Cardinality({v \in S : v.result.reward = 1})
<1> DEFINE one(T) == CHOOSE x \in T : TRUE
           F(g) == [s \in SUBSET S |-> IF s = {} THEN 0 ELSE one(s).result.reward + g[s \ {one(s)}]]
           it == CHOOSE g : g = F(g)
           ones(T) == {v \in T : v.result.reward = 1}
           count == [s \in SUBSET S |-> Cardinality(ones(s))]
<1>1. MapThenSumSet(LAMBDA v : v.result.reward, S) = it[S]
  BY DEF MapThenSumSet, MapThenFoldSet
<1>2. \A s \in SUBSET S : s # {} => one(s) \in s
  OBVIOUS
<1>3. \A s \in SUBSET S : IsFiniteSet(s) /\ IsFiniteSet(ones(s)) /\ Cardinality(ones(s)) \in Nat
  <2> TAKE s \in SUBSET S
  <2>1. IsFiniteSet(s)
    BY FS_Subset
  <2>2. ones(s) \in SUBSET s
    OBVIOUS
  <2> QED BY <2>1, <2>2, FS_Subset, FS_CardinalityType
<1>4. ASSUME NEW s \in SUBSET S, s # {}
      PROVE  Cardinality(ones(s)) = one(s).result.reward + Cardinality(ones(s \ {one(s)}))
  <2> DEFINE x == one(s)
             rest == ones(s \ {x})
  <2>1. x \in s /\ x.result.reward \in {0, 1} /\ s \ {x} \in SUBSET S
    BY <1>2, <1>4
  <2>2. IsFiniteSet(rest) /\ Cardinality(rest) \in Nat
    BY <1>3, <2>1
  <2>3. ones(s) = IF x.result.reward = 1 THEN rest \cup {x} ELSE rest
    BY <2>1
  <2>4. x \notin rest
    OBVIOUS
  <2> HIDE DEF x, rest, ones
  <2>5. Cardinality(rest \cup {x}) = Cardinality(rest) + 1
    BY <2>2, <2>4, FS_AddElement
  <2>6. Cardinality(ones(s)) = x.result.reward + Cardinality(rest)
    BY <2>1, <2>2, <2>3, <2>5
  <2> QED BY <2>6 DEF x, rest
<1> HIDE DEF one
<1>5. ones({}) = {} /\ Cardinality(ones({})) = 0
  BY FS_EmptySet
<1>6. count = F(count)
  <2>1. \A s \in SUBSET S : s \ {one(s)} \in SUBSET S
    OBVIOUS
  <2>2. \A s \in SUBSET S : count[s] = F(count)[s]
    <3> TAKE s \in SUBSET S
    <3>1. CASE s = {}
      BY <1>5, <3>1
    <3>2. CASE s # {}
      BY <1>4, <2>1, <3>2
    <3> QED BY <3>1, <3>2
  <2> QED BY <2>2
<1>7. it = F(it)
  <2> HIDE DEF F, count
  <2> QED BY <1>6
<1>8. \A s \in SUBSET S : it[s] = IF s = {} THEN 0 ELSE one(s).result.reward + it[s \ {one(s)}]
  <2> DEFINE g == it
  <2>1. g = F(g)
    BY <1>7
  <2> HIDE DEF g
  <2>2. \A s \in SUBSET S : F(g)[s] = IF s = {} THEN 0 ELSE one(s).result.reward + g[s \ {one(s)}]
    OBVIOUS
  <2>3. \A s \in SUBSET S : g[s] = IF s = {} THEN 0 ELSE one(s).result.reward + g[s \ {one(s)}]
    BY <2>1, <2>2
  <2> QED BY <2>3 DEF g
<1> HIDE DEF it, F, count
<1>9. \A s \in SUBSET S : it[s] = Cardinality(ones(s))
  <2> DEFINE wrong == {n \in Nat : \E s \in SUBSET S : Cardinality(s) = n /\ it[s] # Cardinality(ones(s))}
  <2>1. SUFFICES ASSUME wrong # {} PROVE FALSE
    <3>1. \A s \in SUBSET S : Cardinality(s) \in Nat
      BY <1>3, FS_CardinalityType
    <3> QED BY <3>1
  <2>2. wrong \in SUBSET Nat
    OBVIOUS
  <2>3. PICK n \in wrong : \A m \in wrong : n <= m
    <3> HIDE DEF wrong
    <3> QED BY <2>1, <2>2, LeastNatural
  <2>4. PICK s \in SUBSET S : Cardinality(s) = n /\ it[s] # Cardinality(ones(s))
    BY <2>3
  <2>5. s # {}
    BY <1>5, <1>8, <2>4
  <2> DEFINE rest == s \ {one(s)}
  <2>6. one(s) \in s
    BY <1>2, <2>5 DEF one
  <2>7. rest \in SUBSET S /\ Cardinality(rest) = n - 1 /\ n - 1 \in Nat
    <3>1. IsFiniteSet(s) /\ IsFiniteSet(rest) /\ Cardinality(s) \in Nat
      BY <1>3, <2>4, FS_CardinalityType
    <3>2. Cardinality(rest) = Cardinality(s) - 1
      BY <2>6, <3>1, FS_RemoveElement
    <3>3. Cardinality(rest) \in Nat
      BY <3>1, FS_CardinalityType
    <3> QED BY <2>4, <3>2, <3>3
  <2>8. it[rest] = Cardinality(ones(rest))
    <3>1. n - 1 \notin wrong
      BY <2>2, <2>3, <2>7
    <3> HIDE DEF ones, rest
    <3> QED BY <2>7, <3>1
  <2>9. it[s] = one(s).result.reward + it[rest]
    BY <1>8, <2>5
  <2>10. Cardinality(ones(s)) = one(s).result.reward + Cardinality(ones(rest))
    BY <1>4, <2>5
  <2> HIDE DEF ones, rest, wrong
  <2> QED BY <2>4, <2>8, <2>9, <2>10
<1> QED BY <1>1, <1>9

------------------------------------------------------------------------------
(* Trials, their results and the vector. *)

Zeros == {"fail"} \cup (IF TimeoutZero THEN {"agent_timeout"} ELSE {})
                  \cup (IF TimeoutZero /\ FinalTimeout THEN {"verifier_timeout"} ELSE {})

Unmeasured == {"no_reward", "dependency", "network_timeout", "exception"}
                \cup (IF FinalTimeout THEN {} ELSE {"verifier_timeout"})

\* How each result counts.
LEMMA ResultFacts ==
  ASSUME NEW kind \in TrialKinds
  PROVE  LET r == TrialResult(kind) IN
         /\ ScoreEligible(r) <=> kind \in {"pass"} \cup Zeros
         /\ ScoreEligible(r) => r.reward \in {0, 1}
         /\ r.reward = 1 <=> kind = "pass"
         /\ Effective(r) = "candidate_invalid" <=> kind = "candidate"
         /\ Effective(r) = "infrastructure_failed" <=> kind \in Unmeasured
         /\ Effective(r) # "missing"
         /\ Effective(r) = "timeout" => kind \in {"agent_timeout", "verifier_timeout"}
         /\ Effective(r) \in {"candidate_invalid", "infrastructure_failed", "timeout",
                              "benchmark_complete"}
         /\ Effective(r) = "benchmark_complete" => ScoreEligible(r)
         /\ IF Counted(r) THEN r.reward # None ELSE r.reward = None \/ Diagnosed(r)
         /\ r.status # "missing"
<1>1. FinalTimeout \in BOOLEAN /\ TimeoutZero \in BOOLEAN
  BY EvaluationAssumption
<1>2. None # 0 /\ None # 1
  BY NoneAssumption
<1> USE <1>1, <1>2 DEF TrialResult, ScoreEligible, Effective, Counted, Diagnosed, Zeros, Unmeasured
<1>3. CASE kind = "pass"
  BY <1>3
<1>4. CASE kind = "fail"
  BY <1>4
<1>5. CASE kind = "agent_timeout"
  <2> DEFINE r == TrialResult(kind)
  <2>1. r = [status |-> "timeout", reward |-> 0, owner |-> "benchmark_agent", raised |-> TRUE]
    BY <1>5 DEF TrialResult
  <2> HIDE DEF r
  <2>2. Effective(r) = "timeout" /\ r.reward = 0
    BY <2>1 DEF Effective
  <2>3. ScoreEligible(r) <=> TimeoutZero
    BY <2>1, <2>2 DEF ScoreEligible
  <2>4. kind \in {"pass"} \cup Zeros <=> TimeoutZero
    BY <1>5 DEF Zeros
  <2>5. kind \notin Unmeasured
    BY <1>5 DEF Unmeasured
  <2> QED BY <1>5, <2>1, <2>2, <2>3, <2>4, <2>5 DEF r
<1>6. CASE kind = "verifier_timeout"
  <2> DEFINE r == TrialResult(kind)
  <2>1. CASE FinalTimeout
    <3>1. r = [status |-> "timeout", reward |-> 0, owner |-> "benchmark_verifier", raised |-> TRUE]
      BY <1>6, <2>1 DEF TrialResult
    <3> HIDE DEF r
    <3>2. Effective(r) = "timeout" /\ r.reward = 0
      BY <3>1 DEF Effective
    <3>3. ScoreEligible(r) <=> TimeoutZero
      BY <3>1, <3>2 DEF ScoreEligible
    <3>4. kind \in {"pass"} \cup Zeros <=> TimeoutZero
      BY <1>6, <2>1 DEF Zeros
    <3>5. kind \notin Unmeasured
      BY <1>6, <2>1 DEF Unmeasured
    <3> QED BY <1>6, <3>1, <3>2, <3>3, <3>4, <3>5 DEF r
  <2>2. CASE ~FinalTimeout
    BY <1>6, <2>2
  <2> QED BY <2>1, <2>2
<1>7. CASE kind = "no_reward"
  BY <1>7
<1>8. CASE kind = "candidate"
  BY <1>8
<1>9. CASE kind = "dependency"
  BY <1>9
<1>10. CASE kind = "network_timeout"
  BY <1>10
<1>11. CASE kind = "exception"
  BY <1>11
<1> QED BY <1>3, <1>4, <1>5, <1>6, <1>7, <1>8, <1>9, <1>10, <1>11 DEF TrialKinds

\* The trials that have a result, those of the same task before a trial, and the
\* row a trial makes.
Ended(results) == {x \in DOMAIN results : results[x] # None}
Earlier(results, x) == {y \in DOMAIN results : y[1] = x[1] /\ y[2] < x[2] /\ results[y] # None}
TrialRow(results, x) ==
  [id |-> <<x[1], Cardinality(Earlier(results, x))>>, result |-> TrialResult(results[x])]

Fits(results) ==
  /\ DOMAIN results \subseteq Tasks \X (0..Repetitions - 1) /\ IsFiniteSet(DOMAIN results)
  /\ \A x \in DOMAIN results : results[x] \in TrialKinds \cup {None}

\* The vector is the rows of the trials that have ended.
LEMMA VectorRows ==
  ASSUME NEW results
  PROVE  TaskVector(results) = {TrialRow(results, x) : x \in Ended(results)}
BY DEF TaskVector, TrialRow, Ended, Earlier

\* The positions in the vector are numbers.
LEMMA EarlierFinite ==
  ASSUME NEW results, Fits(results), NEW x
  PROVE  /\ IsFiniteSet(Ended(results)) /\ IsFiniteSet(Earlier(results, x))
         /\ Cardinality(Earlier(results, x)) \in Nat
<1>1. Ended(results) \in SUBSET DOMAIN results /\ Earlier(results, x) \in SUBSET DOMAIN results
  BY DEF Ended, Earlier
<1> QED BY <1>1, FS_Subset, FS_CardinalityType DEF Fits

\* Two trials make two rows, with two ids.
LEMMA IdsDiffer ==
  ASSUME NEW results, Fits(results), NEW x \in Ended(results), NEW y \in Ended(results),
         TrialRow(results, x).id = TrialRow(results, y).id
  PROVE  x = y
<1>1. \A z \in Ended(results) : z \in DOMAIN results /\ z[1] \in Tasks /\ z[2] \in Int
                                /\ z = <<z[1], z[2]>> /\ results[z] # None
  BY DEF Ended, Fits
<1>2. x[1] = y[1] /\ Cardinality(Earlier(results, x)) = Cardinality(Earlier(results, y))
  BY DEF TrialRow
<1>3. ASSUME NEW a \in Ended(results), NEW b \in Ended(results), a[1] = b[1], a[2] < b[2]
      PROVE  Cardinality(Earlier(results, a)) < Cardinality(Earlier(results, b))
  <2> DEFINE A == Earlier(results, a)
             B == Earlier(results, b)
  <2>1. \A z \in DOMAIN results : z[2] \in Int
    BY DEF Fits
  <2>2. a \notin A /\ A \cup {a} \subseteq B
    BY <1>1, <1>3, <2>1 DEF Earlier
  <2>3. IsFiniteSet(A) /\ IsFiniteSet(B) /\ Cardinality(A) \in Nat /\ Cardinality(B) \in Nat
    BY EarlierFinite
  <2> HIDE DEF A, B
  <2>4. Cardinality(A \cup {a}) = Cardinality(A) + 1
    BY <2>2, <2>3, FS_AddElement
  <2>5. Cardinality(A \cup {a}) <= Cardinality(B)
    BY <2>2, <2>3, FS_Subset
  <2>6. Cardinality(A) < Cardinality(B)
    BY <2>3, <2>4, <2>5
  <2> QED BY <2>6 DEF A, B
<1>4. ~(x[2] < y[2]) /\ ~(y[2] < x[2])
  <2>1. Cardinality(Earlier(results, x)) \in Nat
    BY EarlierFinite
  <2> QED BY <1>2, <1>3, <2>1
<1>5. x[2] = y[2]
  BY <1>1, <1>4
<1> QED BY <1>1, <1>2, <1>5

\* As many rows as trials.
LEMMA RowsCount ==
  ASSUME NEW results, Fits(results), NEW E \in SUBSET Ended(results)
  PROVE  /\ IsFiniteSet({TrialRow(results, x) : x \in E})
         /\ Cardinality({TrialRow(results, x) : x \in E}) = Cardinality(E)
<1> DEFINE f == [x \in E |-> TrialRow(results, x)]
<1>1. IsFiniteSet(E)
  BY EarlierFinite, FS_Subset
<1>2. \A x, y \in E : f[x] = f[y] => x = y
  <2> SUFFICES ASSUME NEW x \in E, NEW y \in E, TrialRow(results, x) = TrialRow(results, y)
               PROVE  x = y
    OBVIOUS
  <2> QED BY IdsDiffer
<1>3. {TrialRow(results, x) : x \in E} = {f[x] : x \in E} /\ DOMAIN f = E
  OBVIOUS
<1> HIDE DEF f
<1> QED BY <1>1, <1>2, <1>3, ImageCardinality

\* When all of a plan's trials have ended, a row has the id of its trial.
LEMMA IdsAsPlanned ==
  ASSUME NEW results, Fits(results), NEW names, DOMAIN results = names \X (0..Repetitions - 1),
         Ended(results) = DOMAIN results, NEW x \in DOMAIN results
  PROVE  TrialRow(results, x).id = x
<1>1. Repetitions \in Nat /\ x = <<x[1], x[2]>> /\ x[1] \in names /\ x[2] \in 0..Repetitions - 1
  BY EvaluationAssumption
<1> DEFINE t == x[1]
           r == x[2]
           f == [q \in 0..(r - 1) |-> <<t, q>>]
<1>2. r \in Nat /\ IsFiniteSet(0..(r - 1)) /\ Cardinality(0..(r - 1)) = r
  <2>1. r \in Nat /\ 0 \in Int /\ r - 1 \in Int
    BY <1>1
  <2> HIDE DEF r
  <2>2. /\ IsFiniteSet(0..(r - 1))
        /\ Cardinality(0..(r - 1)) = IF 0 > r - 1 THEN 0 ELSE (r - 1) - 0 + 1
    BY <2>1, FS_Interval
  <2>3. (IF 0 > r - 1 THEN 0 ELSE (r - 1) - 0 + 1) = r
    BY <2>1
  <2> QED BY <2>1, <2>2, <2>3
<1>3. Earlier(results, x) = {f[q] : q \in 0..(r - 1)}
  <2>1. \A y \in DOMAIN results : y = <<y[1], y[2]>> /\ y[1] \in names /\ y[2] \in 0..Repetitions - 1
    OBVIOUS
  <2>2. \A y \in DOMAIN results : results[y] # None
    BY DEF Ended
  <2>3. Earlier(results, x) = {y \in DOMAIN results : y[1] = t /\ y[2] < r}
    BY <2>2 DEF Earlier
  <2>4. \A y \in DOMAIN results : y[1] = t /\ y[2] < r => y[2] \in 0..(r - 1) /\ y = f[y[2]]
    BY <2>1, <1>1
  <2>5. \A q \in 0..(r - 1) : f[q] = <<t, q>> /\ <<t, q>> \in DOMAIN results /\ q < r
    BY <1>1, <1>2
  <2> HIDE DEF f, t, r
  <2>6. \A y \in Earlier(results, x) : y \in {f[q] : q \in 0..(r - 1)}
    BY <2>3, <2>4
  <2>7. \A q \in 0..(r - 1) : <<t, q>>[1] = t /\ <<t, q>>[2] = q
    OBVIOUS
  <2>8. \A q \in 0..(r - 1) : f[q] \in Earlier(results, x)
    BY <2>3, <2>5, <2>7
  <2> QED BY <2>6, <2>8
<1>4. \A p, q \in 0..(r - 1) : f[p] = f[q] => p = q
  OBVIOUS
<1>5. DOMAIN f = 0..(r - 1)
  OBVIOUS
<1> HIDE DEF f
<1>6. Cardinality(Earlier(results, x)) = r
  BY <1>2, <1>3, <1>4, <1>5, ImageCardinality
<1> QED BY <1>1, <1>6 DEF TrialRow

\* A plan's trials: each of its tasks, as often as is asked for.
Injective(s) == \A i, j \in 1..Len(s) : s[i] = s[j] => i = j
Plannable(p) == p.tasks \in Seq(Tasks) /\ Injective(p.tasks) /\ p.tasks # << >>

\* A plan's trials are as many as its tasks times the repetitions.
LEMMA PlannedTrials ==
  ASSUME NEW p, Plannable(p)
  PROVE  /\ Trials(p) = Members(p.tasks) \X (0..Repetitions - 1)
         /\ Members(p.tasks) \subseteq Tasks
         /\ IsFiniteSet(Trials(p)) /\ Cardinality(Trials(p)) = Len(p.tasks) * Repetitions
         /\ Cardinality(Trials(p)) \in Nat \ {0}
<1> DEFINE s == p.tasks
           reps == 0..Repetitions - 1
<1>1. s \in Seq(Tasks) /\ Len(s) \in Nat \ {0} /\ DOMAIN s = 1..Len(s)
      /\ \A i \in 1..Len(s) : s[i] \in Tasks
  BY DEF Plannable
<1>2. Repetitions \in Nat \ {0} /\ IsFiniteSet(reps) /\ Cardinality(reps) = Repetitions
  <2>1. Repetitions \in Nat \ {0}
    BY EvaluationAssumption
  <2> QED BY <2>1, FS_Interval
<1>3. IsFiniteSet(1..Len(s)) /\ Cardinality(1..Len(s)) = Len(s)
  BY <1>1, FS_Interval
<1>4. IsFiniteSet(Members(s)) /\ Cardinality(Members(s)) = Len(s)
  BY <1>1, <1>3, ImageCardinality DEF Members, Plannable, Injective
<1>5. Trials(p) = Members(s) \X reps
  BY DEF Trials, Members
<1>6. IsFiniteSet(Members(s) \X reps) /\ Cardinality(Members(s) \X reps) = Len(s) * Repetitions
  BY <1>2, <1>4, FS_Product
<1>7. Len(s) * Repetitions \in Nat \ {0}
  BY <1>1, <1>2
<1>8. Members(s) \subseteq Tasks
  BY <1>1 DEF Members
<1> HIDE DEF reps
<1> QED BY <1>5, <1>6, <1>7, <1>8 DEF reps

------------------------------------------------------------------------------
(* The verdict. *)

Scoreable(trials) == {v \in trials : ScoreEligible(v.result)}
Enough(p, trials) ==
  Scoreable(trials) # {} /\ Cardinality(Scoreable(trials)) * 100 >= PartialFloor * Cardinality(Trials(p))
Shows(trials, outcome) == \E v \in trials : Effective(v.result) = outcome

\* What each outcome says of the trials it is given for.
LEMMA ClassifyFacts ==
  ASSUME NEW p, NEW trials, NEW cause
  PROVE  LET c == Classify(p, trials, cause) IN
         /\ c.outcome \in {"complete", "candidate_invalid", "infrastructure_failed", "timeout"}
         /\ c.outcome = "candidate_invalid" => cause = "candidate_invalid" \/ Shows(trials, "candidate_invalid")
         /\ c.outcome = "complete" =>
              /\ ~Shows(trials, "candidate_invalid") /\ Enough(p, trials)
              /\ c.total = MapThenSumSet(LAMBDA v : v.result.reward, Scoreable(trials))
         /\ c.outcome = "infrastructure_failed" =>
              \/ cause = "infrastructure_failed"
              \/ Cardinality(trials) > Cardinality(Trials(p)) \/ Cardinality(trials) # Cardinality(Trials(p))
              \/ Shows(trials, "infrastructure_failed") \/ Shows(trials, "missing")
         /\ c.outcome = "timeout" =>
              /\ Cardinality(trials) = Cardinality(Trials(p)) /\ ~Enough(p, trials)
              /\ ~Shows(trials, "infrastructure_failed") /\ ~Shows(trials, "missing")
              /\ ~Shows(trials, "candidate_invalid")
<1> DEFINE c == Classify(p, trials, cause)
           outcomes == {Effective(v.result) : v \in trials}
           scoreable == {v \in trials : ScoreEligible(v.result)}
           expected == Cardinality(Trials(p))
           invalid == cause # "infrastructure_failed" /\ "candidate_invalid" \in outcomes \cup {cause}
           enough == scoreable # {} /\ Cardinality(scoreable) * 100 >= PartialFloor * expected
           short == outcomes \cap {"infrastructure_failed", "missing"} # {} \/ Cardinality(trials) # expected
           rest == IF Cardinality(trials) > expected THEN "infrastructure_failed"
                   ELSE IF enough THEN "complete"
                   ELSE IF short THEN "infrastructure_failed" ELSE "timeout"
           outcome == CASE cause = "infrastructure_failed" -> "infrastructure_failed"
                        [] invalid -> "candidate_invalid"
                        [] OTHER -> rest
<1>1. /\ c.outcome = outcome
      /\ outcome = "complete" => c.total = MapThenSumSet(LAMBDA v : v.result.reward, scoreable)
  BY DEF Classify
<1>2. scoreable = Scoreable(trials) /\ (enough <=> Enough(p, trials))
  BY DEF Scoreable, Enough
<1>3. \A o : o \in outcomes <=> Shows(trials, o)
  BY DEF Shows
<1> HIDE DEF c, enough, outcomes, scoreable, expected
<1>4. CASE cause = "infrastructure_failed"
  BY <1>1, <1>2, <1>4 DEF c
<1>5. CASE cause # "infrastructure_failed" /\ invalid
  <2>1. outcome = "candidate_invalid"
    BY <1>5
  <2>2. cause = "candidate_invalid" \/ Shows(trials, "candidate_invalid")
    BY <1>3, <1>5
  <2> HIDE DEF outcome
  <2> QED BY <1>1, <2>1, <2>2 DEF c
<1>6. CASE cause # "infrastructure_failed" /\ ~invalid
  <2>1. outcome = rest /\ ~Shows(trials, "candidate_invalid")
    BY <1>3, <1>6
  <2>2. rest \in {"complete", "infrastructure_failed", "timeout"}
    OBVIOUS
  <2>3. rest = "complete" => Enough(p, trials)
    BY <1>2
  <2>4. rest = "infrastructure_failed" => Cardinality(trials) > expected \/ short
    OBVIOUS
  <2>5. rest = "timeout" => ~short /\ ~enough
    OBVIOUS
  <2>6. short <=> Shows(trials, "infrastructure_failed") \/ Shows(trials, "missing")
                  \/ Cardinality(trials) # expected
    BY <1>3
  <2> HIDE DEF outcome, rest, short
  <2> QED BY <1>1, <1>2, <2>1, <2>2, <2>3, <2>4, <2>5, <2>6 DEF c, expected
<1> QED BY <1>4, <1>5, <1>6

\* The trials a plan fills in for those that left no result.
Missing(v) == v.result = [status |-> "missing", reward |-> None, owner |-> "evaluator", raised |-> FALSE]

\* A trial that is filled in counts as missing and never for the score.
LEMMA MissingFacts ==
  ASSUME NEW v, Missing(v)
  PROVE  Effective(v.result) = "missing" /\ ~ScoreEligible(v.result)
<1> DEFINE r == v.result
<1>1. r.status = "missing" /\ r.reward = None /\ r.owner = "evaluator" /\ r.raised = FALSE
  BY DEF Missing
<1> HIDE DEF r
<1>2. Effective(r) = "missing" /\ ~ScoreEligible(r)
  BY <1>1 DEF Effective, ScoreEligible
<1> QED BY <1>2 DEF r

Of(results, kinds) == {x \in DOMAIN results : results[x] \in kinds}

\* What is judged: rows of the jobs' own trials, if any, and missing ones.
Judged(results, p, trials) ==
  \/ \A v \in trials : Missing(v)
  \/ /\ DOMAIN results = Trials(p)
     /\ \E filled : (\A v \in filled : Missing(v)) /\ trials = TaskVector(results) \cup filled

\* Each row of the vector is that of a trial with a result.
LEMMA RowOfTrial ==
  ASSUME NEW results, Fits(results), NEW v \in TaskVector(results)
  PROVE  \E x \in Ended(results) : /\ v = TrialRow(results, x) /\ v.result = TrialResult(results[x])
                                   /\ x \in DOMAIN results /\ results[x] \in TrialKinds
<1>1. PICK x \in Ended(results) : v = TrialRow(results, x)
  BY VectorRows
<1>2. x \in DOMAIN results /\ results[x] \in TrialKinds
  BY DEF Ended, Fits
<1>3. v.result = TrialResult(results[x])
  BY <1>1 DEF TrialRow
<1> QED BY <1>1, <1>2, <1>3

\* And each trial with a result makes its row.
LEMMA TrialMakesRow ==
  ASSUME NEW results, Fits(results), NEW x \in DOMAIN results, results[x] \in TrialKinds
  PROVE  /\ x \in Ended(results) /\ TrialRow(results, x) \in TaskVector(results)
         /\ TrialRow(results, x).result = TrialResult(results[x])
<1>1. None \notin TrialKinds
  BY NoneAssumption
<1>2. x \in Ended(results)
  BY <1>1 DEF Ended
<1> QED BY <1>2, VectorRows DEF TrialRow

\* The rows that count are those of the trials that passed or failed by themselves.
LEMMA ScoreableRows ==
  ASSUME NEW results, Fits(results), NEW filled, \A v \in filled : Missing(v)
  PROVE  LET S == Scoreable(TaskVector(results) \cup filled) IN
         /\ S = {TrialRow(results, x) : x \in Of(results, {"pass"} \cup Zeros)}
         /\ \A v \in S : v.result.reward \in {0, 1}
         /\ {v \in S : v.result.reward = 1} = {TrialRow(results, x) : x \in Of(results, {"pass"})}
         /\ Of(results, {"pass"} \cup Zeros) \in SUBSET Ended(results)
         /\ Of(results, {"pass"}) \in SUBSET Ended(results)
<1> DEFINE S == Scoreable(TaskVector(results) \cup filled)
           good == {"pass"} \cup Zeros
<1>1. good \subseteq TrialKinds /\ "pass" \in TrialKinds
  BY DEF Zeros, TrialKinds
<1>2. ASSUME NEW v \in S
      PROVE  /\ \E x \in Of(results, good) : v = TrialRow(results, x)
             /\ v.result.reward \in {0, 1}
             /\ v.result.reward = 1 => \E x \in Of(results, {"pass"}) : v = TrialRow(results, x)
  <2>1. v \in TaskVector(results) \cup filled /\ ScoreEligible(v.result)
    BY DEF Scoreable
  <2>2. v \in TaskVector(results)
    BY <2>1, MissingFacts
  <2>3. PICK x \in Ended(results) : /\ v = TrialRow(results, x) /\ v.result = TrialResult(results[x])
                                    /\ x \in DOMAIN results /\ results[x] \in TrialKinds
    BY <2>2, RowOfTrial
  <2>4. results[x] \in good /\ v.result.reward \in {0, 1}
        /\ (v.result.reward = 1 => results[x] \in {"pass"})
    BY <2>1, <2>3, ResultFacts
  <2> QED BY <2>3, <2>4 DEF Of
<1>3. ASSUME NEW x \in Of(results, good)
      PROVE  /\ x \in Ended(results) /\ TrialRow(results, x) \in S
             /\ results[x] = "pass" => TrialRow(results, x).result.reward = 1
  <2>1. x \in DOMAIN results /\ results[x] \in good /\ results[x] \in TrialKinds
    BY <1>1 DEF Of
  <2>2. /\ x \in Ended(results) /\ TrialRow(results, x) \in TaskVector(results)
        /\ TrialRow(results, x).result = TrialResult(results[x])
    BY <2>1, TrialMakesRow
  <2>3. /\ ScoreEligible(TrialResult(results[x]))
        /\ results[x] = "pass" => TrialResult(results[x]).reward = 1
    BY <2>1, ResultFacts
  <2> QED BY <2>2, <2>3 DEF Scoreable
<1>4. Of(results, {"pass"}) \subseteq Of(results, good)
      /\ \A x \in Of(results, {"pass"}) : results[x] = "pass"
  BY DEF Of
<1> HIDE DEF S, good
<1>5. S = {TrialRow(results, x) : x \in Of(results, good)}
  BY <1>2, <1>3
<1>6. {v \in S : v.result.reward = 1} = {TrialRow(results, x) : x \in Of(results, {"pass"})}
  <2>1. \A v \in S : v.result.reward = 1 => v \in {TrialRow(results, x) : x \in Of(results, {"pass"})}
    BY <1>2
  <2>2. \A x \in Of(results, {"pass"}) : TrialRow(results, x) \in S /\ TrialRow(results, x).result.reward = 1
    BY <1>3, <1>4
  <2> QED BY <2>1, <2>2
<1> QED BY <1>2, <1>3, <1>4, <1>5, <1>6 DEF S, good

\* So their number and their sum are read off the trials.
LEMMA CountsOfTrials ==
  ASSUME NEW results, Fits(results), NEW filled, \A v \in filled : Missing(v)
  PROVE  LET S == Scoreable(TaskVector(results) \cup filled) IN
         /\ Cardinality(S) = Cardinality(Of(results, {"pass"} \cup Zeros))
         /\ MapThenSumSet(LAMBDA v : v.result.reward, S) = Cardinality(Of(results, {"pass"}))
<1> DEFINE S == Scoreable(TaskVector(results) \cup filled)
<1>1. /\ S = {TrialRow(results, x) : x \in Of(results, {"pass"} \cup Zeros)}
      /\ \A v \in S : v.result.reward \in {0, 1}
      /\ {v \in S : v.result.reward = 1} = {TrialRow(results, x) : x \in Of(results, {"pass"})}
      /\ Of(results, {"pass"} \cup Zeros) \in SUBSET Ended(results)
      /\ Of(results, {"pass"}) \in SUBSET Ended(results)
  BY ScoreableRows
<1> HIDE DEF S
<1>2. \A E \in SUBSET Ended(results) :
        /\ IsFiniteSet({TrialRow(results, x) : x \in E})
        /\ Cardinality({TrialRow(results, x) : x \in E}) = Cardinality(E)
  BY RowsCount
<1>3. IsFiniteSet(S) /\ Cardinality(S) = Cardinality(Of(results, {"pass"} \cup Zeros))
  BY <1>1, <1>2
<1>4. Cardinality({v \in S : v.result.reward = 1}) = Cardinality(Of(results, {"pass"}))
  BY <1>1, <1>2
<1>5. MapThenSumSet(LAMBDA v : v.result.reward, S) = Cardinality({v \in S : v.result.reward = 1})
  BY <1>1, <1>3, SumOfRewards
<1> QED BY <1>3, <1>4, <1>5 DEF S

\* A score, the blame for a candidate and a timeout follow from the trials.
LEMMA VerdictOfTrials ==
  ASSUME NEW results, Fits(results), NEW p, Plannable(p), NEW trials, Judged(results, p, trials),
         NEW cause, cause # "candidate_invalid"
  PROVE  LET c == Classify(p, trials, cause) IN
         /\ c.outcome \in {"complete", "candidate_invalid", "infrastructure_failed", "timeout"}
         /\ c.outcome = "complete" =>
              /\ DOMAIN results = Trials(p) /\ Of(results, {"candidate"}) = {}
              /\ c.total = Cardinality(Of(results, {"pass"}))
              /\ Cardinality(Of(results, {"pass"} \cup Zeros)) * 100
                   >= PartialFloor * Len(p.tasks) * Repetitions
         /\ c.outcome = "candidate_invalid" => Of(results, {"candidate"}) # {}
         /\ c.outcome = "timeout" => Of(results, {"agent_timeout", "verifier_timeout"}) # {}
<1> DEFINE c == Classify(p, trials, cause)
<1>1. /\ c.outcome \in {"complete", "candidate_invalid", "infrastructure_failed", "timeout"}
      /\ c.outcome = "candidate_invalid" => Shows(trials, "candidate_invalid")
      /\ c.outcome = "complete" =>
           /\ ~Shows(trials, "candidate_invalid") /\ Enough(p, trials)
           /\ c.total = MapThenSumSet(LAMBDA v : v.result.reward, Scoreable(trials))
      /\ c.outcome = "timeout" =>
           /\ Cardinality(trials) = Cardinality(Trials(p)) /\ ~Enough(p, trials)
           /\ ~Shows(trials, "infrastructure_failed") /\ ~Shows(trials, "missing")
           /\ ~Shows(trials, "candidate_invalid")
  BY ClassifyFacts
<1> HIDE DEF c
<1>2. /\ Cardinality(Trials(p)) = Len(p.tasks) * Repetitions
      /\ Cardinality(Trials(p)) \in Nat \ {0}
  BY PlannedTrials
<1>3. PartialFloor \in Int /\ PartialFloor <= 100 /\ Repetitions \in Int /\ Len(p.tasks) \in Int
  BY EvaluationAssumption DEF Plannable
<1>4. CASE \A v \in trials : Missing(v)
  <2>1. \A v \in trials : Effective(v.result) = "missing" /\ ~ScoreEligible(v.result)
    BY <1>4, MissingFacts
  <2>2. Scoreable(trials) = {} /\ ~Shows(trials, "candidate_invalid")
    BY <2>1 DEF Scoreable, Shows
  <2>3. trials = {} \/ Shows(trials, "missing")
    BY <2>1 DEF Shows
  <2>4. Cardinality(trials) = Cardinality(Trials(p)) => trials # {}
    BY <1>2, FS_EmptySet
  <2> QED BY <1>1, <2>2, <2>3, <2>4 DEF c, Enough
<1>5. ASSUME DOMAIN results = Trials(p), NEW filled, \A v \in filled : Missing(v),
             trials = TaskVector(results) \cup filled
      PROVE  /\ c.outcome = "complete" =>
                  /\ Of(results, {"candidate"}) = {}
                  /\ c.total = Cardinality(Of(results, {"pass"}))
                  /\ Cardinality(Of(results, {"pass"} \cup Zeros)) * 100
                       >= PartialFloor * Len(p.tasks) * Repetitions
             /\ c.outcome = "candidate_invalid" => Of(results, {"candidate"}) # {}
             /\ c.outcome = "timeout" => Of(results, {"agent_timeout", "verifier_timeout"}) # {}
  <2>1. Cardinality(Scoreable(trials)) = Cardinality(Of(results, {"pass"} \cup Zeros))
        /\ MapThenSumSet(LAMBDA v : v.result.reward, Scoreable(trials)) = Cardinality(Of(results, {"pass"}))
    BY <1>5, CountsOfTrials
  <2>2. Shows(trials, "candidate_invalid") <=> Of(results, {"candidate"}) # {}
    <3>1. ASSUME NEW v \in trials, Effective(v.result) = "candidate_invalid"
          PROVE  Of(results, {"candidate"}) # {}
      <4>1. v \in TaskVector(results)
        BY <1>5, <3>1, MissingFacts
      <4>2. PICK x \in Ended(results) : /\ v.result = TrialResult(results[x])
                                        /\ x \in DOMAIN results /\ results[x] \in TrialKinds
        BY <4>1, RowOfTrial
      <4>3. results[x] = "candidate"
        BY <3>1, <4>2, ResultFacts
      <4> QED BY <4>2, <4>3 DEF Of
    <3>2. ASSUME NEW x \in Of(results, {"candidate"})
          PROVE  Shows(trials, "candidate_invalid")
      <4>1. x \in DOMAIN results /\ results[x] = "candidate" /\ results[x] \in TrialKinds
        BY DEF Of, TrialKinds
      <4>2. TrialRow(results, x) \in trials /\ TrialRow(results, x).result = TrialResult(results[x])
        BY <1>5, <4>1, TrialMakesRow
      <4>3. Effective(TrialResult(results[x])) = "candidate_invalid"
        BY <4>1, ResultFacts
      <4> QED BY <4>2, <4>3 DEF Shows
    <3> QED BY <3>1, <3>2 DEF Shows
  <2>3. c.outcome = "complete" =>
          /\ Of(results, {"candidate"}) = {}
          /\ c.total = Cardinality(Of(results, {"pass"}))
          /\ Cardinality(Of(results, {"pass"} \cup Zeros)) * 100
               >= PartialFloor * Len(p.tasks) * Repetitions
    <3> SUFFICES ASSUME c.outcome = "complete"
                 PROVE  /\ Of(results, {"candidate"}) = {}
                        /\ c.total = Cardinality(Of(results, {"pass"}))
                        /\ Cardinality(Of(results, {"pass"} \cup Zeros)) * 100
                             >= PartialFloor * Len(p.tasks) * Repetitions
      OBVIOUS
    <3>1. Cardinality(Of(results, {"pass"} \cup Zeros)) * 100
            >= PartialFloor * (Len(p.tasks) * Repetitions)
      BY <1>1, <1>2, <2>1 DEF Enough
    <3>2. PartialFloor * (Len(p.tasks) * Repetitions) = PartialFloor * Len(p.tasks) * Repetitions
      BY <1>3
    <3> QED BY <1>1, <2>1, <2>2, <3>1, <3>2
  <2>4. c.outcome = "timeout" => Of(results, {"agent_timeout", "verifier_timeout"}) # {}
    <3> SUFFICES ASSUME c.outcome = "timeout", Of(results, {"agent_timeout", "verifier_timeout"}) = {}
                 PROVE  FALSE
      OBVIOUS
    <3>1. ASSUME NEW v \in trials PROVE ScoreEligible(v.result)
      <4>1. Effective(v.result) \notin {"missing", "infrastructure_failed", "candidate_invalid"}
        BY <1>1 DEF Shows
      <4>2. v \in TaskVector(results)
        BY <1>5, <4>1, MissingFacts
      <4>3. PICK x \in Ended(results) : /\ v.result = TrialResult(results[x])
                                        /\ x \in DOMAIN results /\ results[x] \in TrialKinds
        BY <4>2, RowOfTrial
      <4>4. results[x] \notin {"agent_timeout", "verifier_timeout"}
        BY <4>3 DEF Of
      <4> QED BY <4>1, <4>3, <4>4, ResultFacts
    <3>2. Scoreable(trials) = trials
      BY <3>1 DEF Scoreable
    <3>3. Cardinality(trials) = Cardinality(Trials(p)) /\ trials # {}
      BY <1>1, <1>2, FS_EmptySet
    <3>4. \A n \in Nat : n * 100 >= PartialFloor * n
      BY <1>3
    <3> QED BY <1>1, <1>2, <3>2, <3>3, <3>4 DEF Enough
  <2> QED BY <1>1, <2>2, <2>3, <2>4
<1> QED BY <1>1, <1>4, <1>5 DEF Judged, c

\* When every trial of the plan has a result, infrastructure is blamed only for one
\* that nothing measured.
LEMMA AllEndedVerdict ==
  ASSUME NEW results, Fits(results), NEW p, Plannable(p), DOMAIN results = Trials(p),
         Ended(results) = DOMAIN results,
         Classify(p, TaskVector(results), None).outcome = "infrastructure_failed"
  PROVE  Of(results, Unmeasured) # {}
<1> DEFINE trials == TaskVector(results)
<1>1. Cardinality(trials) = Cardinality(Trials(p)) /\ Cardinality(Trials(p)) \in Nat
  <2>1. trials = {TrialRow(results, x) : x \in Ended(results)}
    BY VectorRows
  <2>2. Cardinality({TrialRow(results, x) : x \in Ended(results)}) = Cardinality(Ended(results))
    BY RowsCount
  <2> QED BY <2>1, <2>2, PlannedTrials
<1>2. ~Shows(trials, "missing")
  BY RowOfTrial, ResultFacts DEF Shows
<1>3. Shows(trials, "infrastructure_failed")
  <2>1. None # "infrastructure_failed"
    BY NoneAssumption
  <2> HIDE DEF trials
  <2>2. \/ Cardinality(trials) > Cardinality(Trials(p)) \/ Cardinality(trials) # Cardinality(Trials(p))
        \/ Shows(trials, "infrastructure_failed") \/ Shows(trials, "missing")
    BY <2>1, ClassifyFacts DEF trials
  <2> QED BY <1>1, <1>2, <2>2
<1>4. PICK v \in trials : Effective(v.result) = "infrastructure_failed"
  BY <1>3 DEF Shows
<1>5. PICK x \in Ended(results) : /\ v.result = TrialResult(results[x])
                                  /\ x \in DOMAIN results /\ results[x] \in TrialKinds
  BY RowOfTrial
<1>6. results[x] \in Unmeasured
  BY <1>4, <1>5, ResultFacts
<1> QED BY <1>5, <1>6 DEF Of

\* The parser writes no vector that the host refuses.
LEMMA VectorWellFormed ==
  ASSUME NEW results, Fits(results)
  PROVE  WellFormed(TaskVector(results)) /\ WellFormed({})
<1>1. ASSUME NEW v \in TaskVector(results), NEW w \in TaskVector(results), v.id = w.id
      PROVE  v = w
  <2>1. PICK x \in Ended(results) : v = TrialRow(results, x)
    BY RowOfTrial
  <2>2. PICK y \in Ended(results) : w = TrialRow(results, y)
    BY RowOfTrial
  <2>3. x = y
    BY <1>1, <2>1, <2>2, IdsDiffer
  <2> QED BY <2>1, <2>2, <2>3
<1>2. ASSUME NEW v \in TaskVector(results)
      PROVE  IF Counted(v.result) THEN v.result.reward # None
             ELSE v.result.reward = None \/ Diagnosed(v.result)
  <2>1. PICK x \in Ended(results) : v.result = TrialResult(results[x]) /\ results[x] \in TrialKinds
    BY RowOfTrial
  <2> QED BY <2>1, ResultFacts
<1> QED BY <1>1, <1>2 DEF WellFormed

\* The verdicts given without trials.
LEMMA GivenCauses ==
  /\ Infrastructure.outcome = "infrastructure_failed" /\ Invalid.outcome = "candidate_invalid"
  /\ Cancelled.outcome = "cancelled"
<1>1. ASSUME NEW p, NEW trials
      PROVE  /\ Classify(p, trials, "infrastructure_failed").outcome = "infrastructure_failed"
             /\ Classify(p, trials, "candidate_invalid").outcome = "candidate_invalid"
  BY DEF Classify
<1> QED BY <1>1 DEF Infrastructure, Invalid, Cancelled

\* Each split holds tasks of the manifest, each of them once.
LEMMA SplitsOnce ==
  ASSUME NEW names, NEW s \in SplitNames
  PROVE  /\ Assign(names)[s] \in Seq(Tasks) /\ Injective(Assign(names)[s])
         /\ Members(Assign(names)[s]) \subseteq names
<1>1. PICK P : Assign(names)[s] = Sorted(P) /\ P \subseteq names
  <2> DEFINE ordered == Ordered(names)
             counts == Counts(Len(ordered))
             gate == counts["train"] + counts["gate"]
             piece(first, last) == {ordered[i] : i \in (first..last) \cap (1..Len(ordered))}
  <2>1. \A k \in 1..Len(ordered) : ordered[k] \in names
    BY SetupFacts, InOrderFacts DEF Ordered
  <2>2. \A first, last : piece(first, last) \subseteq names
    BY <2>1
  <2>3. /\ Assign(names)["train"] = Sorted(piece(1, counts["train"]))
        /\ Assign(names)["gate"] = Sorted(piece(counts["train"] + 1, gate))
        /\ Assign(names)["sealed"] = Sorted(piece(gate + 1, Len(ordered)))
    BY DEF Assign, Piece, SplitNames
  <2> HIDE DEF piece, gate, counts, ordered
  <2> QED BY <2>2, <2>3 DEF SplitNames
<1>2. /\ Sorted(P) \in Seq(Tasks)
      /\ \A k \in 1..Len(Sorted(P)) : Sorted(P)[k] \in P
      /\ Injective(Sorted(P))
  BY SetupFacts, InOrderFacts DEF Sorted, Injective
<1> QED BY <1>1, <1>2 DEF Members

\* A selection has each task once.
LEMMA SelectedOnce ==
  ASSUME NEW manifest, NEW split, NEW limit \in {None} \cup Nat,
         manifest.tasks[split] \in Seq(Tasks), Injective(manifest.tasks[split])
  PROVE  /\ Selected(manifest, split, limit) \in Seq(Tasks)
         /\ Injective(Selected(manifest, split, limit))
<1> DEFINE names == manifest.tasks[split]
           cap == IF limit # None THEN limit ELSE IF split = "gate" THEN GateLimit ELSE 0
<1>1. cap \in Nat
  BY SetupAssumption
<1>2. Len(names) \in Nat /\ names \in Seq(Tasks) /\ \A i \in 1..Len(names) : names[i] \in Tasks
  OBVIOUS
<1>3. Selected(manifest, split, limit) =
        IF cap > 0 /\ cap < Len(names) THEN SubSeq(names, 1, cap) ELSE names
  BY DEF Selected
<1> HIDE DEF names, cap
<1>4. CASE cap > 0 /\ cap < Len(names)
  <2>1. \A i \in 1..cap : names[i] \in Tasks
    BY <1>1, <1>2, <1>4
  <2>2. /\ Len(SubSeq(names, 1, cap)) = cap /\ SubSeq(names, 1, cap) \in Seq(Tasks)
        /\ \A i \in 1..cap : SubSeq(names, 1, cap)[i] = names[i]
    BY <1>1, <1>4, <2>1, SubSeqProperties
  <2>3. 1..cap \subseteq 1..Len(names)
    BY <1>1, <1>2, <1>4
  <2> QED BY <1>3, <1>4, <2>2, <2>3 DEF Injective, names
<1>5. CASE ~(cap > 0 /\ cap < Len(names))
  BY <1>2, <1>3, <1>5 DEF names
<1> QED BY <1>4, <1>5

------------------------------------------------------------------------------
(* The inductive invariant behind the verdict. *)

Faultless == faults + edits = 0

\* The results are of the plan's trials, what only a failed network or Docker
\* explains needs a fault, and the vector is that of the results.
TrialsFit ==
  /\ faults \in Nat /\ edits \in Nat
  /\ Fits(jobs)
  /\ engine.pc = "off" => jobs = << >>
  /\ engine.pc \in {"harbor", "parse"} => DOMAIN jobs = Trials(plan)
  /\ engine.pc \in {"off", "harbor", "parse"} \cup Copying => evidence = {}
  /\ evidence # {} => evidence = TaskVector(jobs) /\ DOMAIN jobs = Trials(plan)
  /\ ~network \/ ~docker => faults > 0
  /\ Of(jobs, {"exception", "dependency", "network_timeout"}) # {} => faults > 0
  /\ Of(jobs, {"candidate"}) # {} => host.candidate.crashes

\* A split has each task once, and so has a plan.
TasksOnce ==
  /\ \A s \in SplitNames : Injective(tree.manifest.tasks[s])
  /\ host.pc \in BeforeEngine \ {"plan"} \/ engine.pc # "off" => Plannable(plan)

\* While nobody edits and nothing fails, the manifest is that of the dataset, and
\* the engine gets to the end with a result of every trial.
Undisturbed ==
  /\ setup.pc = "dead" \/ host.pc \in {"terminate", "terminated", "dead"} => faults > 0
  /\ host.pc \in {"terminate", "terminated"} => "interrupt" \in happened
  /\ Faultless =>
       /\ setup.pc \in {"target", "vendor", "git", "archive", "done"} =>
            tree.manifest = ManifestOf(content)
       /\ engine.pc = "copy" =>
            /\ DOMAIN pending \subseteq PlannedTasks
            /\ pending = [t \in DOMAIN pending |-> content[t]]
       /\ engine.pc \in {"parse", "cleanup", "unsnap", "gone"} => Ended(jobs) = DOMAIN jobs
       /\ engine.pc \in {"cleanup", "unsnap", "gone"} =>
            evidence = TaskVector(jobs) /\ DOMAIN jobs = Trials(plan)

\* The record's outcome is what the trials, the candidate and the faults account for.
RecordEarned ==
  /\ record.outcome = "complete" =>
       /\ DOMAIN jobs = Trials(plan) /\ Of(jobs, {"candidate"}) = {}
       /\ record.total = Cardinality(Of(jobs, {"pass"}))
       /\ Cardinality(Of(jobs, {"pass"} \cup Zeros)) * 100
            >= PartialFloor * Len(plan.tasks) * Repetitions
  /\ record.outcome = "candidate_invalid" =>
       \/ host.candidate.lock # "fresh" \/ ~host.candidate.builds
       \/ happened \cap {"no network", "no lock check"} # {}
       \/ host.candidate.crashes /\ Of(jobs, {"candidate"}) # {}
  /\ record.outcome = "infrastructure_failed" =>
       faults + edits > 0 \/ Of(jobs, {"no_reward", "verifier_timeout"}) # {}
  /\ record.outcome = "timeout" => Of(jobs, {"agent_timeout", "verifier_timeout"}) # {}
  /\ record.outcome = "cancelled" => "interrupt" \in happened

\* A record ends the evaluation: nothing of what it was made from changes any more.
Recorded ==
  record # None => host.pc = "over" /\ engine.pc \in {"off", "gone"} /\ RecordEarned

VerdictInv == TrialsFit /\ TasksOnce /\ Undisturbed /\ Recorded

\* No trial, no fault, no record.
LEMMA InitVerdictInv == InitEvaluation => VerdictInv
<1> SUFFICES ASSUME InitEvaluation PROVE VerdictInv
  OBVIOUS
<1>1. /\ jobs = << >> /\ evidence = {} /\ engine.pc = "off" /\ host.pc = "idle" /\ record = None
      /\ faults = 0 /\ edits = 0 /\ network = TRUE /\ docker = TRUE /\ setup.pc = "none"
      /\ \A s \in SplitNames : tree.manifest.tasks[s] = << >>
  BY DEF InitEvaluation, InitSetup, NewTree, NoManifest
<1>2. DOMAIN jobs = {} /\ IsFiniteSet({}) /\ Injective(<< >>)
  BY <1>1, FS_EmptySet DEF Injective
<1>3. Fits(jobs) /\ \A kinds : Of(jobs, kinds) = {}
  BY <1>2 DEF Fits, Of
<1>4. TrialsFit /\ TasksOnce
  BY <1>1, <1>2, <1>3 DEF TrialsFit, TasksOnce, Copying, BeforeEngine
<1>5. Undisturbed /\ Recorded
  BY <1>1 DEF Undisturbed, Recorded
<1> QED BY <1>4, <1>5 DEF VerdictInv

------------------------------------------------------------------------------
(* Every step keeps it. *)

\* Sums of numbers that only grow.
LEMMA SumsGrow ==
  ASSUME NEW a \in Nat, NEW b \in Nat, NEW c \in Nat, NEW d \in Nat, a <= c, b <= d
  PROVE  /\ a + b > 0 => c + d > 0
         /\ a > 0 \/ b > 0 \/ c > 0 \/ d > 0 => c + d > 0
OBVIOUS

\* One of two numbers is positive, and so is their sum.
LEMMA SumPositive ==
  ASSUME NEW c \in Nat, NEW d \in Nat, c > 0 \/ d > 0
  PROVE  c + d > 0
OBVIOUS

\* What a record says of results and plan stays true; faults only grow in number.
LEMMA EarnedKept ==
  ASSUME TrialsFit, Recorded, UNCHANGED <<record, jobs, plan, engine>>,
         record # None => UNCHANGED host, happened \subseteq happened',
         faults' \in Nat, edits' \in Nat, faults <= faults', edits <= edits'
  PROVE  Recorded'
<1> SUFFICES ASSUME record # None PROVE Recorded'
  BY DEF Recorded
<1>1. host.pc = "over" /\ engine.pc \in {"off", "gone"} /\ RecordEarned
  BY DEF Recorded
<1>2. faults + edits > 0 => faults' + edits' > 0
  <2>1. faults \in Nat /\ edits \in Nat
    BY DEF TrialsFit
  <2> QED BY <2>1, SumsGrow
<1>3. RecordEarned'
  BY <1>1, <1>2 DEF RecordEarned, Of
<1> QED BY <1>1, <1>3 DEF Recorded

\* Init, the user, the network and Docker.
LEMMA WorldKeepsVerdict ==
  ASSUME EvaluationInv, VerdictInv, UNCHANGED evalVars,
         \/ InitStep \/ KillInit \/ EditDataset \/ OlderWorkspace
         \/ NetworkFails \/ DockerFails \/ Recovers \/ UNCHANGED setupVars
  PROVE  VerdictInv'
<1>1. UNCHANGED <<host, plan, engine, pending, jobs, evidence, record, happened>>
  BY DEF evalVars
<1>2. /\ faults' \in Nat /\ edits' \in Nat /\ faults <= faults' /\ edits <= edits'
      /\ ~network' \/ ~docker' => faults' > 0
      /\ setup'.pc = "dead" => setup.pc = "dead" \/ faults' > 0
  <2>1. faults \in Nat /\ edits \in Nat /\ (~network \/ ~docker => faults > 0) /\ DOMAIN setup = {"pc", "staged"}
    BY DEF VerdictInv, TrialsFit, EvaluationInv, RecordsShape
  <2>2. CASE InitStep
    BY <2>1, <2>2 DEF InitStep, InitWorkspace, StageTarget, WriteFiles, CopyTarget, VendorMechanism,
                      InitGit, WriteGen0Archive
  <2>3. CASE KillInit \/ EditDataset \/ OlderWorkspace \/ NetworkFails \/ DockerFails \/ Recovers
    BY <2>1, <2>3 DEF KillInit, EditDataset, OlderWorkspace, NetworkFails, DockerFails, Recovers
  <2>4. CASE UNCHANGED setupVars
    BY <2>1, <2>4 DEF setupVars
  <2> QED BY <2>2, <2>3, <2>4
<1>3. Faultless' => Faultless /\ content' = content /\ ~KillInit /\ ~EditDataset
  <2>1. faults \in Nat /\ edits \in Nat
    BY DEF VerdictInv, TrialsFit
  <2>2. ~Faultless' \/ (faults' = 0 /\ edits' = 0 /\ faults = 0 /\ edits = 0)
    <3>1. faults' \in Nat /\ edits' \in Nat /\ faults <= faults' /\ edits <= edits'
          /\ faults \in Nat /\ edits \in Nat
      BY <1>2, <2>1
    <3>2. faults' + edits' = 0 => faults' = 0 /\ edits' = 0 /\ faults = 0 /\ edits = 0
      <4>1. faults > 0 \/ edits > 0 \/ faults' > 0 \/ edits' > 0 => faults' + edits' > 0
        BY <3>1, SumsGrow
      <4>2. faults' + edits' = 0 => ~(faults' + edits' > 0)
        OBVIOUS
      <4>3. ~(faults > 0) /\ ~(edits > 0) /\ ~(faults' > 0) /\ ~(edits' > 0) =>
              faults' = 0 /\ edits' = 0 /\ faults = 0 /\ edits = 0
        BY <3>1
      <4> QED BY <4>1, <4>2, <4>3
    <3> QED BY <3>2 DEF Faultless
  <2>3. CASE faults' = 0 /\ edits' = 0 /\ faults = 0 /\ edits = 0
    BY <2>3 DEF Faultless, InitStep, InitWorkspace, StageTarget, WriteFiles, CopyTarget,
                VendorMechanism, InitGit, WriteGen0Archive, KillInit, EditDataset, OlderWorkspace,
                NetworkFails, DockerFails, Recovers, setupVars
  <2> QED BY <2>2, <2>3
<1>4. TrialsFit'
  BY <1>1, <1>2 DEF VerdictInv, TrialsFit, Fits, Of
<1>5. TasksOnce'
  <2>1. tree'.manifest = tree.manifest \/ tree'.manifest = ManifestOf(content)
    BY DEF EvaluationInv, RecordsShape, InitStep, InitWorkspace, StageTarget, WriteFiles,
           CopyTarget, VendorMechanism, InitGit, WriteGen0Archive, KillInit, EditDataset, NewTree,
           OlderWorkspace, NetworkFails, DockerFails, Recovers, setupVars
  <2>2. \A s \in SplitNames : Injective(ManifestOf(content).tasks[s])
    BY SplitsOnce DEF ManifestOf
  <2> QED BY <1>1, <2>1, <2>2 DEF VerdictInv, TasksOnce
<1>6. Undisturbed'
  <2>1. setup'.pc = "dead" \/ host'.pc \in {"terminate", "terminated", "dead"} => faults' > 0
    <3>1. faults \in Nat /\ faults' \in Nat /\ faults <= faults'
      BY <1>2 DEF VerdictInv, TrialsFit
    <3> QED BY <1>1, <1>2, <3>1 DEF VerdictInv, Undisturbed
  <2>2. ASSUME Faultless'
        PROVE  setup'.pc \in {"target", "vendor", "git", "archive", "done"} =>
                 tree'.manifest = ManifestOf(content')
    <3>1. Faultless /\ content' = content /\ ~KillInit /\ ~EditDataset
      BY <1>3, <2>2
    <3>2. setup.pc \in {"target", "vendor", "git", "archive", "done"} => tree.manifest = ManifestOf(content)
      BY <3>1 DEF VerdictInv, Undisturbed
    <3>3. DOMAIN setup = {"pc", "staged"} /\ DOMAIN tree = DOMAIN NewTree
      BY DEF EvaluationInv, RecordsShape
    <3>4. \/ tree'.manifest = tree.manifest
             /\ (setup'.pc \in {"target", "vendor", "git", "archive", "done"} =>
                   setup.pc \in {"target", "vendor", "git", "archive", "done"})
          \/ tree'.manifest = ManifestOf(content)
      <4> USE <3>3 DEF NewTree
      <4>1. CASE InitWorkspace \/ StageTarget
        BY <4>1 DEF InitWorkspace, StageTarget
      <4>5. CASE WriteFiles
        <5>1. CASE Splittable(content)
          BY <4>5, <5>1 DEF WriteFiles
        <5>2. CASE ~Splittable(content)
          BY <4>5, <5>2 DEF WriteFiles
        <5> QED BY <5>1, <5>2
      <4>2. CASE CopyTarget \/ VendorMechanism
        BY <4>2 DEF CopyTarget, VendorMechanism
      <4>3. CASE InitGit \/ WriteGen0Archive
        BY <4>3 DEF InitGit, WriteGen0Archive
      <4>4. CASE OlderWorkspace \/ NetworkFails \/ DockerFails \/ Recovers \/ UNCHANGED setupVars
        BY <4>4 DEF OlderWorkspace, NetworkFails, DockerFails, Recovers, setupVars
      <4> QED BY <3>1, <4>1, <4>2, <4>3, <4>4, <4>5 DEF InitStep
    <3>5. ManifestOf(content') = ManifestOf(content)
      BY <3>1
    <3> QED BY <3>2, <3>4, <3>5
  <2>3. PlannedTasks' = PlannedTasks /\ Ended(jobs)' = Ended(jobs) /\ TaskVector(jobs)' = TaskVector(jobs)
        /\ Trials(plan)' = Trials(plan)
    BY <1>1 DEF PlannedTasks, Ended
  <2>4. ASSUME Faultless' PROVE Faultless /\ content' = content
    BY <1>3, <2>4
  <2> HIDE DEF Faultless
  <2> QED BY <1>1, <2>1, <2>2, <2>3, <2>4 DEF VerdictInv, Undisturbed
<1>7. Recorded'
  BY <1>1, <1>2, EarnedKept DEF VerdictInv
<1> QED BY <1>4, <1>5, <1>6, <1>7 DEF VerdictInv

\* The verdicts given without trials are earned by what they are given for.
LEMMA GivenVerdictEarned ==
  ASSUME \/ record' = Infrastructure /\ faults' + edits' > 0
         \/ /\ record' = Invalid
            /\ \/ host'.candidate.lock # "fresh" \/ ~host'.candidate.builds
               \/ happened' \cap {"no network", "no lock check"} # {}
         \/ record' = Cancelled /\ "interrupt" \in happened'
  PROVE  RecordEarned'
<1>1. CASE record' = Infrastructure /\ faults' + edits' > 0
  <2>1. record'.outcome = "infrastructure_failed"
    BY <1>1, GivenCauses
  <2> QED BY <1>1, <2>1 DEF RecordEarned
<1>2. CASE /\ record' = Invalid
           /\ \/ host'.candidate.lock # "fresh" \/ ~host'.candidate.builds
              \/ happened' \cap {"no network", "no lock check"} # {}
  <2>1. record'.outcome = "candidate_invalid"
    BY <1>2, GivenCauses
  <2> QED BY <1>2, <2>1 DEF RecordEarned
<1>3. CASE record' = Cancelled /\ "interrupt" \in happened'
  <2>1. record'.outcome = "cancelled"
    BY <1>3, GivenCauses
  <2> QED BY <1>3, <2>1 DEF RecordEarned
<1> QED BY <1>1, <1>2, <1>3

\* A move of the host's, with or without a record.
LEMMA HostMoveKeepsVerdict ==
  ASSUME EvaluationInv, VerdictInv, NEW pc, host' = [host EXCEPT !.pc = pc],
         UNCHANGED <<content, edits, network, docker, setup, tree, plan, engine, pending, jobs, evidence>>,
         faults' \in {faults, faults + 1}, happened \subseteq happened', record = None,
         pc \in BeforeEngine \ {"plan"} => host.pc \in BeforeEngine \ {"plan"},
         pc \in {"terminate", "terminated", "dead"} => faults' > 0,
         pc \in {"terminate", "terminated"} => "interrupt" \in happened',
         \/ record' = None
         \/ pc = "over" /\ engine.pc \in {"off", "gone"} /\ RecordEarned'
  PROVE  VerdictInv'
<1>1. host'.pc = pc /\ host'.candidate = host.candidate
  BY DEF EvaluationInv, RecordsShape
<1>2. faults \in Nat /\ edits \in Nat /\ faults' \in Nat /\ edits' \in Nat
      /\ (faults > 0 => faults' > 0)
  BY DEF VerdictInv, TrialsFit
<1>3. TrialsFit'
  BY <1>1, <1>2 DEF VerdictInv, TrialsFit, Fits, Of
<1>4. TasksOnce'
  BY <1>1 DEF VerdictInv, TasksOnce, Plannable
<1>5. Undisturbed'
  <2>1. Faultless' => Faultless
    <3>1. faults' = faults \/ faults' > 0
      BY <1>2
    <3>2. faults' > 0 => ~Faultless'
      BY <1>2 DEF Faultless
    <3> QED BY <3>1, <3>2 DEF Faultless
  <2>2. PlannedTasks' = PlannedTasks /\ Ended(jobs)' = Ended(jobs) /\ TaskVector(jobs)' = TaskVector(jobs)
        /\ Trials(plan)' = Trials(plan)
    BY DEF PlannedTasks, Ended
  <2>3. setup.pc = "dead" => faults' > 0
    BY <1>2 DEF VerdictInv, Undisturbed
  <2> QED BY <1>1, <2>1, <2>2, <2>3 DEF VerdictInv, Undisturbed
<1>6. Recorded'
  BY <1>1 DEF Recorded
<1> QED BY <1>3, <1>4, <1>5, <1>6 DEF VerdictInv

\* From the preflight to the runtime, and what ends the host.
LEMMA HostKeepsVerdict ==
  ASSUME EvaluationInv, VerdictInv,
         \/ Preflight \/ PreparePython \/ SyncDependencies \/ BuildProject
         \/ Terminated \/ RaiseError \/ Interrupt \/ KillHost
  PROVE  VerdictInv'
<1>1. faults \in Nat /\ edits \in Nat /\ (~network => faults > 0)
  BY DEF VerdictInv, TrialsFit
<1>2. /\ UNCHANGED <<content, edits, network, docker, setup, tree, plan, engine, pending, jobs, evidence>>
      /\ faults' \in {faults, faults + 1} /\ happened \subseteq happened'
  BY DEF Preflight, PreparePython, SyncDependencies, BuildProject, Terminated,
         RaiseError, Interrupt, KillHost, Files, World
<1>3. faults' \in Nat /\ edits' = edits /\ (faults > 0 => faults' > 0)
      /\ (faults' > 0 => faults' + edits' > 0)
  <2>1. faults' \in Nat /\ edits' = edits /\ edits' \in Nat /\ (faults > 0 => faults' > 0)
    BY <1>1, <1>2
  <2>2. faults' > 0 => faults' + edits' > 0
    BY <2>1, SumPositive
  <2> QED BY <2>1, <2>2
<1>4. record = None
  <2>1. host.pc # "over"
    BY DEF Preflight, PreparePython, SyncDependencies, BuildProject, Terminated, RaiseError,
           Interrupt, KillHost
  <2> QED BY <2>1 DEF VerdictInv, Recorded
<1>5. host.pc \in BeforeEngine => engine.pc = "off"
  BY DEF EvaluationInv, InSequence
<1> DEFINE moves(pc) ==
             /\ host' = [host EXCEPT !.pc = pc]
             /\ pc \in BeforeEngine \ {"plan"} => host.pc \in BeforeEngine \ {"plan"}
             /\ pc \in {"terminate", "terminated", "dead"} => faults' > 0
             /\ pc \in {"terminate", "terminated"} => "interrupt" \in happened'
           given ==
             \/ record' = Infrastructure /\ faults' > 0
             \/ /\ record' = Invalid
                /\ \/ host.candidate.lock # "fresh" \/ ~host.candidate.builds
                   \/ happened' \cap {"no network", "no lock check"} # {}
             \/ record' = Cancelled /\ "interrupt" \in happened'
<1>6. \E pc : /\ moves(pc)
              /\ \/ record' = record
                 \/ pc = "over" /\ engine.pc \in {"off", "gone"} /\ given
  <2>10. faults' = faults + 1 => faults' > 0
    BY <1>1
  <2> USE <1>3, <2>10 DEF Conclude, Goto, BeforeEngine
  <2>1. CASE Preflight
    <3>1. host.pc = "preflight" /\ engine.pc = "off"
      BY <1>5, <2>1 DEF Preflight
    <3>2. CASE host.candidate.lock = "fresh" /\ Goto("python") /\ UNCHANGED <<record, checkout, faults, happened>>
      BY <3>1, <3>2
    <3>3. CASE host.candidate.lock # "fresh" /\ Conclude(Invalid)
      BY <3>1, <3>3
    <3>4. CASE faults' = faults + 1 /\ Conclude(Infrastructure)
      BY <3>1, <3>4
    <3>5. CASE faults' = faults + 1 /\ Conclude(Invalid) /\ happened' = happened \cup {"no lock check"}
      BY <3>1, <3>5
    <3> QED BY <2>1, <3>2, <3>3, <3>4, <3>5 DEF Preflight
  <2>2. CASE PreparePython
    BY <1>1, <1>5, <2>2 DEF PreparePython, RuntimeFails
  <2>3. CASE SyncDependencies
    BY <1>1, <1>5, <2>3 DEF SyncDependencies, RuntimeFails
  <2>4. CASE BuildProject
    BY <1>5, <2>4 DEF BuildProject, RuntimeFails, RuntimeReady
  <2>5. CASE Terminated
    <3>1. "interrupt" \in happened'
      BY <2>5 DEF Terminated, VerdictInv, Undisturbed
    <3> QED BY <2>5, <3>1 DEF Terminated
  <2>6. CASE RaiseError
    <3>1. engine.pc = "off" /\ Conclude(Infrastructure) /\ faults' > 0
      BY <1>5, <2>6 DEF RaiseError
    <3> QED BY <3>1
  <2>7. CASE Interrupt
    <3>1. faults' > 0 /\ "interrupt" \in happened'
      BY <2>7 DEF Interrupt
    <3>2. CASE host.pc = "plan" /\ Goto("over") /\ UNCHANGED record
      BY <3>1, <3>2
    <3>3. CASE host.pc \in {"preflight", "python", "sync", "resync", "build", "ready"} /\ Conclude(Cancelled)
      BY <1>5, <3>1, <3>3
    <3>4. CASE host.pc = "wait" /\ Goto("terminate") /\ UNCHANGED record
      BY <3>1, <3>4
    <3> QED BY <2>7, <3>2, <3>3, <3>4 DEF Interrupt
  <2>8. CASE KillHost
    BY <2>8 DEF KillHost
  <2> QED BY <2>1, <2>2, <2>3, <2>4, <2>5, <2>6, <2>7, <2>8
<1> HIDE DEF given, moves
<1>7. PICK pc : /\ moves(pc)
                /\ \/ record' = record
                   \/ pc = "over" /\ engine.pc \in {"off", "gone"} /\ given
  BY <1>6
<1>8. host'.candidate = host.candidate
  BY <1>7 DEF moves, EvaluationInv, RecordsShape
<1>9. given => RecordEarned'
  BY <1>3, <1>8, GivenVerdictEarned DEF given
<1> QED BY <1>2, <1>4, <1>7, <1>9, HostMoveKeepsVerdict DEF moves

\* The start of an evaluation and its plan.
LEMMA PlanningKeepsVerdict ==
  ASSUME EvaluationInv, VerdictInv, Evaluate \/ PlanAttempt
  PROVE  VerdictInv'
<1>1. /\ host.pc \in {"idle", "plan"} /\ engine.pc = "off"
      /\ UNCHANGED <<content, edits, network, docker, faults, setup, tree, engine, pending, jobs,
                     evidence, record, happened>>
  BY DEF Evaluate, PlanAttempt, World, Files, EvaluationInv, InSequence, BeforeEngine
<1>2. record = None /\ record' = None /\ jobs = << >> /\ jobs' = << >> /\ evidence = {} /\ evidence' = {}
  BY <1>1 DEF VerdictInv, Recorded, TrialsFit
<1>3. TrialsFit'
  <2>1. Of(jobs, {"candidate"}) = {}
    BY <1>2 DEF Of
  <2> QED BY <1>1, <1>2, <2>1 DEF VerdictInv, TrialsFit, Fits, Of
<1>4. host'.pc \in {"over", "plan"} \/ (Plannable(plan') /\ host'.pc \in {"preflight", "python"})
  <2>1. CASE Evaluate
    BY <2>1 DEF Evaluate
  <2>2. CASE PlanAttempt
    <3>1. DOMAIN host = {"pc", "candidate", "purpose", "limit"}
          /\ host.purpose \in Purposes /\ host.limit \in {None} \cup Nat
      BY <2>2, EvaluationAssumption DEF PlanAttempt, EvaluationInv, RecordsShape, InSequence
    <3>2. EvaluationSplit(host.purpose) \in SplitNames
      BY DEF EvaluationSplit, SplitNames
    <3>3. ContractTasks \in Seq(Tasks) /\ Injective(ContractTasks)
      BY <3>1, <3>2, SelectedOnce DEF ContractTasks, VerdictInv, TasksOnce, EvaluationInv, ManifestSplits
    <3>4. \/ host'.pc = "over"
          \/ /\ ContractTasks # << >> /\ plan'.tasks = ContractTasks
             /\ host'.pc \in {"preflight", "python"}
      BY <2>2, <3>1 DEF PlanAttempt, Goto
    <3> QED BY <3>3, <3>4 DEF Plannable
  <2> QED BY <2>1, <2>2
<1>5. TasksOnce'
  BY <1>1, <1>4 DEF VerdictInv, TasksOnce, BeforeEngine
<1>6. Undisturbed'
  <2>1. setup'.pc = "dead" => faults' > 0
    BY <1>1 DEF VerdictInv, Undisturbed
  <2>2. Faultless' /\ setup'.pc \in {"target", "vendor", "git", "archive", "done"} =>
          tree'.manifest = ManifestOf(content')
    BY <1>1 DEF VerdictInv, Undisturbed, Faultless
  <2> QED BY <1>1, <1>4, <2>1, <2>2 DEF Undisturbed
<1>7. Recorded'
  BY <1>2 DEF Recorded
<1> QED BY <1>3, <1>5, <1>6, <1>7 DEF VerdictInv

\* The engine starts, or is ended by a signal.
LEMMA SignalsKeepVerdict ==
  ASSUME EvaluationInv, VerdictInv, LaunchEngine \/ Terminate \/ Escalate
  PROVE  VerdictInv'
<1>1. /\ UNCHANGED <<content, edits, network, docker, faults, setup, tree, plan, pending, jobs,
                     evidence, record>>
      /\ happened \subseteq happened'
  BY DEF LaunchEngine, Terminate, Escalate, World, Files
<1>2. host'.candidate = host.candidate /\ host'.pc \in {"wait", "terminated"}
      /\ host.pc \in {"ready", "terminate", "terminated"}
      /\ (host'.pc = "terminated" => host.pc \in {"terminate", "terminated"})
  BY DEF LaunchEngine, Terminate, Escalate, Goto, EvaluationInv, RecordsShape
<1>3. record = None /\ record' = None
  BY <1>1, <1>2 DEF VerdictInv, Recorded
<1>4. faults > 0 \/ (engine.pc = "off" /\ engine'.pc = "select")
  BY DEF LaunchEngine, Terminate, Escalate, EvaluationInv, InSequence, BeforeEngine, VerdictInv, Undisturbed
<1>5. \/ engine.pc = "off" /\ engine'.pc = "select" /\ host.pc = "ready"
      \/ engine.pc # "off" /\ engine'.pc \in {engine.pc, "gone"}
      \/ engine.pc \in {"harbor", "parse"} /\ engine'.pc = "cleanup"
  <2>1. CASE LaunchEngine
    BY <2>1 DEF LaunchEngine, EvaluationInv, InSequence, BeforeEngine
  <2>2. CASE Terminate
    <3>1. CASE engine.pc \in {"harbor", "parse"}
      BY <2>2, <3>1 DEF Terminate
    <3>2. CASE engine.pc \in {"select", "copy", "prepare", "cleanup", "unsnap"}
      BY <2>2, <3>2 DEF Terminate
    <3>3. CASE engine.pc \notin {"harbor", "parse", "select", "copy", "prepare", "cleanup", "unsnap"}
      BY <2>2, <3>3 DEF Terminate, EvaluationInv, InSequence
    <3> QED BY <3>1, <3>2, <3>3
  <2>3. CASE Escalate
    BY <2>3 DEF Escalate, EvaluationInv, InSequence
  <2> QED BY <2>1, <2>2, <2>3
<1>6. TrialsFit'
  BY <1>1, <1>2, <1>5 DEF VerdictInv, TrialsFit, Fits, Of, Copying
<1>7. TasksOnce'
  BY <1>1, <1>2, <1>5 DEF VerdictInv, TasksOnce, Plannable, BeforeEngine
<1>8. Undisturbed'
  <2>1. setup'.pc = "dead" => faults' > 0
    BY <1>1 DEF VerdictInv, Undisturbed
  <2>2. host'.pc = "terminated" => faults' > 0 /\ "interrupt" \in happened'
    BY <1>1, <1>2 DEF VerdictInv, Undisturbed
  <2>3. Faultless' => Faultless /\ engine'.pc = "select"
    <3>1. faults > 0 => ~Faultless
      BY SumPositive DEF VerdictInv, TrialsFit, Faultless
    <3> QED BY <1>1, <1>4, <3>1 DEF Faultless
  <2>4. Faultless' /\ setup'.pc \in {"target", "vendor", "git", "archive", "done"} =>
          tree'.manifest = ManifestOf(content')
    BY <1>1, <2>3 DEF VerdictInv, Undisturbed
  <2> QED BY <1>2, <2>1, <2>2, <2>3, <2>4 DEF Undisturbed
<1>9. Recorded'
  BY <1>3 DEF Recorded
<1> QED BY <1>6, <1>7, <1>8, <1>9 DEF VerdictInv

\* While nobody edits, the planned tasks are in the dataset as the manifest has them.
LEMMA PlannedAreThere ==
  ASSUME EvaluationInv, VerdictInv, Faultless, engine.pc # "off"
  PROVE  /\ DOMAIN TaskDigests(content) = DOMAIN tree.manifest.digests
         /\ \A t \in PlannedTasks : content[t] # None /\ tree.manifest.digests[t] = content[t]
<1>1. host.pc # "idle" /\ host.limit \in {None} \cup Nat
  BY EvaluationAssumption DEF EvaluationInv, InSequence
<1>2. faults = 0
  BY SumPositive DEF VerdictInv, TrialsFit, Faultless
<1>3. setup.pc = "done"
  BY <1>1, <1>2 DEF EvaluationInv, InSequence, VerdictInv, Undisturbed
<1>4. tree.manifest = ManifestOf(content)
  BY <1>3 DEF VerdictInv, Undisturbed
<1> DEFINE split == EvaluationSplit(host.purpose)
           names == DOMAIN TaskDigests(content)
<1>5. tree.manifest.digests = TaskDigests(content) /\ tree.manifest.tasks = Assign(names)
  BY <1>4 DEF ManifestOf
<1>6. split \in SplitNames
  BY DEF EvaluationSplit, SplitNames
<1>7. plan.tasks = Selected(tree.manifest, split, host.limit) /\ PlannedTasks = Members(plan.tasks)
  BY DEF EvaluationInv, PlanPinned, ContractTasks, PlannedTasks, Members
<1> HIDE DEF split
<1>8. tree.manifest.tasks[split] \in Seq(Tasks) /\ Members(tree.manifest.tasks[split]) \subseteq names
  BY <1>5, <1>6, SplitsOnce
<1>9. PlannedTasks \subseteq names
  BY <1>1, <1>7, <1>8, SelectedFacts
<1>10. \A t \in names : content[t] # None /\ TaskDigests(content)[t] = content[t]
  BY DEF TaskDigests
<1> QED BY <1>5, <1>9, <1>10

\* A move of the engine's: what must hold of its files when it has moved.
LEMMA EngineMoveKeepsVerdict ==
  ASSUME EvaluationInv, VerdictInv,
         UNCHANGED <<content, edits, network, docker, setup, tree, host, plan, record>>,
         faults' \in {faults, faults + 1}, engine.pc \notin {"off", "gone"}, engine'.pc # "off",
         happened \subseteq happened', Fits(jobs'),
         engine'.pc \in {"harbor", "parse"} => DOMAIN jobs' = Trials(plan),
         engine'.pc \in {"harbor", "parse"} \cup Copying => evidence' = {},
         evidence' # {} => evidence' = TaskVector(jobs') /\ DOMAIN jobs' = Trials(plan),
         Of(jobs', {"exception", "dependency", "network_timeout"}) # {} => faults > 0,
         Of(jobs', {"candidate"}) # {} => host.candidate.crashes,
         Faultless' =>
           /\ engine'.pc = "copy" =>
                DOMAIN pending' \subseteq PlannedTasks /\ pending' = [t \in DOMAIN pending' |-> content[t]]
           /\ engine'.pc \in {"parse", "cleanup", "unsnap", "gone"} => Ended(jobs') = DOMAIN jobs'
           /\ engine'.pc \in {"cleanup", "unsnap", "gone"} =>
                evidence' = TaskVector(jobs') /\ DOMAIN jobs' = Trials(plan)
  PROVE  VerdictInv'
<1>1. faults \in Nat /\ edits \in Nat /\ faults' \in Nat /\ edits' \in Nat
      /\ (faults > 0 => faults' > 0)
  BY DEF VerdictInv, TrialsFit
<1>2. TrialsFit'
  <2>1. Trials(plan)' = Trials(plan)
    OBVIOUS
  <2> QED BY <1>1, <2>1 DEF VerdictInv, TrialsFit, Fits, Of
<1>3. TasksOnce'
  BY DEF VerdictInv, TasksOnce, Plannable
<1>4. Undisturbed'
  <2>1. Faultless' => Faultless
    <3>1. faults' = faults \/ faults' > 0
      BY <1>1
    <3>2. faults' > 0 => ~Faultless'
      BY <1>1, SumPositive DEF Faultless
    <3> QED BY <3>1, <3>2 DEF Faultless
  <2>2. PlannedTasks' = PlannedTasks
    BY DEF PlannedTasks
  <2>3. setup'.pc = "dead" \/ host'.pc \in {"terminate", "terminated", "dead"} => faults' > 0
    BY <1>1 DEF VerdictInv, Undisturbed
  <2> QED BY <2>1, <2>2, <2>3 DEF VerdictInv, Undisturbed
<1>5. Recorded'
  BY DEF VerdictInv, Recorded
<1> QED BY <1>2, <1>3, <1>4, <1>5 DEF VerdictInv

\* The verified copy: undisturbed, it is complete and is what was pinned.
LEMMA CopyKeepsVerdict ==
  ASSUME EvaluationInv, VerdictInv, SelectTasks \/ CopyTask \/ CheckCopy
  PROVE  VerdictInv'
<1>1. /\ UNCHANGED <<content, edits, network, docker, setup, tree, host, plan, record, faults, happened,
                     jobs, evidence>>
      /\ engine.pc \in {"select", "copy"}
  BY DEF SelectTasks, CopyTask, CheckCopy, World
<1>2. /\ evidence = {} /\ Fits(jobs')
      /\ (Of(jobs', {"exception", "dependency", "network_timeout"}) # {} => faults > 0)
      /\ (Of(jobs', {"candidate"}) # {} => host.candidate.crashes)
  <2>1. jobs' = jobs /\ evidence = {}
    BY <1>1 DEF VerdictInv, TrialsFit, Copying
  <2> QED BY <2>1 DEF VerdictInv, TrialsFit
<1>3. engine'.pc \in {"copy", "prepare", "unsnap"}
  BY DEF SelectTasks, CopyTask, CheckCopy, Move, Fail, EvaluationInv, RecordsShape
<1>4. ASSUME Faultless'
      PROVE  /\ engine'.pc \in {"copy", "prepare"}
             /\ engine'.pc = "copy" =>
                  DOMAIN pending' \subseteq PlannedTasks /\ pending' = [t \in DOMAIN pending' |-> content[t]]
  <2>1. Faultless
    BY <1>1, <1>4 DEF Faultless
  <2>2. /\ DOMAIN TaskDigests(content) = DOMAIN tree.manifest.digests
        /\ \A t \in PlannedTasks : content[t] # None /\ tree.manifest.digests[t] = content[t]
    BY <1>1, <2>1, PlannedAreThere
  <2>3. engine.pc = "copy" =>
          DOMAIN pending \subseteq PlannedTasks /\ pending = [t \in DOMAIN pending |-> content[t]]
    BY <2>1 DEF VerdictInv, Undisturbed
  <2>4. DOMAIN engine = {"pc", "rc"}
    BY DEF EvaluationInv, RecordsShape
  <2>5. CASE SelectTasks
    <3>1. Move("copy") /\ pending' = << >>
      BY <2>2, <2>5 DEF SelectTasks
    <3>2. DOMAIN << >> = {} /\ << >> = [t \in {} |-> content[t]]
      OBVIOUS
    <3> QED BY <2>4, <3>1, <3>2 DEF Move
  <2>6. CASE CopyTask
    <3>1. PICK t \in PlannedTasks \ DOMAIN pending :
            IF content[t] = None THEN Fail("unsnap") /\ pending' = None
            ELSE pending' = [x \in DOMAIN pending \cup {t} |-> IF x = t THEN content[t] ELSE pending[x]]
                 /\ UNCHANGED engine
      <4>1. PlannedTasks \ DOMAIN pending # {}
        BY <2>3, <2>6 DEF CopyTask
      <4> DEFINE t == CHOOSE t \in PlannedTasks \ DOMAIN pending : TRUE
      <4>2. t \in PlannedTasks \ DOMAIN pending
        BY <4>1
      <4> QED BY <2>6, <4>2 DEF CopyTask
    <3>2. pending' = [x \in DOMAIN pending \cup {t} |-> IF x = t THEN content[t] ELSE pending[x]]
          /\ UNCHANGED engine
      BY <2>2, <3>1
    <3>3. DOMAIN pending \subseteq PlannedTasks /\ pending = [x \in DOMAIN pending |-> content[x]]
          /\ engine.pc = "copy"
      BY <2>3, <2>6 DEF CopyTask
    <3>4. \A x \in DOMAIN pending : pending[x] = content[x]
      BY <3>3
    <3>5. DOMAIN pending' = DOMAIN pending \cup {t}
      BY <3>2
    <3>6. pending' = [x \in DOMAIN pending \cup {t} |-> content[x]]
      BY <3>2, <3>4
    <3> QED BY <3>1, <3>2, <3>3, <3>5, <3>6
  <2>7. CASE CheckCopy
    <3>1. DOMAIN pending = PlannedTasks /\ pending = [t \in DOMAIN pending |-> content[t]]
      BY <2>3, <2>7 DEF CheckCopy
    <3>2. \A t \in PlannedTasks : content[t] = tree.manifest.digests[t]
      BY <2>2
    <3>3. pending = Expected
      BY <3>1, <3>2 DEF Expected
    <3>4. Move("prepare")
      BY <2>7, <3>3 DEF CheckCopy
    <3> QED BY <2>4, <3>4 DEF Move
  <2> QED BY <2>5, <2>6, <2>7
<1> QED BY <1>1, <1>2, <1>3, <1>4, EngineMoveKeepsVerdict

\* The trials: each result is one the candidate, the network and Docker allow.
LEMMA TrialsKeepVerdict ==
  ASSUME EvaluationInv, VerdictInv, PrepareJobs \/ StartTrial \/ EndTrial \/ EndHarbor
  PROVE  VerdictInv'
<1>1. /\ UNCHANGED <<content, edits, network, docker, setup, tree, host, plan, record, happened, evidence>>
      /\ faults' \in {faults, faults + 1} /\ engine.pc \in {"prepare", "harbor"}
  <2>1. CASE PrepareJobs
    BY <2>1 DEF PrepareJobs
  <2>2. CASE StartTrial
    BY <2>2 DEF StartTrial, World
  <2>3. CASE EndTrial
    BY <2>3 DEF EndTrial, World
  <2>4. CASE EndHarbor
    <3>1. faults' = faults \/ faults' = faults + 1
      BY <2>4 DEF EndHarbor
    <3>2. /\ UNCHANGED <<content, edits, network, docker, setup, tree, host, plan, record, happened, evidence>>
          /\ engine.pc = "harbor"
      BY <2>4 DEF EndHarbor, Files
    <3> QED BY <3>1, <3>2
  <2> QED BY <2>1, <2>2, <2>3, <2>4
<1>2. /\ evidence = {} /\ DOMAIN engine = {"pc", "rc"} /\ Fits(jobs) /\ (~network \/ ~docker => faults > 0)
      /\ (Of(jobs, {"exception", "dependency", "network_timeout"}) # {} => faults > 0)
      /\ (Of(jobs, {"candidate"}) # {} => host.candidate.crashes)
      /\ Plannable(plan)
  BY <1>1 DEF VerdictInv, TrialsFit, TasksOnce, EvaluationInv, RecordsShape, Copying
<1>3. faults \in Nat /\ edits' \in Nat /\ (faults' = faults + 1 => ~Faultless')
  <2>1. faults \in Nat /\ edits \in Nat /\ edits' = edits
    BY <1>1 DEF VerdictInv, TrialsFit
  <2>2. faults' = faults + 1 => faults' \in Nat /\ faults' > 0
    BY <2>1
  <2>3. faults' = faults + 1 => faults' + edits' > 0
    BY <2>1, <2>2, SumPositive
  <2>4. faults' + edits' > 0 => ~(faults' + edits' = 0)
    OBVIOUS
  <2> QED BY <2>1, <2>3, <2>4 DEF Faultless
<1>4. CASE PrepareJobs
  <2>1. CASE Move("harbor") /\ jobs' = [x \in Trials(plan) |-> None] /\ UNCHANGED faults
    <3>1. engine'.pc = "harbor" /\ DOMAIN jobs' = Trials(plan) /\ \A x \in DOMAIN jobs' : jobs'[x] = None
      BY <1>2, <2>1 DEF Move
    <3>2. Trials(plan) \subseteq Tasks \X (0..Repetitions - 1) /\ IsFiniteSet(Trials(plan))
      BY <1>2, PlannedTrials
    <3>3. Fits(jobs')
      BY <3>1, <3>2 DEF Fits
    <3>4. None \notin TrialKinds
      BY NoneAssumption
    <3>5. Of(jobs', {"candidate"}) = {} /\ Of(jobs', {"exception", "dependency", "network_timeout"}) = {}
      BY <3>1, <3>4 DEF Of, TrialKinds
    <3> QED BY <1>1, <1>2, <3>1, <3>3, <3>5, EngineMoveKeepsVerdict
  <2>2. CASE faults' = faults + 1 /\ Fail("unsnap") /\ UNCHANGED jobs
    <3>1. engine'.pc = "unsnap" /\ ~Faultless' /\ jobs' = jobs
      BY <1>3, <2>2 DEF Fail
    <3> QED BY <1>1, <1>2, <3>1, EngineMoveKeepsVerdict DEF Copying
  <2> QED BY <1>4, <2>1, <2>2 DEF PrepareJobs
<1>5. ASSUME engine.pc = "harbor", engine' = engine, faults' = faults,
             NEW x \in DOMAIN jobs, NEW kind \in TrialKinds, jobs' = [jobs EXCEPT ![x] = kind],
             kind \in {"exception", "dependency", "network_timeout"} => faults > 0,
             kind = "candidate" => host.candidate.crashes
      PROVE  VerdictInv'
  <2>1. DOMAIN jobs' = DOMAIN jobs /\ DOMAIN jobs = Trials(plan)
    BY <1>5 DEF VerdictInv, TrialsFit
  <2>2. \A y \in DOMAIN jobs : jobs'[y] = IF y = x THEN kind ELSE jobs[y]
    BY <1>5
  <2>3. Fits(jobs')
    BY <1>2, <2>1, <2>2 DEF Fits
  <2>4. \A kinds : Of(jobs', kinds) # {} => kind \in kinds \/ Of(jobs, kinds) # {}
    BY <2>1, <2>2 DEF Of
  <2>5. /\ Of(jobs', {"exception", "dependency", "network_timeout"}) # {} => faults > 0
        /\ Of(jobs', {"candidate"}) # {} => host.candidate.crashes
    BY <1>2, <1>5, <2>4
  <2> QED BY <1>1, <1>2, <1>5, <2>1, <2>3, <2>5, EngineMoveKeepsVerdict
<1>6. CASE StartTrial
  <2>1. engine.pc = "harbor" /\ engine' = engine /\ faults' = faults
    BY <1>6 DEF StartTrial, World
  <2>2. PICK x \in DOMAIN jobs : IF docker THEN UNCHANGED jobs ELSE jobs' = [jobs EXCEPT ![x] = "exception"]
    BY <1>6 DEF StartTrial
  <2>3. CASE jobs' = jobs
    <3>1. DOMAIN jobs' = Trials(plan)
      BY <2>1, <2>3 DEF VerdictInv, TrialsFit
    <3> QED BY <1>1, <1>2, <2>1, <2>3, <3>1, EngineMoveKeepsVerdict
  <2>4. CASE ~docker /\ jobs' = [jobs EXCEPT ![x] = "exception"]
    <3>1. faults > 0 /\ "exception" \in TrialKinds
      BY <1>2, <2>4 DEF TrialKinds
    <3> QED BY <1>5, <2>1, <2>4, <3>1
  <2> QED BY <2>2, <2>3, <2>4
<1>7. CASE EndTrial
  <2>1. engine.pc = "harbor" /\ engine' = engine /\ faults' = faults
    BY <1>7 DEF EndTrial, World
  <2>2. PICK x \in containers, kind \in Kinds : Possible(kind) /\ jobs' = [jobs EXCEPT ![x] = kind]
    BY <1>7 DEF EndTrial
  <2>3. kind \in TrialKinds
    BY EvaluationAssumption
  <2>4. CASE x \in DOMAIN jobs
    <3>1. /\ kind \in {"exception", "dependency", "network_timeout"} => faults > 0
          /\ kind = "candidate" => host.candidate.crashes
      BY <1>2, <2>2 DEF Possible
    <3> QED BY <1>5, <2>1, <2>2, <2>3, <2>4, <3>1
  <2>5. CASE x \notin DOMAIN jobs
    <3>1. jobs' = [y \in DOMAIN jobs |-> jobs[y]]
      BY <2>2, <2>5
    <3>2. DOMAIN jobs' = DOMAIN jobs /\ \A y \in DOMAIN jobs : jobs'[y] = jobs[y]
      BY <3>1
    <3>3. Fits(jobs') /\ DOMAIN jobs' = Trials(plan)
      BY <1>2, <2>1, <3>2 DEF Fits, VerdictInv, TrialsFit
    <3>4. \A kinds : Of(jobs', kinds) = Of(jobs, kinds)
      BY <3>2 DEF Of
    <3> QED BY <1>1, <1>2, <2>1, <3>3, <3>4, EngineMoveKeepsVerdict
  <2> QED BY <2>4, <2>5
<1>8. CASE EndHarbor
  <2>1. engine.pc = "harbor" /\ engine'.pc = "parse" /\ jobs' = jobs
    BY <1>2, <1>8 DEF EndHarbor, Move, Files
  <2>2. DOMAIN jobs' = Trials(plan)
    BY <2>1 DEF VerdictInv, TrialsFit
  <2>3. (\A x \in DOMAIN jobs : jobs[x] # None) \/ faults' = faults + 1
    BY <1>8 DEF EndHarbor
  <2>4. Faultless' => Ended(jobs') = DOMAIN jobs'
    BY <1>3, <2>1, <2>3 DEF Ended
  <2> QED BY <1>1, <1>2, <2>1, <2>2, <2>4, EngineMoveKeepsVerdict
<1> QED BY <1>4, <1>6, <1>7, <1>8

\* The vector and the cleanup.
LEMMA ParsingKeepsVerdict ==
  ASSUME EvaluationInv, VerdictInv, ParseScore \/ Cleanup \/ RemoveSnapshot
  PROVE  VerdictInv'
<1>1. /\ UNCHANGED <<content, edits, network, docker, setup, tree, host, plan, record, jobs, faults>>
      /\ happened \subseteq happened'
      /\ engine.pc \in {"parse", "cleanup", "unsnap"} /\ engine'.pc \in {"cleanup", "unsnap", "gone"}
      /\ \/ engine.pc = "parse" /\ evidence' = TaskVector(jobs)
         \/ engine.pc # "parse" /\ evidence' = evidence
  <2>1. DOMAIN engine = {"pc", "rc"}
    BY DEF EvaluationInv, RecordsShape
  <2>2. CASE ParseScore
    BY <2>2 DEF ParseScore, World
  <2>3. CASE Cleanup
    BY <2>1, <2>3 DEF Cleanup, World, Move
  <2>4. CASE RemoveSnapshot
    BY <2>1, <2>4 DEF RemoveSnapshot, World, Move
  <2> QED BY <2>2, <2>3, <2>4
<1>2. /\ Fits(jobs)
      /\ (Of(jobs, {"exception", "dependency", "network_timeout"}) # {} => faults > 0)
      /\ (Of(jobs, {"candidate"}) # {} => host.candidate.crashes)
      /\ (engine.pc = "parse" => DOMAIN jobs = Trials(plan))
      /\ (evidence # {} => evidence = TaskVector(jobs) /\ DOMAIN jobs = Trials(plan))
  BY DEF VerdictInv, TrialsFit
<1>3. Faultless' => /\ Ended(jobs) = DOMAIN jobs
                    /\ evidence' = TaskVector(jobs) /\ DOMAIN jobs = Trials(plan)
  <2> SUFFICES ASSUME Faultless'
               PROVE  /\ Ended(jobs) = DOMAIN jobs
                      /\ evidence' = TaskVector(jobs) /\ DOMAIN jobs = Trials(plan)
    OBVIOUS
  <2>1. Faultless
    BY <1>1 DEF Faultless
  <2> QED BY <1>1, <1>2, <2>1 DEF VerdictInv, Undisturbed
<1> QED BY <1>1, <1>2, <1>3, EngineMoveKeepsVerdict DEF Copying

\* What the host judges when the engine is gone: the vector, if it was written and
\* read, and what the contract fills in.
LEMMA WhatIsJudged ==
  ASSUME VerdictInv
  PROVE  Judged(jobs, plan, ContractTrials(plan, ReadTrials))
<1>1. evidence = {} \/ (evidence = TaskVector(jobs) /\ DOMAIN jobs = Trials(plan))
  BY DEF VerdictInv, TrialsFit
<1>2. ReadTrials = {} \/ (ReadTrials = TaskVector(jobs) /\ DOMAIN jobs = Trials(plan))
  BY <1>1 DEF ReadTrials
<1>3. PICK filled : (\A v \in filled : Missing(v)) /\ ContractTrials(plan, ReadTrials) = ReadTrials \cup filled
  <2> DEFINE row(x) == [id |-> x, result |-> [status |-> "missing", reward |-> None,
                                              owner |-> "evaluator", raised |-> FALSE]]
             fill == {row(x) : x \in Trials(plan) \ {v.id : v \in ReadTrials}}
  <2>1. \A v \in fill : Missing(v)
    <3> TAKE v \in fill
    <3>1. PICK x : v = row(x)
      OBVIOUS
    <3> QED BY <3>1 DEF Missing
  <2>2. CASE plan.strict
    <3>1. ContractTrials(plan, ReadTrials) = ReadTrials \cup fill
      BY <2>2 DEF ContractTrials, Materialized
    <3> HIDE DEF fill
    <3> QED BY <2>1, <3>1
  <2>3. CASE ~plan.strict
    <3>1. ContractTrials(plan, ReadTrials) = ReadTrials \cup {}
      BY <2>3 DEF ContractTrials
    <3>2. \A v \in {} : Missing(v)
      OBVIOUS
    <3> QED BY <3>1, <3>2
  <2> QED BY <2>2, <2>3
<1>4. CASE ReadTrials = {}
  BY <1>3, <1>4 DEF Judged
<1>5. CASE ReadTrials = TaskVector(jobs) /\ DOMAIN jobs = Trials(plan)
  BY <1>3, <1>5 DEF Judged
<1> QED BY <1>2, <1>4, <1>5

\* Undisturbed, every planned trial has its row, and nothing is filled in.
LEMMA AllIsThere ==
  ASSUME VerdictInv, Faultless, engine.pc = "gone"
  PROVE  /\ WellFormed(evidence)
         /\ ContractTrials(plan, ReadTrials) = TaskVector(jobs)
         /\ DOMAIN jobs = Trials(plan) /\ Ended(jobs) = DOMAIN jobs
         /\ Cardinality(TaskVector(jobs)) = Cardinality(Trials(plan))
<1>1. /\ evidence = TaskVector(jobs) /\ DOMAIN jobs = Trials(plan) /\ Ended(jobs) = DOMAIN jobs
      /\ Fits(jobs) /\ Plannable(plan)
  BY DEF VerdictInv, Undisturbed, TrialsFit, TasksOnce
<1>2. WellFormed(evidence) /\ ReadTrials = TaskVector(jobs)
  BY <1>1, VectorWellFormed DEF ReadTrials
<1>3. Trials(plan) = Members(plan.tasks) \X (0..Repetitions - 1)
  BY <1>1, PlannedTrials
<1>4. TaskVector(jobs) = {TrialRow(jobs, x) : x \in Ended(jobs)}
  BY VectorRows
<1>5. \A x \in Trials(plan) : TrialRow(jobs, x).id = x
  BY <1>1, <1>3, IdsAsPlanned
<1>6. Trials(plan) \ {v.id : v \in TaskVector(jobs)} = {}
  <2>1. \A x \in Trials(plan) : \E v \in TaskVector(jobs) : v.id = x
    BY <1>1, <1>4, <1>5
  <2> QED BY <2>1
<1>7. Materialized(plan, TaskVector(jobs)) = TaskVector(jobs)
  BY <1>6 DEF Materialized
<1>8. Cardinality({TrialRow(jobs, x) : x \in Ended(jobs)}) = Cardinality(Ended(jobs))
  BY <1>1, RowsCount
<1> QED BY <1>1, <1>2, <1>4, <1>7, <1>8 DEF ContractTrials

\* The verdict on the evidence.
LEMMA CollectKeepsVerdict ==
  ASSUME EvaluationInv, VerdictInv, CollectEvidence
  PROVE  VerdictInv'
<1> DEFINE trials == ContractTrials(plan, ReadTrials)
           owned == \E v \in trials : v.result.owner = "candidate"
           unread == ~WellFormed(evidence)
           failed == /\ engine.rc \notin {0, 2} /\ ~owned
                     /\ Cardinality(trials) # Cardinality(Trials(plan))
           cause == IF unread \/ failed THEN "infrastructure_failed" ELSE None
           c == Classify(plan, trials, cause)
<1>1. /\ host.pc = "wait" /\ engine.pc = "gone" /\ record' = c
      /\ host' = [host EXCEPT !.pc = "over"]
      /\ UNCHANGED <<content, edits, network, docker, faults, setup, tree, plan, engine, pending,
                     jobs, evidence, happened>>
  BY DEF CollectEvidence, Conclude, Goto, World, Files
<1>2. cause # "candidate_invalid"
  BY NoneAssumption
<1>3. /\ Fits(jobs) /\ Plannable(plan) /\ host'.candidate = host.candidate
      /\ (Of(jobs, {"candidate"}) # {} => host.candidate.crashes) /\ record = None
  BY <1>1 DEF VerdictInv, TrialsFit, TasksOnce, Recorded, EvaluationInv, RecordsShape
<1>4. Judged(jobs, plan, trials)
  BY WhatIsJudged
<1>5. /\ c.outcome \in {"complete", "candidate_invalid", "infrastructure_failed", "timeout"}
      /\ c.outcome = "complete" =>
           /\ DOMAIN jobs = Trials(plan) /\ Of(jobs, {"candidate"}) = {}
           /\ c.total = Cardinality(Of(jobs, {"pass"}))
           /\ Cardinality(Of(jobs, {"pass"} \cup Zeros)) * 100
                >= PartialFloor * Len(plan.tasks) * Repetitions
      /\ c.outcome = "candidate_invalid" => Of(jobs, {"candidate"}) # {}
      /\ c.outcome = "timeout" => Of(jobs, {"agent_timeout", "verifier_timeout"}) # {}
  <2> HIDE DEF trials, cause
  <2> QED BY <1>2, <1>3, <1>4, VerdictOfTrials DEF c
<1>6. c.outcome = "infrastructure_failed" =>
        faults + edits > 0 \/ Of(jobs, {"no_reward", "verifier_timeout"}) # {}
  <2> SUFFICES ASSUME c.outcome = "infrastructure_failed", ~(faults + edits > 0)
               PROVE  Of(jobs, {"no_reward", "verifier_timeout"}) # {}
    OBVIOUS
  <2>1. Faultless /\ faults = 0
    BY SumPositive DEF Faultless, VerdictInv, TrialsFit
  <2>2. /\ WellFormed(evidence) /\ trials = TaskVector(jobs)
        /\ DOMAIN jobs = Trials(plan) /\ Ended(jobs) = DOMAIN jobs
        /\ Cardinality(TaskVector(jobs)) = Cardinality(Trials(plan))
    BY <1>1, <2>1, AllIsThere
  <2>3. cause = None
    BY <2>2
  <2>4. Classify(plan, TaskVector(jobs), None).outcome = "infrastructure_failed"
    BY <2>2, <2>3
  <2>5. Of(jobs, Unmeasured) # {}
    BY <1>3, <2>2, <2>4, AllEndedVerdict
  <2>6. Of(jobs, {"exception", "dependency", "network_timeout"}) = {}
    BY <2>1 DEF VerdictInv, TrialsFit
  <2> QED BY <2>5, <2>6 DEF Of, Unmeasured
<1>7. RecordEarned'
  <2>1. record'.outcome = c.outcome /\ record'.total = c.total
    BY <1>1
  <2> HIDE DEF c
  <2>2. \A kinds : Of(jobs, kinds)' = Of(jobs, kinds)
    BY <1>1 DEF Of
  <2>3. Trials(plan)' = Trials(plan) /\ plan' = plan /\ jobs' = jobs
        /\ faults' = faults /\ edits' = edits
    BY <1>1
  <2> QED BY <1>3, <1>5, <1>6, <2>1, <2>3 DEF RecordEarned, Of
<1> HIDE DEF c
<1> QED BY <1>1, <1>3, <1>7, HostMoveKeepsVerdict DEF BeforeEngine

\* The invariant is inductive.
LEMMA NextVerdictInv == EvaluationInv /\ VerdictInv /\ [Next]_vars => VerdictInv'
<1> SUFFICES ASSUME EvaluationInv, VerdictInv, [Next]_vars PROVE VerdictInv'
  OBVIOUS
<1>1. CASE UNCHANGED vars
  BY <1>1, WorldKeepsVerdict DEF vars
<1>2. CASE (InitStep \/ KillInit \/ EditDataset) /\ UNCHANGED evalVars
  BY <1>2, WorldKeepsVerdict
<1>3. CASE NetworkFails \/ DockerFails \/ Recovers \/ OlderWorkspace
  <2>1. UNCHANGED evalVars
    BY <1>3 DEF NetworkFails, DockerFails, Recovers, OlderWorkspace
  <2> QED BY <1>3, <2>1, WorldKeepsVerdict
<1>4. CASE HostStep
  <2>1. CASE Evaluate \/ PlanAttempt \/ LaunchEngine
    BY <2>1, PlanningKeepsVerdict, SignalsKeepVerdict
  <2>2. CASE Preflight \/ PreparePython \/ SyncDependencies \/ BuildProject \/ Terminated
    BY <2>2, HostKeepsVerdict
  <2>3. CASE CollectEvidence
    BY <2>3, CollectKeepsVerdict
  <2> QED BY <1>4, <2>1, <2>2, <2>3 DEF HostStep
<1>5. CASE EngineStep
  BY <1>5, CopyKeepsVerdict, TrialsKeepVerdict, ParsingKeepsVerdict DEF EngineStep
<1>6. CASE RaiseError \/ Interrupt \/ KillHost \/ Terminate \/ Escalate
  BY <1>6, HostKeepsVerdict, SignalsKeepVerdict
<1> QED BY <1>1, <1>2, <1>3, <1>4, <1>5, <1>6 DEF Next

\* A verdict follows from what happened to the planned trials: a score counts the
\* passes over the whole plan, the candidate is blamed for a defect of its own (or a
\* build or a lock check that the network or the tools failed), the infrastructure
\* for a fault or a trial nothing measured, and the host reads every vector the
\* engine's parser writes (results.py, classify_evaluation; execution.py, evaluate).
THEOREM VerdictsEarned == Spec => []VerdictIsEarned
<1>1. EvaluationInv /\ VerdictInv => VerdictIsEarned
  <2> SUFFICES ASSUME VerdictInv PROVE VerdictIsEarned
    OBVIOUS
  <2>1. WellFormed(evidence)
    BY VectorWellFormed DEF VerdictInv, TrialsFit
  <2>2. record # None => RecordEarned
    BY DEF VerdictInv, Recorded
  <2> QED BY <2>1, <2>2 DEF VerdictIsEarned, RecordEarned, Of, Zeros
<1>2. EvaluationInv /\ VerdictInv /\ [Next]_vars => EvaluationInv' /\ VerdictInv'
  BY NextEvaluationInv, NextVerdictInv
<1> QED BY <1>1, <1>2, InitEvaluationInv, InitVerdictInv, PTL DEF Spec

==============================================================================
