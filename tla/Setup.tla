-------------------------------- MODULE Setup --------------------------------
(***************************************************************************)
(* init_workspace (workspace.py) and what it freezes of the dataset         *)
(* (splits.py): the target is staged in a temporary directory, the split    *)
(* manifest is computed from the dataset as it is at that moment, the files *)
(* are written one after the other, committed and tagged gen/0.  The user   *)
(* goes on editing the dataset, which belongs to no workspace.              *)
(*                                                                          *)
(* Abstractions.  The content of a task is a version number, which also     *)
(* stands for its digest; a task without directory has version None.  The   *)
(* order in which the seed's hash sorts the names is a constant.  A         *)
(* candidate is what its evaluation can tell of it: the state of its lock,  *)
(* whether its own project builds, whether its trials raise the marker of   *)
(* an invalid candidate, whether it changed the evaluator.                  *)
(***************************************************************************)
EXTENDS Naturals, Sequences, FiniteSets

CONSTANTS
  None,
  NameOrder,    \* the dataset's task names, sorted
  SeedOrder,    \* the same names, sorted by the hash of seed and name
  Ratios,       \* [train, gate, sealed], in tenths
  GateLimit,    \* tasks_per_round; 0 for no limit
  Seeds,        \* the candidates generation zero may hold
  MaxEdits,     \* bound: edits of the dataset by a user
  MaxFaults     \* bound: network failures, refusals of Docker, kills

Splits == <<"train", "gate", "sealed">>
SplitNames == {"train", "gate", "sealed"}
Tasks == {SeedOrder[i] : i \in 1..Len(SeedOrder)}
Locks == {"fresh", "stale", "missing"}
CandidateType == [lock : Locks, builds : BOOLEAN, crashes : BOOLEAN, meddles : BOOLEAN]

ASSUME SetupAssumption ==
  /\ {NameOrder, SeedOrder} \subseteq Seq(Tasks)
  /\ \A i, j \in 1..Len(SeedOrder) : SeedOrder[i] = SeedOrder[j] => i = j
  /\ \A i, j \in 1..Len(NameOrder) : NameOrder[i] = NameOrder[j] => i = j
  /\ Ratios \in [SplitNames -> 0..10]
  /\ Ratios["train"] + Ratios["gate"] + Ratios["sealed"] = 10
  /\ {GateLimit, MaxEdits, MaxFaults} \subseteq Nat
  /\ Seeds \subseteq CandidateType

VARIABLES
  content,   \* content[t]: the dataset, as it is
  edits,
  network, docker, faults,
  setup,     \* init: what it is doing
  tree       \* what the workspace holds: the pieces written so far

setupVars == <<content, edits, network, docker, faults, setup, tree>>

NoManifest == [tasks |-> [s \in SplitNames |-> << >>], digests |-> << >>]

------------------------------------------------------------------------------
(* splits.py *)

\* The digests of the tasks that have a directory.
TaskDigests(dataset) == [t \in {t \in Tasks : dataset[t] # None} |-> dataset[t]]

\* The given names in the given order.
InOrder(order, names) ==
  LET at == {i \in 1..Len(order) : order[i] \in names} IN
  [k \in 1..Cardinality(at) |->
     order[CHOOSE i \in at : Cardinality({j \in at : j <= i}) = k]]

Ordered(names) == InOrder(SeedOrder, names)
Sorted(names) == InOrder(NameOrder, names)
Piece(s, first, last) == Sorted({s[i] : i \in (first..last) \cap (1..Len(s))})

\* _assign: floors first, then the largest remainders, ties by position.
Counts(n) ==
  LET share(s) == n * Ratios[s]
      floors == [s \in SplitNames |-> share(s) \div 10]
      left == n - (floors["train"] + floors["gate"] + floors["sealed"])
      before(i, j) == \/ share(Splits[i]) % 10 > share(Splits[j]) % 10
                      \/ share(Splits[i]) % 10 = share(Splits[j]) % 10 /\ i < j
      rank(j) == Cardinality({i \in 1..3 : before(i, j)})
  IN  [s \in SplitNames |->
         floors[s] + (IF \E j \in 1..3 : Splits[j] = s /\ rank(j) < left THEN 1 ELSE 0)]

\* The splits are consecutive pieces of the ordered names, each sorted again.
Assign(names) ==
  LET ordered == Ordered(names)
      counts == Counts(Len(ordered))
      gate == counts["train"] + counts["gate"]
  IN  [s \in SplitNames |->
         CASE s = "train" -> Piece(ordered, 1, counts["train"])
           [] s = "gate" -> Piece(ordered, counts["train"] + 1, gate)
           [] s = "sealed" -> Piece(ordered, gate + 1, Len(ordered))]

\* build_manifest; it raises without tasks, or when a split with a ratio is empty.
ManifestOf(dataset) ==
  [tasks |-> Assign(DOMAIN TaskDigests(dataset)), digests |-> TaskDigests(dataset)]

Splittable(dataset) ==
  LET names == DOMAIN TaskDigests(dataset) IN
  /\ names # {}
  /\ \A s \in SplitNames : Ratios[s] > 0 => Assign(names)[s] # << >>

\* selected_task_names
Selected(manifest, split, limit) ==
  LET names == manifest.tasks[split]
      cap == IF limit # None THEN limit ELSE IF split = "gate" THEN GateLimit ELSE 0
  IN  IF cap > 0 /\ cap < Len(names) THEN SubSeq(names, 1, cap) ELSE names

------------------------------------------------------------------------------
(* init_workspace *)

NewTree == [manifest |-> NoManifest, runtime |-> FALSE, target |-> None,
            vendored |-> FALSE, committed |-> FALSE, tag |-> None, row |-> FALSE]

InitSetup ==
  /\ content = [t \in Tasks |-> 0]
  /\ edits = 0 /\ network = TRUE /\ docker = TRUE /\ faults = 0
  /\ setup = [pc |-> "none", staged |-> None]
  /\ tree = NewTree

\* A directory that holds anything is refused.
InitWorkspace ==
  /\ setup.pc = "none" /\ tree = NewTree
  /\ setup' = [setup EXCEPT !.pc = "stage"]
  /\ UNCHANGED <<content, edits, network, docker, faults, tree>>

\* A seed fetched by Git, and a lock that is to be generated, need the network.
Fetchable(remote) == remote => network
Lockable(generate) == generate => network
Locked(seed, generate) == IF generate THEN [seed EXCEPT !.lock = "fresh"] ELSE seed

\* A target whose lock is missing or stale is refused.
ValidTarget(target) == target.lock = "fresh"

\* _write_target and its validation, in the temporary directory.
StageTarget ==
  /\ setup.pc = "stage"
  /\ \E seed \in Seeds, remote, generate \in BOOLEAN :
       LET target == Locked(seed, generate) IN
       setup' = IF Fetchable(remote) /\ Lockable(generate) /\ ValidTarget(target)
                THEN [pc |-> "write", staged |-> target] ELSE [pc |-> "none", staged |-> None]
  /\ UNCHANGED <<content, edits, network, docker, faults, tree>>

\* _write_files: the manifest is built before the first file is written.
WriteFiles ==
  /\ setup.pc = "write"
  /\ IF Splittable(content)
     THEN /\ tree' = [tree EXCEPT !.manifest = ManifestOf(content), !.runtime = TRUE]
          /\ setup' = [setup EXCEPT !.pc = "target"]
     ELSE setup' = [pc |-> "none", staged |-> None] /\ UNCHANGED tree
  /\ UNCHANGED <<content, edits, network, docker, faults>>

CopyTarget ==
  /\ setup.pc = "target"
  /\ tree' = [tree EXCEPT !.target = setup.staged]
  /\ setup' = [setup EXCEPT !.pc = "vendor"]
  /\ UNCHANGED <<content, edits, network, docker, faults>>

VendorMechanism ==
  /\ setup.pc = "vendor"
  /\ tree' = [tree EXCEPT !.vendored = TRUE]
  /\ setup' = [setup EXCEPT !.pc = "git"]
  /\ UNCHANGED <<content, edits, network, docker, faults>>

\* _init_git, up to its commit and then the tag.
InitGit ==
  /\ setup.pc = "git"
  /\ IF ~tree.committed
     THEN tree' = [tree EXCEPT !.committed = TRUE] /\ UNCHANGED setup
     ELSE /\ tree' = [tree EXCEPT !.tag = tree.target]
          /\ setup' = [setup EXCEPT !.pc = "archive"]
  /\ UNCHANGED <<content, edits, network, docker, faults>>

WriteGen0Archive ==
  /\ setup.pc = "archive"
  /\ tree' = [tree EXCEPT !.row = TRUE]
  /\ setup' = [setup EXCEPT !.pc = "done"]
  /\ UNCHANGED <<content, edits, network, docker, faults>>

InitStep == \/ InitWorkspace \/ StageTarget \/ WriteFiles \/ CopyTarget
            \/ VendorMechanism \/ InitGit \/ WriteGen0Archive

\* A kill leaves what is written; what is not tagged can only be deleted by hand.
KillInit ==
  /\ faults < MaxFaults /\ faults' = faults + 1
  /\ setup.pc \notin {"none", "done", "dead"}
  /\ setup' = [setup EXCEPT !.pc = IF tree = NewTree THEN "none" ELSE "dead"]
  /\ UNCHANGED <<content, edits, network, docker, tree>>

\* A user edits a task, or removes its directory, at any time.
EditDataset ==
  /\ edits < MaxEdits /\ edits' = edits + 1
  /\ \E t \in Tasks, version \in {None, edits + 1} : content' = [content EXCEPT ![t] = version]
  /\ UNCHANGED <<network, docker, faults, setup, tree>>
==============================================================================
