------------------------------- MODULE Driver -------------------------------
(***************************************************************************)
(* The mechanism that owns a workspace: `evolve run` and the verbs an outer *)
(* agent or a user calls (fork, commit, eval, retry, finalize, seal,         *)
(* record, repair), from src/src/evolve/driver.py and orchestration.py.      *)
(*                                                                         *)
(* A verb holds the workspace lock from its first step until drv is Idle    *)
(* again, so one control state (drv) is enough.  A step is the code between *)
(* two points where a kill leaves something different behind: a ledger      *)
(* line, a Git tag, a worktree, an attempt directory.  Kill stops the verb  *)
(* between any two steps and leaves its worktrees; Interrupt is an           *)
(* exception or Ctrl-C, which runs the finally blocks.                       *)
(***************************************************************************)
EXTENDS Archive, FiniteSets, Sequences

CONSTANTS MaxGen,        \* generations per run
          Children,      \* children per generation
          Scores,        \* scores of complete evaluations
          Failures,      \* outcomes of evaluations that do not complete
          GatePolicy,    \* "hillclimb", "strict" or "parent_eligible"
          Sealed,        \* the split manifest selects sealed tasks
          FinalAnchor,   \* the run ends with a sealed evaluation of the best
          AuditJump,     \* EVOLVE_AUDIT_JUMP, or None
          Verbs,         \* the verbs besides run, repair and finalize in use
          MaxFaults,     \* bound: kills and interrupts
          MaxFailures,   \* bound: failing operators and evaluations
          MaxRetries     \* bound: forced evaluations

ASSUME DriverAssumption ==
  /\ {MaxGen, Children, MaxFaults, MaxFailures, MaxRetries} \subseteq Nat
  /\ Children > 0
  /\ Scores \subseteq Nat
  /\ None \notin Scores
  /\ Failures \subseteq Outcomes \ {"benchmark_complete"}
  /\ GatePolicy \in {"hillclimb", "strict", "parent_eligible"}
  /\ {Sealed, FinalAnchor} \subseteq BOOLEAN
  /\ AuditJump # None => AuditJump \in Nat
  /\ Verbs \subseteq {"agent", "eval", "seal", "annotate"}

Genesis == <<0, 0>>
Candidates == (1..MaxGen) \X (0..Children - 1)
Genid == {Genesis} \cup Candidates

ASSUME GenidAssumption == None \notin Genid

VARIABLES archive,    \* archive[g]: the ledger of generation g
          commits,    \* on tagged generations: the generation its commit descends from
          trees,      \* managed child worktrees: None, or base and state of the work
          strays,     \* worktrees a killed verb left registered with Git
          attempts,   \* attempts[g][p]: evaluation attempt directories
          drv,        \* what the lock holder is doing
          stamps,     \* history: certified complete selection evaluations
          gated,      \* history: the gate's word since the last of them
          budget      \* faults, failures and retries so far

vars == <<archive, commits, trees, strays, attempts, drv, stamps, gated, budget>>

durable == <<archive, commits, trees, strays, attempts>>
history == <<stamps, gated>>

Purposes == {"genesis", "candidate", "anchor"}

\* drv: pc is the next step; gen and parent the generation at hand and the
\* parent it is handled for; ref the tag whose tree supplies the record
\* operator and next the step after it; round and slot the run's loop counters;
\* selected the answer of select and todo the generations it left without a
\* parent; purpose the evaluation in progress and label the parent its line
\* will name; fresh whether _run_child (not a resume) handles gen.
Idle == [pc |-> "idle", verb |-> "none", gen |-> Genesis, parent |-> None,
         ref |-> Genesis, next |-> "idle", round |-> 0, slot |-> 0,
         selected |-> << >>, todo |-> {}, purpose |-> None, label |-> None,
         fresh |-> FALSE]

-----------------------------------------------------------------------------
(* What the code reads. *)

FailureOutcomes == Outcomes \ {"benchmark_complete"}
Rejections == {"no_proposal", "invalid_proposal", "rejected_validation",
               "rejected_duplicate"}
Unretryable == Rejections \cup {"operator_failed"} \cup FailureOutcomes
Terminal == Unretryable \cup {"complete"}

Row(g) == archive[g].row
Tagged(g) == g \in DOMAIN commits
Status(g) == EvaluationStatus(Row(g))

Evaluated_IfCertified(g) ==
  /\ Get(Row(g), "outcome") \in Outcomes
  /\ Get(Row(g), "receipt_certified") = TRUE

Evaluated(g) == Get(Row(g), "outcome") \in Outcomes

Pending(g) == Status(g) \notin Terminal \/ archive[g].awaiting

IsParent(g) == Tagged(g) /\ IsParentRecord(Row(g))
ValidParents == {g \in Genid : IsParent(g)}

\* best_row: max keeps the first of equal scores in ledger order; the model
\* leaves the choice among them open.
BestRows == {g \in ValidParents :
               \A h \in ValidParents : Row(h)["score"] <= Row(g)["score"]}

Slot(r, i) == <<r, i>>
PendingIn(r) == {g \in {Slot(r, i) : i \in 0..Children - 1} : Pending(g)}

\* _matched_gate_parent: the parent's score on the child's task set.
MatchedScore(p, g) ==
  LET hash == Get(Row(g), "task_set_hash")
      aux == {k \in DOMAIN archive[p].evals :
                Get(archive[p].evals[k], "task_set_hash") = hash}
  IN  IF hash = None THEN None
      ELSE IF Get(Row(p), "task_set_hash") = hash THEN Get(Row(p), "score")
      ELSE IF aux = {} THEN None
      ELSE Get(archive[p].evals[CHOOSE k \in aux : TRUE], "score")

ScoreOrZero(g) == IF Get(Row(g), "score") = None THEN 0 ELSE Row(g)["score"]

GateAccepts(p, g) ==
  LET against == MatchedScore(p, g)
  IN  CASE GatePolicy = "parent_eligible" ->
             /\ Get(Row(g), "outcome") = "benchmark_complete"
             /\ Get(Row(g), "selection_eligible") = TRUE
        [] GatePolicy = "hillclimb" -> against # None /\ ScoreOrZero(g) >= against
        [] GatePolicy = "strict"    -> against # None /\ ScoreOrZero(g) > against

GateReason(p, g) ==
  IF GatePolicy = "parent_eligible" THEN <<None, None>>
                                    ELSE <<ScoreOrZero(g), MatchedScore(p, g)>>

-----------------------------------------------------------------------------
(* run_summary.py: what `evolve` answers to "did this run succeed?".  Its    *)
(* integrity scan (nobody tampers here) and the target score are left out.   *)

\* An evaluated generation whose certificate, gate and tag are all in order.
EvaluatedGeneration(g) ==
  /\ Get(Row(g), "receipt_certified") = TRUE
  /\ Get(Row(g), "outcome") = "benchmark_complete"
  /\ Get(Row(g), "pending_gate_record") = FALSE
  /\ Get(Row(g), "valid_parent") \in BOOLEAN
  /\ Get(Row(g), "verdict") = IF Row(g)["valid_parent"] THEN "keep" ELSE "discard"
  /\ Tagged(g)

\* A proposal that validate rejected, and that was therefore never committed.
ValidationRejection(g) == g # Genesis /\ ~Tagged(g)

\* Every slot of the run has a row, and each row is one of the two.
RunPassed ==
  \A g \in Genid :
    /\ archive[g].lines # {}
    /\ \/ /\ Get(Row(g), "status") = "complete"
          /\ EvaluatedGeneration(g)
          /\ g = Genesis => Row(g)["valid_parent"]
       \/ /\ Get(Row(g), "status") = "rejected_validation"
          /\ ValidationRejection(g)

-----------------------------------------------------------------------------
AppendEvent(g, e) ==
  archive' = [archive EXCEPT ![g] = Record(@, g = Genesis, e, FALSE)]

Idling == drv.pc = "idle"
At(pc) == drv.pc = pc
Goto(pc) == drv' = [drv EXCEPT !.pc = pc]
Spend(kind) == budget' = [budget EXCEPT ![kind] = @ + 1]
CanFail == budget.failures < MaxFailures

NoTree(g) == trees' = [trees EXCEPT ![g] = None]

KeepTreeUnlessRun ==
  trees' = IF drv.verb = "run" /\ drv.gen # Genesis
             THEN [trees EXCEPT ![drv.gen] = None] ELSE trees

\* After one child slot is done.
NextSlot == [Idle EXCEPT !.pc = "slots", !.verb = "run", !.round = drv.round,
                         !.slot = drv.slot + 1, !.selected = drv.selected]

Done == IF drv.verb = "run" THEN NextSlot ELSE Idle

Init ==
  /\ archive = [g \in Genid |-> IF g = Genesis
                  THEN Record(Empty, TRUE, Scaffold, FALSE) ELSE Empty]
  /\ commits = [g \in {Genesis} |-> None]
  /\ trees = [g \in Candidates |-> None]
  /\ strays = {}
  /\ attempts = [g \in Genid |-> [p \in Purposes |-> 0]]
  /\ drv = Idle
  /\ stamps = [g \in Genid |-> {}]
  /\ gated = [g \in Genid |-> "none"]
  /\ budget = [faults |-> 0, failures |-> 0, retries |-> 0]

-----------------------------------------------------------------------------
(* evolve run: refused while any linked worktree exists. *)

NoWorktrees == strays = {} /\ \A g \in Candidates : trees[g] = None

StartRun ==
  /\ Idling /\ NoWorktrees
  /\ drv' = [Idle EXCEPT !.pc = "genesis", !.verb = "run"]
  /\ UNCHANGED <<durable, history, budget>>

Begin_ReusesAttempt(g, purpose, label) ==
  /\ drv' = [drv EXCEPT !.pc = "evaluating", !.gen = g, !.purpose = purpose,
                        !.label = label]
  /\ attempts' = [attempts EXCEPT ![g][purpose] = 1]
  /\ UNCHANGED <<archive, commits, trees, strays, history>>

\* evaluate(): the attempt directory and the evaluation worktree appear.
Begin(g, purpose, label) ==
  /\ attempts' = [attempts EXCEPT ![g][purpose] = @ + 1]
  /\ drv' = [drv EXCEPT !.pc = "evaluating", !.gen = g, !.purpose = purpose,
                        !.label = label]
  /\ UNCHANGED <<archive, commits, trees, strays, history>>

EnsureGenesis ==
  LET certified == /\ Get(Row(Genesis), "outcome") = "benchmark_complete"
                   /\ Get(Row(Genesis), "selection_eligible") = TRUE
      failed == Status(Genesis) \in FailureOutcomes
  IN  /\ At("genesis")
      /\ \/ /\ certified
            /\ Goto("anchor")
            /\ UNCHANGED <<durable, history>>
         \/ /\ ~certified /\ failed              \* raises: needs a new workspace
            /\ drv' = Idle
            /\ UNCHANGED <<durable, history>>
         \/ /\ ~certified /\ ~failed
            /\ Begin(Genesis, "genesis", Get(Row(Genesis), "parent"))
      /\ UNCHANGED budget

EnsureGenesisAnchor ==
  /\ At("anchor")
  /\ IF ~Sealed \/ HasCompleteAnchor(archive[Genesis])
       THEN /\ drv' = [drv EXCEPT !.pc = "round", !.round = 1]
            /\ UNCHANGED <<durable, history, budget>>
       ELSE /\ Begin(Genesis, "anchor", Get(Row(Genesis), "parent"))
            /\ UNCHANGED budget

Round ==
  /\ At("round")
  /\ drv' = CASE drv.round > MaxGen -> [drv EXCEPT !.pc = "final"]
              [] drv.round <= MaxGen /\ PendingIn(drv.round) = {} ->
                   [drv EXCEPT !.round = @ + 1]
              [] OTHER -> [drv EXCEPT !.pc = "select"]
  /\ UNCHANGED <<durable, history, budget>>

\* The select operator's answer; one parent serves every child, several are
\* taken by position, and a child without one fails.
Select(ps) ==
  LET pending == PendingIn(drv.round)
      covered == {g \in pending : Len(ps) = 1 \/ g[2] + 1 \in DOMAIN ps}
  IN  /\ At("select")
      /\ drv' = [drv EXCEPT
           !.pc = IF covered = pending THEN "slots" ELSE "selectFailed",
           !.slot = 0, !.todo = pending \ covered,
           !.selected = [g \in covered |-> IF Len(ps) = 1 THEN ps[1] ELSE ps[g[2] + 1]]]
      /\ IF ValidParents = {} \/ \A i \in DOMAIN ps : IsParent(ps[i])
           THEN UNCHANGED budget
           ELSE CanFail /\ Spend("failures")
      /\ UNCHANGED <<durable, history>>

SelectFails ==
  /\ At("select") /\ CanFail /\ Spend("failures")
  /\ drv' = [drv EXCEPT !.pc = "selectFailed", !.slot = 0, !.selected = << >>,
                        !.todo = PendingIn(drv.round)]
  /\ UNCHANGED <<durable, history>>

\* The record operator runs from the tree of tag ref, then the driver goes on.
ThenRecord(ref, next) ==
  drv' = [drv EXCEPT !.pc = "record", !.ref = ref, !.next = next]

\* _append_operator_failed with no parent, then the terminal record, for each.
FailUnselected ==
  LET g == CHOOSE h \in drv.todo : \A k \in drv.todo : h[2] <= k[2]
  IN  /\ At("selectFailed")
      /\ AppendEvent(g, OperatorFailed(None))
      /\ drv' = [drv EXCEPT !.pc = "record", !.gen = g, !.ref = Genesis,
                            !.todo = @ \ {g},
                            !.next = IF drv.todo = {g} THEN "slots" ELSE "selectFailed"]
      /\ UNCHANGED <<commits, trees, strays, attempts, history, budget>>

TakeSlot ==
  LET g == Slot(drv.round, drv.slot)
      parent == IF g \in DOMAIN drv.selected THEN drv.selected[g]
                ELSE IF Tagged(g) THEN Get(Row(g), "parent") ELSE None
  IN  /\ At("slots")
      /\ drv' = CASE drv.slot = Children ->
                       [Idle EXCEPT !.pc = "round", !.verb = "run",
                                    !.round = drv.round + 1]
                  [] drv.slot < Children /\ (~Pending(g) \/ parent = None) ->
                       NextSlot
                  [] OTHER ->
                       [drv EXCEPT !.gen = g, !.parent = parent,
                          !.fresh = ~Tagged(g),
                          !.pc = IF ~Tagged(g) THEN "fork"
                                 ELSE IF ~Evaluated(g) THEN "evaluate"
                                 ELSE "gate"]
      /\ UNCHANGED <<durable, history, budget>>

-----------------------------------------------------------------------------
(* _run_child: fork, propose, guard, commit. *)

Fork ==
  /\ At("fork")
  /\ IF IsParent(drv.parent)
       THEN /\ trees' = [trees EXCEPT ![drv.gen] =
                           [base |-> drv.parent, work |-> "clean"]]
            /\ Goto("proposing")
            /\ UNCHANGED archive
       ELSE /\ AppendEvent(drv.gen, OperatorFailed(drv.parent))
            /\ ThenRecord(drv.parent, "leave")
            /\ UNCHANGED trees
  /\ UNCHANGED <<commits, strays, attempts, history, budget>>

\* rollout, analyze and mutate; only mutate's edits matter afterwards.
Propose ==
  /\ At("proposing")
  /\ \E work \in {"clean", "dirty"} :
       trees' = [trees EXCEPT ![drv.gen].work = work]
  /\ Goto("guardrail")
  /\ UNCHANGED <<archive, commits, strays, attempts, history, budget>>

\* A stage, validate or novelty crashes or writes a malformed result.
StageFails ==
  /\ drv.pc \in {"proposing", "guardrail"}
  /\ CanFail /\ Spend("failures")
  /\ AppendEvent(drv.gen, OperatorFailed(drv.parent))
  /\ ThenRecord(drv.parent, "leave")
  /\ UNCHANGED <<commits, trees, strays, attempts, history>>

RejectProposal(status) ==
  /\ At("guardrail")
  /\ status = "no_proposal" <=> trees[drv.gen].work = "clean"
  /\ AppendEvent(drv.gen, Discarded(drv.parent, status))
  /\ ThenRecord(drv.parent, "leave")
  /\ UNCHANGED <<commits, trees, strays, attempts, history, budget>>

AdmitProposal ==
  /\ At("guardrail") /\ trees[drv.gen].work = "dirty"
  /\ Goto("commit")
  /\ UNCHANGED <<durable, history, budget>>

CommitRefused_UnlessParent(g) == ~IsParent(drv.parent)

CommitRefused(g) == ~IsParent(drv.parent) \/ Tagged(g) \/ archive[g].lines # {}

\* commit_child: refuse, report an empty proposal, or commit the snapshot.
CommitSnapshot ==
  LET g == drv.gen
      refused == CommitRefused(g)
  IN  /\ At("commit")
      /\ CASE refused ->
                /\ KeepTreeUnlessRun
                /\ drv' = Idle
                /\ UNCHANGED archive
           [] ~refused /\ trees[g].work = "clean" ->
                /\ AppendEvent(g, Discarded(drv.parent, "no_proposal"))
                /\ drv' = [drv EXCEPT !.pc = "leave", !.next = "slots"]
                /\ UNCHANGED trees
           [] ~refused /\ trees[g].work = "dirty" ->
                /\ trees' = [trees EXCEPT ![g].work = "committed"]
                /\ Goto("committed")
                /\ UNCHANGED archive
      /\ UNCHANGED <<commits, strays, attempts, history, budget>>

CreateTag ==
  /\ At("committed")
  /\ commits' = [g \in DOMAIN commits \cup {drv.gen} |->
                   IF g = drv.gen THEN trees[g].base ELSE commits[g]]
  /\ Goto("tagged")
  /\ UNCHANGED <<archive, trees, strays, attempts, history, budget>>

CommitLine_Ends ==
  /\ At("tagged")
  /\ AppendEvent(drv.gen, CommitEvent(drv.parent))
  /\ drv' = [drv EXCEPT !.pc = "leave", !.next = "slots"]
  /\ UNCHANGED <<commits, trees, strays, attempts, history, budget>>

CommitLine ==
  /\ At("tagged")
  /\ AppendEvent(drv.gen, CommitEvent(drv.parent))
  /\ drv' = [drv EXCEPT !.pc = "leave", !.next = "evaluate"]
  /\ UNCHANGED <<commits, trees, strays, attempts, history, budget>>

\* The child worktree goes; the run evaluates what it committed.
Leave ==
  /\ At("leave")
  /\ NoTree(drv.gen)
  /\ drv' = IF drv.verb = "run" /\ drv.next = "evaluate"
              THEN [drv EXCEPT !.pc = "evaluate"] ELSE Done
  /\ UNCHANGED <<archive, commits, strays, attempts, history, budget>>

-----------------------------------------------------------------------------
(* eval_child and the evaluation lifecycle. *)

EvaluationParents(g) ==
  IF Get(Row(g), "parent") # None THEN {Row(g)["parent"]}
  ELSE IF g = Genesis THEN {Genesis} ELSE BestRows

Skipped(g) == drv.verb # "retry" /\ (Evaluated(g) \/ Status(g) \in Unretryable)

EvalChild ==
  LET g == drv.gen
      skipped == Skipped(g)
      described == "mutated" \in DOMAIN Row(g)
  IN  /\ At("evaluate")
      /\ \/ /\ skipped
            /\ drv' = IF drv.verb = "run" /\ archive[g].awaiting
                        THEN [drv EXCEPT !.pc = "gate"] ELSE Done
            /\ UNCHANGED durable
            /\ UNCHANGED history
         \/ /\ ~skipped /\ EvaluationParents(g) = {}      \* no valid parent: raises
            /\ drv' = Idle
            /\ UNCHANGED durable
            /\ UNCHANGED history
         \/ \E p \in EvaluationParents(g) :
              /\ ~skipped
              /\ Begin(g, "candidate", p)
         \/ \E p \in EvaluationParents(g) :               \* the surface was narrowed
              /\ ~skipped /\ ~described
              /\ AppendEvent(g, Discarded(p, "invalid_proposal"))
              /\ drv' = Done
              /\ UNCHANGED <<commits, trees, strays, attempts, history>>
      /\ UNCHANGED budget

EvaluationLine(outcome, score) ==
  LET g == drv.gen
      attempt == attempts[g][drv.purpose]
  IN  CASE drv.purpose = "genesis" ->
             GenesisEvaluation(drv.label, outcome, score, attempt)
        [] drv.purpose = "candidate" ->
             CandidateEvaluation(g = Genesis, drv.label, outcome, score, attempt)
        [] drv.purpose = "anchor" ->
             AnchorEvaluation(drv.label, outcome, score, attempt)

\* The attempt's line and, when receipt, the receipt that certifies it.
Stamp(outcome, score, receipt) ==
  LET g == drv.gen
      certified == /\ receipt /\ outcome = "benchmark_complete"
                   /\ drv.purpose # "anchor"
  IN  /\ score # None <=> outcome = "benchmark_complete"
      /\ archive' = [archive EXCEPT ![g] =
           Record(@, g = Genesis, EvaluationLine(outcome, score), receipt)]
      /\ IF certified
           THEN /\ stamps' = [stamps EXCEPT ![g] =
                     @ \cup {<<score, attempts[g][drv.purpose], drv.purpose>>}]
                /\ gated' = [gated EXCEPT ![g] = "none"]
           ELSE UNCHANGED history
      /\ UNCHANGED <<commits, trees, strays, attempts>>

\* Where an evaluation returns to.
AfterEvaluation(complete) ==
  LET cleared == [drv EXCEPT !.purpose = None, !.label = None]
  IN  CASE drv.verb # "run" -> Idle
        [] drv.verb = "run" /\ drv.purpose = "genesis" ->
             IF complete THEN [cleared EXCEPT !.pc = "anchor"] ELSE Idle
        [] drv.verb = "run" /\ drv.purpose = "anchor" ->
             IF complete /\ drv.round = 0
               THEN [cleared EXCEPT !.pc = "round", !.round = 1] ELSE Idle
        [] drv.verb = "run" /\ drv.purpose = "candidate" ->
             IF complete THEN [cleared EXCEPT !.pc = "gate"] ELSE NextSlot

FinishEvaluation(outcome, score) ==
  /\ At("evaluating")
  /\ Stamp(outcome, score, TRUE)
  /\ drv' = AfterEvaluation(outcome = "benchmark_complete")
  /\ IF outcome = "benchmark_complete" THEN UNCHANGED budget
                                       ELSE CanFail /\ Spend("failures")

-----------------------------------------------------------------------------
(* _run_gate_and_record, _run_terminal_record, _maybe_quarantine. *)

AfterGate == IF drv.fresh THEN "audit" ELSE "done"

GateDecides ==
  LET g == drv.gen
      accept == GateAccepts(drv.parent, g)
      e == GateEvent(accept, GateReason(drv.parent, g))
  IN  /\ At("gate")
      /\ AppendEvent(g, e)
      /\ gated' = IF e \in archive[g].lines THEN gated
                  ELSE [gated EXCEPT ![g] = IF accept THEN "accept" ELSE "reject"]
      /\ ThenRecord(g, AfterGate)
      /\ UNCHANGED <<commits, trees, strays, attempts, stamps, budget>>

GateFails ==
  /\ At("gate") /\ CanFail /\ Spend("failures")
  /\ AppendEvent(drv.gen, OperatorFailed(drv.parent))
  /\ ThenRecord(drv.gen, AfterGate)
  /\ UNCHANGED <<commits, trees, strays, attempts, history>>

AfterRecord ==
  CASE drv.next = "slots" ->
         [Idle EXCEPT !.pc = "slots", !.verb = "run", !.round = drv.round,
                      !.selected = drv.selected]
    [] drv.next \in {"selectFailed", "leave", "audit"} ->
         [drv EXCEPT !.pc = drv.next]
    [] drv.next = "done" -> Done

\* At most one record attempt per generation; its source tag must exist.
RecordTerminal ==
  LET g == drv.gen
  IN  /\ At("record")
      /\ \/ /\ archive[g].attempted
            /\ drv' = AfterRecord
            /\ UNCHANGED <<archive, trees, budget>>
         \/ /\ ~archive[g].attempted /\ ~Tagged(drv.ref)    \* raises
            /\ KeepTreeUnlessRun
            /\ drv' = Idle
            /\ UNCHANGED <<archive, budget>>
         \/ /\ ~archive[g].attempted /\ Tagged(drv.ref)
            /\ \/ AppendEvent(g, RecordEvent) /\ UNCHANGED budget
               \/ AppendEvent(g, RecordError) /\ CanFail /\ Spend("failures")
            /\ drv' = AfterRecord
            /\ UNCHANGED trees
      /\ UNCHANGED <<commits, strays, attempts, history>>

Suspicious(g) ==
  LET prior == {Row(h)["score"] : h \in ValidParents \ {g}}
  IN  /\ AuditJump # None
      /\ Get(Row(g), "score") # None
      /\ prior # {}
      /\ \A s \in prior : Row(g)["score"] > s + AuditJump

Audit ==
  /\ At("audit")
  /\ IF Suspicious(drv.gen) THEN AppendEvent(drv.gen, AuditEvent)
                            ELSE UNCHANGED archive
  /\ drv' = Done
  /\ UNCHANGED <<commits, trees, strays, attempts, history, budget>>

FinishRun ==
  /\ At("final")
  /\ \/ /\ ~(Sealed /\ FinalAnchor) \/ ValidParents = {}
        /\ drv' = Idle
        /\ UNCHANGED <<durable, history, budget>>
     \/ \E best \in BestRows :
          /\ Sealed /\ FinalAnchor
          /\ IF HasCompleteAnchor(archive[best])
               THEN drv' = Idle /\ UNCHANGED <<durable, history>>
               ELSE Begin(best, "anchor", Get(Row(best), "parent"))
          /\ UNCHANGED budget

-----------------------------------------------------------------------------
(* The verbs of an outer agent or a user. *)

AgentFork(g, p) ==
  /\ Idling /\ "agent" \in Verbs
  /\ IsParent(p) /\ trees[g] = None
  /\ trees' = [trees EXCEPT ![g] = [base |-> p, work |-> "clean"]]
  /\ UNCHANGED <<archive, commits, strays, attempts, drv, history, budget>>

AgentEdit(g) ==
  /\ Idling /\ "agent" \in Verbs
  /\ trees[g] # None /\ trees[g].work = "clean"
  /\ trees' = [trees EXCEPT ![g].work = "dirty"]
  /\ UNCHANGED <<archive, commits, strays, attempts, drv, history, budget>>

\* commit_agent_child: HEAD of the worktree must still be the parent's commit.
AgentCommit(g) ==
  /\ Idling /\ "agent" \in Verbs
  /\ trees[g] # None /\ trees[g].work # "committed"
  /\ IsParent(trees[g].base)
  /\ drv' = [Idle EXCEPT !.pc = "commit", !.verb = "agent", !.gen = g,
                         !.parent = trees[g].base]
  /\ UNCHANGED <<durable, history, budget>>

AgentEval(g) ==
  /\ Idling /\ "eval" \in Verbs /\ Tagged(g)
  /\ drv' = [Idle EXCEPT !.pc = "evaluate", !.verb = "eval", !.gen = g]
  /\ UNCHANGED <<durable, history, budget>>

Retry(g) ==
  /\ Idling /\ Tagged(g)
  /\ budget.retries < MaxRetries /\ Spend("retries")
  /\ drv' = [Idle EXCEPT !.pc = "evaluate", !.verb = "retry", !.gen = g]
  /\ UNCHANGED <<durable, history>>

Finalize(g) ==
  /\ Idling
  /\ Evaluated(g) /\ archive[g].awaiting /\ Get(Row(g), "parent") # None
  /\ drv' = [Idle EXCEPT !.pc = "gate", !.verb = "finalize", !.gen = g,
                         !.parent = Row(g)["parent"]]
  /\ UNCHANGED <<durable, history, budget>>

SealChampion(g) ==
  /\ Idling /\ "seal" \in Verbs
  /\ IsParent(g) /\ ~HasCompleteAnchor(archive[g])
  /\ attempts' = [attempts EXCEPT ![g]["anchor"] = @ + 1]
  /\ drv' = [Idle EXCEPT !.pc = "evaluating", !.verb = "seal", !.gen = g,
                         !.purpose = "anchor", !.label = Get(Row(g), "parent")]
  /\ UNCHANGED <<archive, commits, trees, strays, history, budget>>

Annotate(g) ==
  /\ Idling /\ "annotate" \in Verbs /\ archive[g].lines # {}
  /\ AppendEvent(g, AuditEvent)
  /\ UNCHANGED <<commits, trees, strays, attempts, drv, history, budget>>

-----------------------------------------------------------------------------
(* Failures of the process, and recovery. *)

CanFault == budget.faults < MaxFaults

\* Worktrees a kill can leave registered outside runs/worktrees.
Leftovers ==
  CASE drv.pc \in {"select", "gate", "record"} -> {{}, {"temp"}}
    [] drv.pc = "evaluating" -> {{}, {"evaluation"}, {"dirtyEvaluation"}}
    [] OTHER -> {{}}

Kill ==
  /\ ~Idling /\ CanFault /\ Spend("faults")
  /\ \E left \in Leftovers : strays' = strays \cup left
  /\ drv' = Idle
  /\ UNCHANGED <<archive, commits, trees, attempts, history>>

\* A kill after the evaluation's ledger line and before its receipt.
KillInStamp(outcome, score) ==
  /\ At("evaluating") /\ CanFault /\ Spend("faults")
  /\ Stamp(outcome, score, FALSE)
  /\ drv' = Idle

\* An exception or Ctrl-C: the managed child worktree is removed, and an
\* evaluation in progress is recorded as cancelled.
Interrupt ==
  /\ ~Idling /\ CanFault /\ Spend("faults")
  /\ IF At("evaluating")
       THEN Stamp("cancelled", None, TRUE)
       ELSE KeepTreeUnlessRun /\ UNCHANGED <<archive, commits, strays, attempts, history>>
  /\ drv' = Idle

Repair_ManagedOnly ==
  /\ Idling
  /\ trees' = [g \in Candidates |->
                 IF trees[g] # None /\ trees[g].work = "dirty"
                   THEN trees[g] ELSE None]
  /\ UNCHANGED <<archive, commits, strays, attempts, drv, history, budget>>

\* Managed worktrees without uncommitted changes and clean evaluation
\* worktrees are removed; registrations without a directory are pruned.
Repair ==
  /\ Idling
  /\ trees' = [g \in Candidates |->
                 IF trees[g] # None /\ trees[g].work = "dirty"
                   THEN trees[g] ELSE None]
  /\ strays' = strays \cap {"temp", "dirtyEvaluation"}
  /\ UNCHANGED <<archive, commits, attempts, drv, history, budget>>

\* The user preserves the edits of a worktree and resets it, or deletes a
\* worktree's directory; Git still lists the latter until it is pruned.
UserResetsTree(g) ==
  /\ Idling /\ trees[g] # None /\ trees[g].work = "dirty"
  /\ trees' = [trees EXCEPT ![g].work = "clean"]
  /\ UNCHANGED <<archive, commits, strays, attempts, drv, history, budget>>

UserDeletesStrays ==
  /\ Idling /\ strays \cap {"temp", "dirtyEvaluation"} # {}
  /\ strays' = {"gone"}
  /\ UNCHANGED <<archive, commits, trees, attempts, drv, history, budget>>

-----------------------------------------------------------------------------
\* select's answers: one parent, or one per child, of any generation id.
Answers == UNION {[1..n -> Genid] : n \in 1..Children}
Results == (Failures \X {None}) \cup ({"benchmark_complete"} \X Scores)

RunStep ==
  \/ EnsureGenesis \/ EnsureGenesisAnchor \/ Round
  \/ \E ps \in Answers : Select(ps)
  \/ SelectFails \/ FailUnselected \/ TakeSlot
  \/ Fork \/ Propose \/ StageFails \/ AdmitProposal
  \/ \E status \in Rejections : RejectProposal(status)
  \/ CommitSnapshot \/ CreateTag \/ CommitLine \/ Leave
  \/ EvalChild
  \/ \E r \in Results : FinishEvaluation(r[1], r[2])
  \/ GateDecides \/ GateFails \/ RecordTerminal \/ Audit \/ FinishRun

VerbStep ==
  \/ StartRun
  \/ \E g \in Candidates, p \in Genid : AgentFork(g, p)
  \/ \E g \in Candidates : AgentEdit(g) \/ AgentCommit(g) \/ UserResetsTree(g)
  \/ \E g \in Genid : \/ AgentEval(g) \/ Retry(g) \/ Finalize(g)
                      \/ SealChampion(g) \/ Annotate(g)
  \/ Repair \/ UserDeletesStrays

FaultStep ==
  \/ Kill
  \/ \E r \in Results : KillInStamp(r[1], r[2])
  \/ Interrupt

Next == RunStep \/ VerbStep \/ FaultStep

Spec == Init /\ [][Next]_vars

=============================================================================
