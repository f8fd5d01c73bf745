-------------------------------- MODULE Proposal -------------------------------
(***************************************************************************)
(* One candidate worktree of an outer agent, from the fork to the commit   *)
(* (orchestration.py, operators.py, sdk.py): the agent invokes the          *)
(* configured operators on it in any order and as often as it likes, edits  *)
(* it by hand between two verbs, and commits it when validate and novelty   *)
(* have admitted it.  The mutate operator is module Mutation, step by step; *)
(* any other operator reads the worktree and writes its outputs.            *)
(*                                                                          *)
(* In a session that has a sandbox no operator touches the worktree itself  *)
(* (operator_isolation.py): it works on a copy in a container, where no     *)
(* model can be reached and nothing is paid, and the host brings back what  *)
(* the surface allows.                                                      *)
(*                                                                          *)
(* An output is the invocation that wrote it, the output it was made from   *)
(* and, for an admission, the verdict and the worktree the operator saw.    *)
(***************************************************************************)
EXTENDS Mutation

CONSTANTS
  Configured,       \* the operators evolve.yaml names; rollout and mutate always
  MaxInvocations,   \* bound: operators invoked
  MaxEdits,         \* bound: edits of the worktree by hand
  EditDuringVerbs   \* the agent edits while a verb of its own runs

ASSUME ProposalAssumption ==
  /\ {"rollout", "mutate"} \subseteq Configured
  /\ MaxInvocations \in Nat /\ MaxEdits \in Nat
  /\ EditDuringVerbs \in BOOLEAN

VARIABLES
  outputs,    \* active outputs in runs/gen-<genid>
  archived,   \* operator-attempts/<stage>/attempt-<n>/<path>
  verb,       \* the verb that holds the workspace lock, None between verbs
  committed,  \* the tree of the candidate's commit, None before it
  sandboxed,  \* the session has a sandbox
  box,        \* the isolated operator's copy: as made, and as it came back
  judged,     \* history: worktrees an operator accepted, by stage
  invocations, edits

boxVars == <<sandboxed, box>>
proposalVars == <<outputs, archived, verb, committed, boxVars, judged, invocations, edits>>
vars == <<mutationVars, proposalVars>>

Stages == <<"select", "rollout", "analyze", "mutate", "validate", "novelty">>
StageSet == {Stages[i] : i \in DOMAIN Stages}
Rank(stage) == CHOOSE i \in DOMAIN Stages : Stages[i] = stage

\* _STAGE_OUTPUTS, flattened in the order _archive_active_outputs goes.  The
\* receipt of validate lies in its directory, that of novelty beside its file.
Paths == <<"parents", "rollout", "analyze", "feedback", "mutate",
           "validate", "novelty", "novelty_receipt">>
PathSet == {Paths[i] : i \in DOMAIN Paths}
StageOf == [parents |-> "select", rollout |-> "rollout", analyze |-> "analyze",
            feedback |-> "analyze", mutate |-> "mutate", validate |-> "validate",
            novelty |-> "novelty", novelty_receipt |-> "novelty"]

Admissions == {"validate", "novelty"} \cap Configured
Evidence == IF "analyze" \in Configured THEN "analyze" ELSE "rollout"
OutputOf(stage) == IF stage = "select" THEN "parents" ELSE stage

Worktree == [p \in RootSet |-> tree[p]]

ASSUME WorktreeAssumption ==
  /\ None \notin [RootSet -> Contents \cup {None, "empty", "part"}]
  /\ None \notin [stage : StageSet \cup {"commit"},
                   step : {"archive", "operator", "install", "after", "commit"},
                   done : Seq([stage : StageSet, number : Nat])]

Changed(t) == \E p \in RootSet : t[p] # "base"
Clean(t) == \A p \in RootSet : t[p] # "foul"    \* a root that is gone is a change as any

-----------------------------------------------------------------------------
(* invoke_operator. *)

\* _assert_operator_prerequisites.
Prerequisites(stage) ==
  CASE stage = "analyze" -> {"rollout"}
    [] stage = "mutate" -> {"rollout"} \cup (Configured \cap {"analyze"})
    [] OTHER -> {}

Invoke(stage) ==
  /\ verb = None /\ committed = None
  /\ stage \in Configured
  /\ invocations < MaxInvocations
  /\ \A p \in Prerequisites(stage) : outputs[p] # None
  /\ invocations' = invocations + 1
  /\ verb' = [stage |-> stage, step |-> "archive", done |-> << >>]
  /\ UNCHANGED <<mutationVars, outputs, archived, committed, boxVars, judged, edits>>

Stale_OwnOnly(stage) ==
  {i \in DOMAIN Paths : StageOf[Paths[i]] = stage /\ outputs[Paths[i]] # None}

\* The first output of the stage, or of a later one, that is still active.
Stale(stage) ==
  {i \in DOMAIN Paths : Rank(StageOf[Paths[i]]) >= Rank(stage) /\ outputs[Paths[i]] # None}

FirstStale(stage) == CHOOSE i \in Stale(stage) : \A j \in Stale(stage) : i <= j

AttemptNumber_One(stage) == 1

\* The attempt number is the first free one when the stage's first path moves;
\* its second path goes to the same directory in the same invocation.
AttemptNumber(stage) ==
  LET used == {a.number : a \in {b \in archived : StageOf[b.path] = stage}}
      mine == {d.number : d \in {verb.done[i] : i \in DOMAIN verb.done} \cap [stage : {stage}, number : Nat]}
  IN IF mine # {} THEN CHOOSE n \in mine : TRUE
     ELSE CHOOSE n \in 1..(Cardinality(used) + 1) :
            n \notin used /\ \A m \in 1..(n - 1) : m \in used

\* One rename of _archive_active_outputs; the job directory and the patch lie in mutate/.
ArchiveOne ==
  /\ verb # None /\ verb.step = "archive"
  /\ Stale(verb.stage) # {}
  /\ LET path == Paths[FirstStale(verb.stage)]
         stage == StageOf[path]
         number == AttemptNumber(stage)
     IN /\ archived' = {a \in archived : ~(a.path = path /\ a.number = number)}
                       \cup {[path |-> path, number |-> number,
                              job |-> IF path = "mutate" THEN job ELSE None]}
        /\ outputs' = [outputs EXCEPT ![path] = None]
        /\ job' = IF path = "mutate" THEN None ELSE job
        /\ patch' = IF path = "mutate" THEN None ELSE patch
        /\ verb' = [verb EXCEPT !.done = Append(@, [stage |-> stage, number |-> number])]
  /\ UNCHANGED <<pc, tree, manifest, copyVars, litter, origin, torn, paid, faults,
                 committed, boxVars, judged, invocations, edits>>

\* run_operator starts the script: mutate/ exists from its first lines on.
StartOperator ==
  /\ verb # None /\ verb.step = "archive" /\ Stale(verb.stage) = {}
  /\ verb' = [verb EXCEPT !.step = "operator", !.done = << >>]
  /\ box' = IF sandboxed THEN [before |-> Worktree, after |-> Worktree] ELSE None
  /\ IF verb.stage = "mutate" /\ ~sandboxed
     THEN /\ Begin
          /\ outputs' = [outputs EXCEPT !["mutate"] =
               [by |-> invocations, from |-> outputs[Evidence].by]]
     ELSE UNCHANGED <<mutationVars, outputs>>
  /\ UNCHANGED <<archived, committed, sandboxed, judged, invocations, edits>>

\* What an operator other than Mutation's leaves when it ends: its outputs, and for
\* an admission its verdict on the worktree t that it saw.
Leaves(t) ==
  \/ /\ verb.stage \in {"select", "rollout"}
     /\ outputs' = [outputs EXCEPT ![OutputOf(verb.stage)] = [by |-> invocations]]
     /\ UNCHANGED judged
  \/ /\ verb.stage = "analyze"
     /\ outputs' = [outputs EXCEPT !["analyze"] =
                       [by |-> invocations, from |-> outputs["rollout"].by]]
     /\ UNCHANGED judged
  \/ /\ verb.stage = "mutate"
     /\ outputs' = [outputs EXCEPT !["mutate"] =
                       [by |-> invocations, from |-> outputs[Evidence].by]]
     /\ UNCHANGED judged
  \/ /\ verb.stage \in Admissions
     /\ \E accept \in BOOLEAN :
          /\ outputs' = [outputs EXCEPT ![verb.stage] =
                            [by |-> invocations, accept |-> accept, receipt |-> None]]
          /\ judged' = IF accept THEN judged \cup {<<verb.stage, t>>}
                       ELSE judged \ {<<verb.stage, t>>}

\* sdk.main writes them after the operator's method has returned.
OperatorWrites ==
  /\ verb # None /\ verb.step = "operator" /\ verb.stage # "mutate" /\ ~sandboxed
  /\ Leaves(Worktree)
  /\ verb' = [verb EXCEPT !.step = "after"]
  /\ UNCHANGED <<mutationVars, archived, committed, boxVars, invocations, edits>>

MutateEnds ==
  /\ verb # None /\ verb.step = "operator" /\ verb.stage = "mutate" /\ ~sandboxed
  /\ pc \in Resting
  /\ verb' = None
  /\ Forget
  /\ UNCHANGED <<tree, manifest, copyVars, job, patch, litter, paid, faults,
                 outputs, archived, committed, boxVars, judged, invocations, edits>>

\* A non-zero exit, a timeout or an invalid output: invoke_operator raises.  What the
\* operator has written by then stays active, unless it wrote it in its container.
OperatorFails ==
  /\ verb # None /\ verb.step = "operator" /\ (sandboxed \/ verb.stage # "mutate")
  /\ verb' = None /\ box' = None
  /\ \/ UNCHANGED <<outputs, judged>>
     \/ ~sandboxed /\ Leaves(Worktree)
  /\ UNCHANGED <<mutationVars, archived, committed, sandboxed, invocations, edits>>

-----------------------------------------------------------------------------
(* run_isolated_operator. *)

\* check_paths, on what the operator changed in its copy.
Forbidden(after) == \E p \in RootSet : after[p] = "foul" /\ box.before[p] # "foul"

IsolatedEnds_Unchecked ==
  /\ verb # None /\ verb.step = "operator" /\ sandboxed
  /\ \E after \in IF verb.stage = "mutate" THEN [RootSet -> Contents \cup {None}]
                  ELSE {box.before} :
       /\ verb' = [verb EXCEPT !.step = "install"] /\ box' = [box EXCEPT !.after = after]
  /\ UNCHANGED <<mutationVars, outputs, archived, committed, sandboxed, judged, invocations,
                 edits>>

\* The container is gone, and all it left is checked before anything is written.  Of
\* the operators only mutate changes its copy.
IsolatedEnds ==
  /\ verb # None /\ verb.step = "operator" /\ sandboxed
  /\ \E after \in IF verb.stage = "mutate" THEN [RootSet -> Contents \cup {None}]
                  ELSE {box.before} :
       IF Forbidden(after) THEN verb' = None /\ box' = None
       ELSE verb' = [verb EXCEPT !.step = "install"] /\ box' = [box EXCEPT !.after = after]
  /\ UNCHANGED <<mutationVars, outputs, archived, committed, sandboxed, judged, invocations,
                 edits>>

\* The changed files one by one, over what the worktree has by now; one that is to be
\* removed must still be there.
InstallChange ==
  /\ verb # None /\ verb.step = "install"
  /\ \E p \in RootSet :
       /\ box.after[p] # box.before[p]
       /\ IF box.after[p] = None /\ tree[p] = None
          THEN verb' = None /\ box' = None /\ UNCHANGED tree
          ELSE /\ tree' = [tree EXCEPT ![p] = box.after[p]]
               /\ box' = [box EXCEPT !.before[p] = box.after[p]]
               /\ UNCHANGED verb
  /\ UNCHANGED <<pc, manifest, copyVars, job, patch, litter, origin, torn, paid, faults,
                 outputs, archived, committed, sandboxed, judged, invocations, edits>>

\* Then its outputs, whose validity and whose exit code are looked at last: they stay
\* when the verb raises, as do the changes, and mutate always has a directory.
InstallArtifacts ==
  /\ verb # None /\ verb.step = "install" /\ box.after = box.before
  /\ \/ Leaves(box.before) /\ verb' \in {None, [verb EXCEPT !.step = "after"]}
     \/ verb.stage # "mutate" /\ UNCHANGED <<outputs, judged>> /\ verb' = None
  /\ box' = None
  /\ UNCHANGED <<mutationVars, archived, committed, sandboxed, invocations, edits>>

-----------------------------------------------------------------------------

\* _write_candidate_receipt and write_feedback_bundle, after the operator ended.
AfterOperator ==
  /\ verb # None /\ verb.step = "after"
  /\ CASE verb.stage = "validate" /\ Clean(Worktree) ->
            outputs' = [outputs EXCEPT !["validate"].receipt = Worktree]
       [] verb.stage = "novelty" /\ Clean(Worktree) ->
            outputs' = [outputs EXCEPT !["novelty_receipt"] = [receipt |-> Worktree]]
       [] verb.stage = "analyze" ->
            outputs' = [outputs EXCEPT !["feedback"] = [from |-> outputs["analyze"].by]]
       [] OTHER -> UNCHANGED outputs      \* the snapshot refuses, or nothing to do
  /\ verb' = None
  /\ UNCHANGED <<mutationVars, archived, committed, boxVars, judged, invocations, edits>>

-----------------------------------------------------------------------------
(* commit_agent_child and the agent's own hand. *)

Admitted_WithoutReceipt(t) ==
  \A s \in Admissions : outputs[s] # None /\ outputs[s].accept

\* _assert_admission.
Admitted(t) ==
  /\ \A s \in Admissions : outputs[s] # None /\ outputs[s].accept
  /\ "validate" \in Configured => outputs["validate"].receipt = t
  /\ "novelty" \in Configured =>
       outputs["novelty_receipt"] # None /\ outputs["novelty_receipt"].receipt = t

\* The first snapshot of the commit, which the admission is checked against.
Admit ==
  /\ verb = None /\ committed = None
  /\ Clean(Worktree) /\ Admitted(Worktree)
  /\ verb' = [stage |-> "commit", step |-> "commit", done |-> << >>]
  /\ UNCHANGED <<mutationVars, outputs, archived, committed, boxVars, judged, invocations, edits>>

\* commit_child takes a snapshot of its own and commits that one.
Commit ==
  /\ verb # None /\ verb.step = "commit"
  /\ verb' = None
  /\ committed' = IF Clean(Worktree) /\ Changed(Worktree) THEN Worktree ELSE None
  /\ UNCHANGED <<mutationVars, outputs, archived, boxVars, judged, invocations, edits>>

\* The agent writes into its worktree, and may bring back a lost root.  Its candidate
\* need not be the one of a job.
Edit ==
  /\ committed = None /\ edits < MaxEdits
  /\ EditDuringVerbs \/ verb = None
  /\ ~Running
  /\ edits' = edits + 1
  /\ \E p \in RootSet, c \in Contents \ {"edit"} :
       c # tree[p] /\ tree' = [tree EXCEPT ![p] = c]
  /\ UNCHANGED <<pc, manifest, copyVars, job, patch, litter, origin, torn, paid, faults,
                 outputs, archived, verb, committed, boxVars, judged, invocations>>

\* The process of the verb is killed, and its operator with it.
Kill ==
  /\ verb # None /\ ~Running /\ Fault
  /\ verb' = None /\ box' = None
  /\ Forget
  /\ UNCHANGED <<tree, manifest, copyVars, job, patch, litter, paid,
                 outputs, archived, committed, sandboxed, judged, invocations, edits>>

Init ==
  /\ MutationInit
  /\ outputs = [p \in PathSet |-> None]
  /\ archived = {} /\ verb = None /\ committed = None /\ judged = {}
  /\ sandboxed \in BOOLEAN /\ box = None
  /\ invocations = 0 /\ edits = 0

MutateRuns == MutationStep /\ UNCHANGED proposalVars

Next ==
  \/ \E stage \in StageSet : Invoke(stage)
  \/ ArchiveOne \/ StartOperator \/ OperatorWrites \/ OperatorFails
  \/ MutateRuns \/ MutateEnds \/ AfterOperator
  \/ IsolatedEnds \/ InstallChange \/ InstallArtifacts
  \/ Admit \/ Commit
  \/ Edit \/ Kill

Spec == Init /\ [][Next]_vars

-----------------------------------------------------------------------------
(* Properties of the mutate run. *)

\* A run that raises leaves the roots and the artifacts as it found them, unless an
\* exception met the removal of the backups or the undo itself
\* (harbor._install_bundle, except block).
RolledBack == pc = "failed" /\ ~torn => tree = origin

\* Wherever the run is interrupted, what the checkout and the artifact directory
\* held is in its place or in a backup - as long as the backups were not being
\* removed, nor an undo broken off (harbor._install_bundle, renames).
NothingLost ==
  pc \notin {"idle", "accepted", "ok", "unread"} /\ ~torn =>
    \A p \in Places :
      origin[p] \in {None, tree[p], backups[p]} \/ <<p, origin[p]>> \in litter

\* What is installed was changed by the agent only where the surface allows it,
\* in the copy and against the parent (harbor._install_bundle, two check_paths).
InstalledIsAllowed ==
  pc = "discard" => ~returned.elsewhere /\ \A p \in RootSet : tree[p] # "foul"

\* A job that was sent out named no gate or sealed task, or was to show the gate
\* data where nothing is sealed (harbor._prepare_bundle).
PrivateStaysHome ==
  job # None => job.names = {} \/ (job.expose /\ ~SealedSplit)

\* A paid run that ends without an accepted installation has cost the experiment
\* nothing of what it had: it is rolled back when it raised, and recoverable wherever
\* it was killed.  What the code gives up, and the property leaves out, is an
\* exception or a kill in the removal of the backups, or an exception in the undo.
InstallIsAtomic == RolledBack /\ NothingLost

\* What no hand has put there, the worktree of a sandboxed session never has: no
\* operator brings a change to it that the surface forbids, and none pays for a job
\* (operator_isolation.run_isolated_operator, the checks before the first write).
IsolationHolds == sandboxed => paid = 0 /\ (edits = 0 => Clean(Worktree))

\* What crosses the boundary between the experiment and the paid job or the sandbox.
BoundaryHolds == InstalledIsAllowed /\ PrivateStaysHome /\ IsolationHolds

-----------------------------------------------------------------------------
(* Properties of the worktree's life. *)

\* Each job that was paid for keeps its directory, in the active run or in an
\* attempt: no invocation reuses or overwrites one (run_agent's refusal with
\* orchestration._archive_active_outputs).
PaidJobsKept ==
  \A n \in 1..paid :
    \/ job # None /\ job.number = n
    \/ \E a \in archived : a.job # None /\ a.job.number = n

\* No active output was made from an output that has since been replaced.
EvidenceIsCurrent ==
  /\ outputs["analyze"] # None /\ outputs["rollout"] # None =>
       outputs["analyze"].from = outputs["rollout"].by
  /\ outputs["feedback"] # None /\ outputs["analyze"] # None =>
       outputs["feedback"].from = outputs["analyze"].by
  /\ outputs["mutate"] # None /\ outputs[Evidence] # None =>
       outputs["mutate"].from = outputs[Evidence].by

\* The committed tree is one that validate and novelty both accepted, the last
\* time they looked at it (orchestration._assert_admission and its receipts).
CommittedWasAdmitted ==
  committed # None => \A s \in Admissions : <<s, committed>> \in judged
=============================================================================
