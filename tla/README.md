# RSIHub in TLA+

A specification of the mechanism of RSIHub (`src/src/evolve/` and the operators
of `src/library/` it runs): the part that owns a workspace, evolves candidates
generation by generation, evaluates and gates them, and records their lineage in
`archive.jsonl`; and of the sessions in which an outer agent does the same by
typed actions. TLC checks the modules on small instances; TLAPS proves the
properties listed under *Proofs* for every value of the constants. Paths below
are relative to `src/src/evolve/` unless they begin with `docs/`, `library/` or
`scaffolds/` (under `src/`).

## The system

A *workspace* is a Git repository. Each *generation* is a commit tagged
`gen/<id>`; generation zero is the seed. A run creates children: an operator
selects a parent that already has a certified score, a worktree is forked from
it, operators propose an edit, the edit is committed and tagged, an evaluator
scores the commit in a clean checkout, a gate accepts or rejects the score, a
record operator annotates. Everything that is known about a generation is what
`archive.merge_events` makes of its lines in `archive.jsonl`; the file has a
mirror, and a receipts file beside each copy certifies the evaluations the
mechanism itself wrote. Users and outer agents call the same steps one by one
(`fork`, `invoke`, `commit`, `eval`, `retry`, `finalize`, `seal`, `record`,
`repair`). An *Agent Driven session* wraps these verbs in typed actions with a
journal and a budget; a launcher may run the controller that asks for them in a
container that reaches models only through a metered broker.

### Inventory

| Component | State it keeps | Operations | What is hard | What makes it correct | Modelled in |
| --- | --- | --- | --- | --- | --- |
| Lineage ledger, `archive.py` (merge) | one row per generation, its auxiliary evaluations | `merge_events` and helpers; the events of every caller | fields of one row come from many lines, some uncertified, repeated or late | a parent's score, attempt and purpose come from one certified evaluation; sealed scores stay out | `Archive`, `Generation` |
| Ledger files, `archive.py`, guard in `driver.py` | two archive copies, two receipts files | `append_event`, `ensure_local_archive`, `_ensure_receipts`, snapshot and restore around operators | kills between writes, readers without the lock, operators that write the file | an append-only log; an acknowledged line and its receipt are never lost | `Ledger`, `EventLog` |
| Driver, `driver.py`, `population.py` | the loop's position, tags, worktrees, attempt directories | `run`, `_run_child`, `_resume_tagged_child`, `eval_child`, gate, record, anchors, audit, `repair` | kill or interrupt anywhere, resumption from what is left, failing operators | lineage grows only from valid parents; nothing is evaluated twice; every generation settles | `Driver`, `DriverProps` |
| Outer-agent verbs, `orchestration.py`, `operators.py`, `operator_isolation.py` | worktrees of the agent, active and archived outputs, admission receipts | fork, invoke, commit, eval, retry, finalize, seal, record | other verbs run between two of the agent's; edits after a verdict | the same promises, whoever made the child; what is committed was admitted | `Driver`, `Proposal` |
| Mutation jobs, `library/_shared/runners/harbor.py`, `library/mutate/ahe.py`, `patching.py`, `surface.py` | bundle, staging, backups, job directories | `run_agent`, `_prepare_bundle`, `_install_bundle` and its undo | a paid job whose result replaces roots rename by rename | the checkout is as before or nothing is lost, unless the removal of the backups or the undo itself is cut short; nothing private leaves, nothing foul enters; a paid job is kept | `Mutation`, `Proposal` |
| Rollouts and recovery, `library/_shared/harbor/*`, `library/rollout/parent_evaluation.py`, `integrations/harbor/_recovery.py` | job directories, cases, state | a Harbor job over train tasks, the replay of a certified evaluation, `resume_job` | Harbor outlives its operator; ids are reused after a kill | evidence measures the parent's code; a finished trial is never lost | `Rollout` |
| Operator library and feedback, `library/{select,analyze,mutate,validate,record,gate}/*`, `feedback.py`, `trace_analysis.py` | manifests, reports, minibatch results in run directories | the operators of the gepa, ahe and aevolve recipes | files of different generations and parents are joined by name | a change is accepted for what it did, and judged as the change that made this parent | `Reflection`, `Driver` (gates) |
| Evaluation, `evaluation/*`, `scaffolds/evaluators/harbor/*` | attempt directories, run plan, contract, diagnostics, task snapshot, containers | `evaluate`, `classify_evaluation`, `engine.sh` | many ways to fail, signals, edits of the dataset | what runs is what was pinned; the candidate is blamed only for itself; nothing stays behind | `Evaluation` |
| Scaffolding and splits, `workspace.py`, `splits.py` | the workspace's files, the split manifest | `init_workspace`, `build_manifest`, verified copies | kills in the middle; a dataset a user edits | tasks stay on their side of the split | `Setup` |
| Agent sessions, `agent_driver.py`, `agent_research.py` | journal of receipts, active optimizer, comparison arms | `agent act`, budgets, resolution, `clone_arm`, `audit_arm_pair`, `seal_research` | kills between an effect and its receipt; repeated ids; calls that take no lock | an action takes effect once; the budget bounds the work; arms stay apart | `Session`, `Comparison` |
| Launcher, `agent_queue.py`, `agent_launcher.py`, `agent_handoff.py`, `agent_isolation.py`, `agent_observability.py` | deferred queue, import journal, controller attempts | `drive_controller`, `drain_action`, prepare and roll forward an import | kills at any write, a user's verbs and edits meanwhile | a request is carried out and acknowledged once; files survive; research comes to rest | `Progression`, `ProgressionProps` |
| Model broker and sandbox, `runtime/*` | request files, deadlines, bill | metered requests, supervised containers | duplicate requests, unknown cost, orphan containers | no request charged twice, none left running | `Sandbox` |
| Candidate snapshots, `candidate/*`; configuration and environments, `runtime/{config,environment,uv}.py`; preflight | trees, packages, runtimes | build, materialise, commit, prepare | failure attributed to the wrong party | the committed tree is the reviewed one | as steps of `Driver`, `Proposal`, `Evaluation` |
| Mutation budget, run summary, report | none | pure functions | boundaries | — | `Driver.RunPassed` (the verdict) |
| Harbor candidates, viewer, doctors, CLI, composition | — | adapters, read-only views, parsing, file copying | — | — | not modelled |

Interaction: all writing verbs are serialised by one kernel lock
(`workspace_run_lock`, `driver.py:104`), taken without waiting and released
between verbs; sessions and launchers have a lock each of the same kind.
Operators are subprocesses: they see a copy of the ledger and their effect on
the workspace's ledger files is undone. Readers (`status`, reports,
`invoke_operator` before it takes the lock) run `ensure_local_archive` without
the lock. Harbor runs in a session of its own and survives the operator that
started it. Launcher, broker, supervisor and container share directories only.

## Modules

| Module | Models | Lines of the source |
| --- | --- | --- |
| `Archive` | how a line changes a row, the lines the mechanism writes, what selection reads off a row; no variables | `archive.py`, `population.py`, `driver.py` event builders |
| `Generation` | the life of one generation in the ledger: the order in which lines may be appended, attempts, kills | `driver.py`, `archive.py` |
| `Driver` | the run, its resumption, the verbs, repair, kills and interrupts, over all generations | `driver.py`, `orchestration.py`, `git.py`, `run_summary.py` |
| `DriverProps` | the properties of `Driver`, and `Life(g)`: one `Generation` per id, which `Driver` implements | |
| `Ledger` | the four files behind the ledger, write by write | `archive.py`, `driver.py:1399-1461` |
| `EventLog` | the abstract append-only log that `Ledger` implements | |
| `Mutation` | one paid mutate run: bundle, job, checks, installation, undo | `library/_shared/runners/harbor.py` |
| `Proposal` (extends `Mutation`) | the agent's worktree from fork to commit: invocations, archived outputs, isolation, admission | `orchestration.py`, `operators.py`, `operator_isolation.py` |
| `Rollout` | Harbor jobs, their stop rules, replays, recoveries | `library/_shared/harbor/*`, `_recovery.py` |
| `Reflection` (extends `Rollout`) | what a generation learns from its parent under three recipes | `library/*`, `feedback.py`, `trace_analysis.py` |
| `Setup` | `init_workspace` and the split manifest | `workspace.py`, `splits.py` |
| `Evaluation` (extends `Setup`) | one evaluation, host and engine as two processes | `evaluation/*`, `scaffolds/evaluators/harbor/*`, `runtime/uv.py` |
| `Session` | the journal of typed actions, budgets, resolution | `agent_driver.py`, `agent_research.py` |
| `Comparison` (extends `Session`) | the cloned arm, its audit, the sealed evaluations after the finish | `agent_driver.py`, `orchestration.py` |
| `Progression` (extends `Session`) | launcher, controller, deferred queue, import journal, a user | `agent_queue.py`, `agent_launcher.py`, `agent_handoff.py`, `agent_observability.py` |
| `ProgressionProps` | the properties of `Progression` | |
| `Sandbox` | owner, broker, supervisor and controller around one container | `runtime/*`, `agent_isolation.py` |
| `Archive_proofs`, `Lineage_proofs`, `Driver_proofs`, `Session_proofs`, `Proposal_proofs`, `Sandbox_proofs`, `Evaluation_proofs`, `Reflection_proofs` | TLAPS proofs; `Lineage_proofs` is about `Generation` and about `Ledger`, whose definitions have names of their own (`LedgerSpec`, `LedgerNext`) | |
| `MC*` | values of the constants for TLC | |

`Driver` composes `Archive` for all generations: `archive[g]` is a ledger, and
`Lives` states that the whole driver, seen through the refinement mapping in
`DriverProps`, is a `Generation` for every `g`. `Generation` is therefore both
the abstract specification of what a verb may do to a generation and the module
whose invariants are proved; that the driver implements it is proved too. `Ledger` implements `EventLog` in the same sense.
The other compositions are by extension: the extending module has the variables
and actions of the other and adds parties that interleave with them.

Definitions named `X_Words` are mutants of `X`, a plausible bug each, under
which TLC finds a property violated; no specification uses them.

### How the state corresponds

`Generation` and `Driver`:

- `archive[g]` (`ledger` in `Generation`): the merged row (`row`), the task set
  of its top-level evaluation (`top`), auxiliary evaluations (`evals`), the
  lines present (`lines`; identical lines count once because every decision is
  taken after `ensure_local_archive`, which drops repetitions), and the two
  facts the driver scans raw lines for: `awaiting` (a stamp without a later gate
  line) and `attempted` (the record operator was tried).
- `commits`: the tags, and the generation each tagged commit descends from.
- `trees`, `strays`: worktrees of children under `runs/worktrees`, and others
  that a killed verb left registered with Git.
- `attempts`: attempt directories, which number the next attempt.
- `drv`: what the lock holder is doing; `Idle` when the lock is free. An action
  with `Idling` in its guard takes the lock; each later step of the verb is the
  code up to the next point where a kill would leave something different.
- `stamps`, `gated`: history. They record certified complete evaluations and the
  gate's last word since the last of them; no guard reads them.

Rows and events are functions on field names, restricted to the fields the
control flow reads. Scores are small naturals, task sets are `"dev"` and
`"sealed"`, a generation id is a pair of generation and child index, a proposal
is `"clean"`, `"dirty"` or `"committed"`. A failing operator is one that crashes,
times out or writes an invalid payload: the code treats the three alike.
`GateAccepts` has the library's `hillclimb` (strict or not) and `parent_eligible`
rules. Left out of the run summary: the integrity scan and the target score.

`Ledger`: `archive[c]` and `receipts[c]` for the two copies; `mech`, the program
counter and locals of the lock holder; one counter and locals per reader.
`open("a")` and `os.replace` are one write, `write_text` a truncation and a write.

`Mutation`, `Proposal`: `tree` is what each editable root holds, `bundle`,
`replacements`, `backups` the directories of the staging, `moved` and `installed`
the lists of `_install_bundle`; an output is the invocation that wrote it, the output it was made from and, for
an admission, the verdict and the worktree it saw. A root's content is the
parent's, one of two allowed candidates, one with a change the surface
forbids, or `"part"` of one, after a removal that stopped half-way (which may
also have left a forbidden change: a missing file). In isolated mode only mutate
changes its copy. `Discard`, `UndoInstalled` and `UndoMoved` are the steps that
succeed, `DiscardFails` and `UndoFails` those that raise; `litter` holds what a
killed run leaves in its staging. `torn` is history: an exception or a kill met the
removal of the backups, or an exception the undo; it and `origin` are forgotten when
the operator ends (`Forget`). An edit by hand writes another candidate than a job does,
a forbidden change, or the parent's files. A failing operator may leave its
outputs active.

`Rollout`, `Reflection`: a job is its tasks, the results in its directory and
whether Harbor still runs; a result is its kind. Assumed of the outside: Harbor
creates its job files at launch; a kill takes driver and operator while Harbor
survives; the worktree path is one per generation, and trials of a generation
whose worktree is gone find no candidate; edits of evidence touch the original
evaluation files, not the read-only certified copy; an AHE manifest has one
change. `failed_task_repair` artifacts are written only by tests, and
`reuse_completed` is off in every recipe.

`Setup`, `Evaluation`: a task's content is a version number that also stands for
its digest; a trial's result is one of nine kinds. Per-round sampling and
registry datasets are left out of the splits; the runtime is that of a uv-locked
candidate.

`Session`, `Comparison`, `Progression`: the journal is the sequence of action
receipts; everything else the session knows is read off it, as in the code.
Callers of the session are alike. An archive in `Comparison` is the set of arms
whose actions wrote to it, with sealed lines apart; the person works only in an
audited arm. A directory's content in `Progression` is the attempt that brought
it, or a user's edit. Session health leaves out recovered handoffs and failed
evaluations, which only add incidents.

`Sandbox`: one action per file or Docker command of the owner, the broker, the
supervisor and the controller with its bridge; Docker may fail at any command
and may still do later what a failed client asked for.

## Runs

| Run | Question | States |
| --- | --- | --- |
| `generation_candidate` | in any order of lines the guards allow, with kills between line and receipt: what makes a candidate a parent, what can change its score, what does a sealed evaluation touch | 124 143 |
| `driver_faults` | two generations, one fault at any step, one failure, repair: does the driver implement `Generation`, pay once, settle, and does resuming converge | 65 253 |
| `driver_verbs` | an agent's verbs, forced evaluations, seal and annotations between a run's steps, strict gate, all sealed anchors: does the lineage grow only from valid parents, does a verdict belong to the score beside it, are sealed tasks spent once | 1 349 608 |
| `ledger_crashes` | three appends, two operators that write or wipe the archive, two kills at any write: do the files implement an append-only log | 74 143 |
| `sessions` | typed actions with failures, kills, repeated ids and resolutions; a clone racing the session's start; two sealers after the finish | 580 959 |
| `launcher` | launcher, isolated and shell controllers, queue, import journal, a user, one kill at any write | 465 296 |
| `sandbox` | one isolated attempt, four parties, Docker that refuses or lags, one kill | 919 443 |
| `proposals` | operators in any order, an edit by hand, a paid job installed rename by rename, operators that fail and leave their outputs, one kill or exception at any step, those of the undo and of the removal of the backups included | 3 553 102 |
| `evaluations` | init and one evaluation of any kind of candidate, an edit of the dataset, one failure of network, Docker or host, or a signal | 3 945 432 |
| `observations` | three recipes over two or three generations, Harbor jobs that outlive kills, recoveries, altered evidence, another parent for the same id | 1 003 694 |

What the properties say is written above each of them, in the module they are
about. They hold. Each has a mutant, a plausible bug in one mapped definition,
under which TLC finds it violated.

Two runs show something the repository says of itself that the code contradicts
(`findings` in `PROJECT.json` has the quotes):

- `claim_gate_retained`: a gate line that repeats an earlier one word for word,
  after a retry with the same score, is dropped as a duplicate; the generation
  waits for its gate under every resumed run.
- `claim_unlocked_read`: a reader that rewrites the archive without the lock drops
  a line appended meanwhile.

### Bounds

- Two scores are enough to tell better, equal and worse; one failing outcome in
  `Driver` (`infrastructure_failed`, the only one a retry supersedes) and two in
  `Generation` (with `timeout`, which it does not).
- Two generations of one child (`driver_faults`): a run then has a parent other
  than the seed and a resumed generation. `driver_verbs` has one generation per
  run, but the agent's fork is a second child, and a second run a second parent.
- `MaxFaults` (`MaxKills` in `Progression`), `MaxFailures`, `MaxRetries` bound
  kills and interrupts, failing operators and evaluations, and forced evaluations;
  two retries give an attempt after the one that was superseded. `proposals` has one
  fault: an undo after a failed verification is then still exposed to it.
- `MaxAttempts` and `MaxLines` bound `Generation`: two attempts per purpose and
  five lines reach commit, evaluation, gate, retry and gate again.
- `MaxAppends`, `MaxOperators`, `MaxCrashes`, `MaxReads` bound `Ledger`. Two kills
  are what it takes to interrupt the recovery from the first.
- `MaxActions`, `MaxEvaluations` and `MaxCost` are the session's own limits, set so
  that each can be exhausted: of two evaluations, a pause and an adoption, at most
  two actions and one evaluation may start. An operator call is an evaluation
  without its ledger line, and resuming a paused session only forgets the pause:
  the instance asks for neither, the module and the theorems have both.
  `MaxAttempts`, `MaxCorrections` and `MaxControllerCost` are the launcher's.
- `MaxAsks` is one more than a broker with a cost limit of 1 can always serve.
- `MaxInvocations` = 5 is a full proposal of the four configured stages with one
  of them invoked again; one root and one artifact directory give an installation
  two places, so that a fault can fall between its renames. The instance does not
  invoke `select`, which archives what `rollout` does and one file more, nor
  configure `novelty`, which judges as `validate` does and keeps its receipt in a
  file of its own. The theorems have no such bounds.
- Five tasks for three splits give every rounding case of the manifest once, with
  the gate split the only one that may hold more than one task.
- Three tasks, one recovery, one fault in `observations`; only aevolve runs are
  recovered. The feedback window of eight rows never moves within `MaxGen`.

Deadlock is checked where the system never has to stop (the driver, the ledger,
the launcher). In the others the system really may: a generation whose attempts
are used up, a candidate that is committed, an evaluation with its verdict, a
session whose clones and actions are spent, a removed container.

### Fairness

- `Driver.FairSpec`: steps of a running `evolve run` happen (`WF` of `RunStep`:
  a sequential program); a run is started again while possible; `repair` is
  called, edits it reports as preserved are dealt with, and directories it will
  not touch are deleted. None of these is automatic in the code, so
  `EventuallySettled` is a claim about a user who follows the messages.
- `Progression.FairSpec`: the steps of a launcher and of an action happen, a
  launcher that raised is started again, and the user resolves what the messages
  name (interrupted actions and attempts weakly; a deferred request strongly, and
  only when no launcher holds it, because verbs in between disable it).
- `Sandbox.FairSpec`: owner, supervisor and broker make progress, and time passes
  (the deadlines are real time). Nothing is assumed of the controller or Docker.

Faults, failures, edits and kills are bounded, never fair.

## Proofs

| Theorem | Module | States | Hypothesis |
| --- | --- | --- | --- |
| `TypeCorrect` | `Lineage_proofs` | `Spec => []TypeOK` | |
| `AdmissionNeedsGate` | | `Spec => []AdmittedByGate` | |
| `EvidenceIsCertified` | | `Spec => []ParentEvidence` | |
| `AwaitingHasOutcome` | | `Spec => []AwaitingIsEvaluated` | |
| `SealedChangesNothing` | | `Spec => SealedIsInert` | |
| `CertifiedScoreIsNeverReplaced` | | `Spec => CertifiedScoreStands` | |
| `ReceiptsStand` | | `LedgerSpec => []ReceiptsSurviveKill` | `Readers = {}` |
| `AckedLinesStand` | | `LedgerSpec => []AckedStays` | `Readers = {}` |
| `OperatorsAreUndone` | | `LedgerSpec => []OperatorLeavesNoLine` | `Readers = {}` |
| `LedgerIsALog` | | `LedgerSpec => AppendOnly` (the refinement of `EventLog`) | `Readers = {}` |
| `LineageOnlyGrows` | `Driver_proofs` | `Spec => LineageGrows` | |
| `SealedTasksSpentOnce` | | `Spec => []SealedOnce` | |
| `VerdictJudgedScore` | | `Spec => []VerdictOnRecord` | |
| `PaidEvaluationsOnce` | | `Spec => []EvaluatedOnce` | `MaxRetries = 0` |
| `AdmittedStayParents` | | `Spec => ParentStays` | `MaxRetries = 0` |
| `RunsSettle` | | `Spec => []RunSettles` | `MaxRetries = 0` |
| `DriverImplementsGeneration` | | `Spec => Lives` (the refinement of `Generation`, one per generation id) | |
| `NothingRunsTwice` | `Session_proofs` | `Spec => []DispatchedOnce` | |
| `JournalAlwaysTrue` | | `Spec => []JournalIsTrue` | |
| `BudgetsAlwaysHold` | | `Spec => []BudgetsHold` | |
| `ArmsAlwaysApart` | | `Spec => []ArmsStayApart` | |
| `SealedDataOpenedOnce` | | `Spec => []SealedOnceAfterFinish` | |
| `LauncherDrivesASession` | | `ProgressionSpec => SessionSpec` | |
| `DrivenSessionIsTrue` | | `ProgressionSpec => [](JournalIsTrue /\ BudgetsHold)` | |
| `AckedStaysDone` | | `ProgressionSpec => []AckedIsDone` | |
| `ImportsAreSafe` | | `ProgressionSpec => ImportIsSafe` | |
| `StopsAreKept` | | `ProgressionSpec => NothingPaidAfterStop` | |
| `InstallsAreAtomic` | `Proposal_proofs` | `Spec => []InstallIsAtomic` | `~EditDuringVerbs` |
| `BoundaryAlwaysHolds` | | `Spec => []BoundaryHolds` | |
| `PaidJobsAreKept` | | `Spec => []PaidJobsKept` | |
| `EvidenceStaysCurrent` | | `Spec => []EvidenceIsCurrent` | |
| `CommitsWereAdmitted` | | `Spec => []CommittedWasAdmitted` | `~EditDuringVerbs` |
| `CopiedOutWhole` | `Sandbox_proofs` | `Spec => []OutputIsComplete` | |
| `BilledWhatWasCharged` | | `Spec => []BillIsTrue` | |
| `PinnedTasksRun` | `Evaluation_proofs` | `Spec => []RunsPinnedTasks` | |
| `CleanedUp` | | `Spec => []NothingLeftBehind` | |
| `VerdictsEarned` | | `Spec => []VerdictIsEarned` | |
| `TrialsStay` | `Reflection_proofs` | `Spec => []TrialsAreKept` | |
| `EvidenceMeasured` | | `Spec => []EvidenceIsMeasured` | |
| `ChangesJudged` | | `Spec => []ChangeIsJudged` | |
| `AcceptedChangesImprove` | | `Spec => []AcceptedImproves` | |

None of the properties is inductive as it stands. The strengthenings, each
checked by TLC on the module's run before it was proved:

**Generation.** `IInv` adds what the merge relies on: which fields a row can have,
and that a row whose top line has no purpose carries no outcome and no score
(`LedgerShape`, `RowShape`); that a certified, complete row shows the score,
attempt and purpose of one of the certified evaluations in `stamps`
(`RowEvidence`); that outside the genesis a valid parent was accepted by the last
gate (`RowGated`); that a generation awaiting its gate has an evaluated top line
(`AwaitingTop`); that attempt numbers never exceed those allocated and are never
used twice, so the merge drops no evaluation as a duplicate (`LinesBefore`,
`RunningShape`). The argument runs by the kinds of line: for each of the eight
lines the mechanism writes, a lemma says what `Merge` makes of a row that
satisfies `IInv`; each action then appends one of them. The lemmas about `Archive`
alone are in `Archive_proofs`, for `Generation` and `Driver` both. That a certified
score stands is an action property: of the lines that are no evaluation none but a
failed operator's touches a score, and it erases it (`PlainKeepsScore`); a further
evaluation of a candidate finds the row certified and stamped, and the merge does not
replace the stamp (`FinishKeepsScore`). For generation zero this is false, as TLC
showed when the property still included it.

**Driver.** `DriverInv` is `Control` (a run handles the generation of its slot,
within its rounds; which steps belong to which verb), `Lineage` (the worktree at
hand was forked from the parent at hand, and what is about to be tagged descends
from a valid parent and has no tag), `Naming` (generations and parents at hand
exist), `Evaluating` (a sealed evaluation in progress has no complete one before
it) and `Ledgers`, one `Standing` per generation: its rows have the fields the
merge relies on, at most one line is a complete sealed evaluation, and an accepted
verdict without a later certified evaluation names the score the row shows
(`Judged`) - a certified evaluation takes the verdict back in the same line. Since
only the lock holder moves, each action disturbs one ledger; lemmas say what each
kind of line does to `Standing`. `OnceInv` adds, for `MaxRetries = 0`, that a
candidate's evaluation shows in its row and that a parent awaits no gate
(`SpentOnce`), and that what a run has begun with is still as it was when begun:
generations `select` left out are no parents, a generation before its commit has
no tag, one at its gate awaits it, one being evaluated is not yet evaluated
(`Unfinished`). A retry is exactly what these theorems must exclude: it evaluates
again and takes the verdict back. `SettleInv` is what lets a run be believed at its
end, and rests on `OnceInv`: every ledger is `Orderly` (before its evaluation
`Unevaluated`, afterwards `Concluded`, with a verdict that names what it is), only
what is tagged is evaluated and an evaluation under way is the first of its
generation (`TopsTagged`, `JudgedTagged`), a run has dealt with the rounds and
slots behind it while what it has not dealt with in its round has a parent or is
still to be failed (`Progress`, `Dealt`), and at `final` no round is left
(`AtTheEnd`). That a generation once dealt with stays so under every step of every
verb is a lemma per action.

That the driver implements `Generation` holds for any number of retries. Every step
is of one of five kinds (`Kinds`): it leaves all ledgers and attempts alone, appends
one line, begins an evaluation, ends one with its line, or loses one without a line.
Each kind is a step of one generation and leaves the others where they are
(`KindsLive`); that a verb's step is of a kind, with the guard `Generation` asks for,
is a lemma per action (`RunLives`, `VerbLives`, `FaultLives`). They need `LifeInv`,
which adds three parts to `DriverInv`. `Paced`: what the lock holder relies on from an
earlier step is still so - the generation it judges is tagged, the one it is about to
fail is pending and will not be failed twice, the one at its gate awaits it, and the
label of an evaluation in progress is the parent its row names. `Registers`: the raw
lines and the row they merge to agree (no score without a line, a development
evaluation shows, a complete one is eligible). `Account`: of the attempts of a
generation and purpose all but one, which is running or has completed, were paid for
by a fault, a failure or a retry, so their number stays below `AttemptBound` and that
bound of the mapping forbids nothing. A retry is paid for when it is asked for and
used up when its evaluation begins, which is why the account has the debt `Owing`.

**Ledger.** The library's `Distinct` (the de-duplication of
`ensure_local_archive`) is first characterised without induction over sequences:
positions are ranked by cardinality, and lemmas say what `Distinct` keeps, what
appending or concatenating does to it, and that it undoes itself. `LedgerInv` is
`CopyShape /\ Budget /\ CopiesInv /\ ReceiptsInv /\ AckedInv /\ OperatorLeavesNoLine`:
where each of the lock holder's program counters leaves the two archive copies
(equal, one line ahead, mid-rewrite with the content in the locals, or being
restored from the snapshot), which copy of the receipts is whole, and that every
acknowledged line is in both. The refinement maps the log to the content of the
first copy as the next reader would see it; every step grows it or stutters. The
hypothesis `Readers = {}` is needed: `claim_unlocked_read` shows that with an
unlocked reader an acknowledged line is lost.

**Session and Comparison.** `SessionInv` says which receipts the journal holds,
that an id is started at most once and before it is dispatched, that counts over
started receipts bound what was begun, and that no action starts after the finish;
`SealInv` that a sealer inside the evaluation holds a generation nobody else
sealed, the baseline first; `OwnArm` follows a clone through its identity, its
archive and its audit. Counting arguments use the cardinality of sets of journal
positions. `JournalInv` is what makes the journal believable: an id is started once
and at most one is pending (`OneAtATime`); while one is, what was paid exceeds the
journal by no more than the artifacts of that action say, which is what the receipt
of a failure or of a resolution reads (`CostInv`); an optimizer is under `versions/`
before the receipt that names it (`FrozenFirst`). The cost in the journal is a sum
over it, defined by a recursive function: that the function exists, and that the
sums of two journals agree on what they share, is proved by a least
counterexample, so one more receipt adds its cost (`CostGrows`).

**Progression.** Every step of launcher, user or kill is a step of the session or
leaves it alone (`LauncherSteps`), so `SessionInv` and `JournalInv` carry over, and
what the journal says only grows (`Grown`: completed ids, exhausted reasons).
`LauncherInv` adds four parts about the launcher's own files. `QueueInv`: an
acknowledged request is completed or was released. `StopInv`: after a stop some
limit is used up for good and no attempt is open (`Spent`). `ImportInv`: a backup
under the attempt of the journal holds what the journal calls old, earlier backups
have earlier attempts, and nothing is lost. `HostFits`: what the launcher's position
says of those files, above all that after a stop it is at no place that works on an
attempt, and that what it took from the queue ends or wakes the research - or that
such a request was withdrawn. That last alternative is what the proof asked for:
`drive_controller` looks at the queue and `drain_action` reads it again, without
the session lock, and a user may release the finish in between and queue something
else. It takes two requests, so the run `launcher`, which has one, cannot show it;
an instance with two (without the isolated controller) does, and satisfies the
invariant. The theorem covers any set of requests.

**Mutation and Proposal.** `Typed` gives every program counter its state. `Kept`
says that the renames of an installation go through the
places in one order, that the moved and the installed places are prefixes of it,
and what each place, its backup and its staged content are in each phase; an undo
walks the prefixes back. `EvidenceInv` says that while an operator works no stage
from its own on has an active output, so an output is always made from the one
now active. `PaidInv` says that every paid number names a directory, and that an
archived attempt gets a number no other has - a pigeonhole over the numbers in
use. `Kept` and `WholeInv` (every place had
content when the bundle was made, so each has a backup once moved) speak of a run
only while it is not `torn`, since a removal that stops half-way leaves backups of which nothing is known, an
undo that raises leaves the checkout where it was, and the `finally` block then
deletes the backups. `InstallIsAtomic` claims nothing of such a run: that is where
the code gives up what it held (see below). `IsolationInv` follows the copy of an isolated operator; `AdmissionInv` ties
a verdict in an admission receipt to the worktree it saw. The hypothesis
`~EditDuringVerbs` says that no hand edits the worktree while a verb runs: the
workspace lock does not keep one from it, and with such edits neither a rollback
nor a receipt can be exact. `BoundaryHolds`, `PaidJobsKept` and `EvidenceIsCurrent`
need no such hypothesis.

**Sandbox.** `PartiesInOrder` says that the owner passes its wait only when its
supervisor is gone. `LastCopy`: an exited container holds what the command left, no
second container appears under it, the last copy starts from an exited one, and
`ok` means that it ended. For the bill, a receipt is open (of unknown cost) exactly
while its call is, and says afterwards what was charged or stays open
(`ReceiptsMatch`, `CallOpen`, `CallsDone`); the bill is written when the broker has
ended and nothing runs after it (`BillFinal`). Billed and charged are both `Total`
of a function from requests to costs, so equal functions give equal sums and no
induction over them is needed.

**Setup and Evaluation.** The splits are disjoint because `SeedOrder` names each task
once and the pieces are consecutive; that `InOrder` lists each given name once is
proved by ranking positions. `EvaluationInv` is `ManifestSplits` (the manifest is
written once, from the dataset of the init, before an evaluation begins),
`PlanPinned` (from the copy on, what the engine works with is the plan as pinned,
whatever is edited) and `LeftToRemove`: a copy, a container or a worktree is there
only while a step that removes it is to come, or a signal that the engine cannot
handle was among what happened.

The verdict is a matter of counting. `Classify` sees rows and never trials, so
the proof shows that the rows of `TaskVector` are as many as the trials with a
result, that no two have one id, and that when all have ended a row's id is its
trial's (`RowsCount`, `IdsDiffer`, `IdsAsPlanned`); and that a sum of rewards that
are 0 or 1 is the number of the 1s. The sum is a fold over a set: that the
recursive function behind it exists and has this value is proved by exhibiting the
count as a solution and by a smallest subset for which they would differ
(`SumOfRewards`). `VerdictInv` then needs four parts: results are of the planned
trials and only a fault explains what only a failed network or Docker explains
(`TrialsFit`); a split, and so a plan, has each task once (`TasksOnce`); without
faults and edits the manifest is that of the dataset, the copy is what was pinned
and the engine reaches its end with a row for every trial (`Undisturbed`); and
nothing a record was made from changes any more (`Recorded`).

**Rollout and Reflection.** `Shape` holds, besides the types, where the lineage, the
checkout and the operator stand at each stage, and what the job directories hold
(`JobInv`: a trial removed from one is in the backup of an attempt, or about to be,
and `recovery` names the one job whose attempt is open). Four invariants rest on it.

- `AheInv`: a replay that was not refused shows the certified results of the parent,
  read before or after but not across an edit (`ReplayInv`); the manifest of a
  committed generation is of the edit from its parent's code to its own (`AheLine`),
  so the judgement of a change compares the results of the two ends of that edit
  (`ChangeInv`). A trial's name names one task because the longest task that is a
  suffix of it is unique; that needs `ReportedAssumption`.
- `MeasureInv`: an operator that works owns its job directory (no recovery is at it,
  and each trial there is of the code in the checkout), and the cases it writes are
  of its tasks, one each, and found in results of its own trials or incomplete.
- `ImproveInv`: what a committed generation was compared by is of its parent's and of
  its own code, over the same tasks. Sums of rewards that are 0 or 1 are counts, by
  the lemma on folds used for `Evaluation`. That `select` finds a parent needs the
  survivors of GEPA's domination rounds: the recursive function that removes the
  dominated exists, and ends in a part of what it began with (`RestIsPart`).
- `EvidenceInv`: a case an agent is shown is of the parent, or, under
  `trajectory_only`, of an ancestor's rollout (`Sourced`), and the task history
  agrees with the parent's evaluation (`Told`). `Window` walks the parents back
  through recursively defined sets; `WalkExists` and `WalkIs` show that the walk
  exists for every number of cycles and stays among the ancestors, by a least
  counterexample.

Assumptions: `NoneAssumption` (of `Archive` and of `Evaluation`), `GenidAssumption`
(no generation is `None`), `GenerationAssumption`, `DriverAssumption`, `LedgerAssumption`,
`SessionAssumption`, `ComparisonAssumption`, `ProgressionAssumption`,
`ContentAssumption`, `MutationAssumption` (the editable roots are listed once each: `_editable_roots`
refuses duplicates), `JobAssumption`, `WorktreeAssumption` and
`ProposalAssumption`: types of the constants, and that `None` is no other value; `SandboxAssumption`,
`RolloutAssumption` and
`ReflectionAssumption` (vectors have finitely many tasks, manifests are pairs of task sets);
`ReportedAssumption` (the name Harbor reports for a task ends with the name of the task, and
with that of no longer one); `EvaluationAssumption` (the results of trials are among `TrialKinds`, those that
`_trial_result` tells apart) and `SetupAssumption` (`NameOrder` and every seed
order name each task once: the names are directory names, `splits.py`). TLC evaluates all of them.

Only model-checked, and why:

- everything temporal under fairness (`EventuallySettled`, `ResearchRests`,
  `Contained`, `IsolationEnds`): out of the prover's reach, with `ENABLED`.

## What the code does that a reader may not expect

Facts met while modelling. They are in the models, or named as what a model
leaves out; none is a claim of a run.

Driver and ledger:

- A failed gate erases the score of an evaluated generation; finalised after
  that, it is accepted without a score and never becomes a parent.
- A resumed generation is gated against the parent `select` names now, not the
  one it descends from. A kill between tag and commit line lets `eval` record the
  best row as the parent of a commit that descends from another.
- `repair` keeps a killed operator's temporary checkout registered, and `run`
  refuses to start until it is deleted by hand.
- A second kill while receipts files are rewritten can lose certifications (hence
  the bound in `ReceiptsSurviveKill`). For generation zero a forced re-evaluation
  may replace a certified score as long as the row has the scaffold's note (hence
  `CertifiedScoreStands` is stated for candidates).
- A forced re-evaluation that fails while the gate is pending lets the run summary
  pass although the raw lines still await the gate.
- An annotation may carry any field outside `RECORD_FORBIDDEN_FIELDS`
  (`driver.py:764-774`), `record_error` among them, which ends the wait for a gate
  (`driver.py:1151`). `Annotate` writes `audit` only; of a line with `record_error`
  the models have the one of a failing record operator (`RecordError`).
- A kill in the middle of init leaves a non-empty workspace init refuses for ever;
  one between the tag `gen/0` and its line leaves a workspace without that row.

Sessions and the sandbox:

- The host closes an exhausted budget with an action of a fixed id; if it fails,
  its receipt answers every later call and the launcher cannot close it that way
  again (`agent_queue.py:139`, against `operators.md:219`).
- Failing `resume_research` actions are not counted against the action budget,
  because a paused session is not checked (`agent_driver.py:285`).
- Between the launcher's decision to drain a finish once the controller's limits
  are used up and its reading of the queue, a user may release the finish and defer another
  request: the launcher then carries that one out after the stop
  (`agent_queue.py:166` decides, `agent_queue.py:72` reads; `StopsAreKept` excludes
  exactly this).
- A released deferred request may still be running. A kill between the receipt of
  a finish and the queue's acknowledgement leaves `session_health` at
  `handoff_ack_pending`; one between the receipt and the removal of `ACTIVE`
  leaves `evolve run` blocked. `session_health` reports neither an unpriced
  controller attempt nor an orphan attempt directory, both of which block the
  launcher.
- `clone_arm` takes no lock and writes the clone's identity last: killed before
  it, the clone shares the source's identity and mirror (`audit_arm_pair` catches
  it); a session started during the copy is copied with it, unseen by the audit.
- A `docker run` may act after "No such container" was taken for its absence. A
  sandbox failure raises out of the launcher with its attempt pending. A request
  answered 504 is still billed.

Proposals and mutation:

- The removal of the backups (`library/_shared/runners/harbor.py:590`) is inside the
  `try`: if it raises, a verified installation is undone from backups that may be
  partly deleted. An exception in the `except` block (592-603), a rename of a missing
  backup included, skips the rest of the undo; the `finally` of `run_agent`
  (1371-1373) then deletes the staging directory with the only backups. Old content
  is lost both ways (`DiscardFails`, `UndoFails`; `InstallIsAtomic` excludes exactly
  these runs). A candidate may be committed in that state.
- The outputs of an operator that fails stay active
  (`operator_isolation.py:182-184`, `orchestration.py:138-142`).
- A kill in the middle of an installation leaves the checkout mixed, with the
  replaced roots in the staging directory's backups. SIGKILL of a verb leaves its
  operator running and writing, also into the directory of a later run. An edit
  during a verb may be committed after the admission that did not see it.
- An isolated operator with a non-zero exit still has its allowed changes written
  before `invoke_operator` raises, and a deletion it asks for fails half-way if
  the file has gone meanwhile (`operator_isolation.py:175-193`).
- An unreadable `splits.json` turns the privacy check of the bundle off. A job
  directory outside the run directory makes a retry impossible. The usage of a job
  without exactly one result is reported as 0.

Evaluation:

- A candidate whose build fails only for lack of network is classified
  `candidate_invalid` (`uv.py:470-489`); so is a lock check that times out or
  finds no uv (`preflight/checks.py:37-73`).
- The cost of an interrupted paid evaluation is recorded as 0.0
  (`execution.py:300-330`). Strict attempts ignore the evaluator's exit code. The
  comparison of the runtime selection reads both sides from `run-plan.json` once
  that exists (`execution.py:369-394`).
- SIGTERM before `engine.sh` sets its trap (line 224), or during its cleanup,
  leaves the task snapshot or containers behind.

Rollouts and reflection:

- A generation whose Harbor job was killed after launch cannot roll out again
  under the same id; a job that was stopped at its trial limit, or whose owner was
  killed, cannot be recovered by `resume_job`. An interrupted rollout writes its
  cases and state and then raises.
- After a kill and another selection for the same id, AHE detail reports of the
  earlier parent are still read (`library/mutate/ahe.py:61`), `reuse_completed`
  would reuse its rollout, and debugger attempts find their directory and report
  that the analysis is unavailable.
- A predicted fix that regresses appears only as still failed, and AHE's task
  stability ignores repairs. Under `trajectory_only` the bundle declares
  `ground_truth_exposed: False` and still copies `harbor-state.json` with outcomes
  and rewards. A kill between analyze and feedback leaves no feedback.

## Not modelled, and why

- Details left out of single definitions. `Unretryable` names every failure outcome,
  `"missing"` among them; the code's `TERMINAL_STATUSES` (`driver.py:71-84`) lists
  `partial` and `rejected_admission` instead; no instance produces any of the three.
  `Progression.ApplyMove` looks at earlier directories at every rename, where
  `agent_handoff.py:71-84` looks once. `GepaAnalyze` has no `max_cases`
  (`library/analyze/gepa.py:84-86`, default 32) and `Window` no `max_observations`
  (`trace_analysis.py:690`, `712`, default 30): the shipped recipes stay within
  both. `RecoveryEnds` has no interrupted end after a failed backup
  (`integrations/harbor/_recovery.py:95-98`).
- A torn last line of the session's journal. What an operator left in the ledger when
  it or the driver was killed: `OperatorLeavesNoLine` says nothing of it
  (`AppendOnly` says that nothing of the log is lost then). A parent recorded wrongly
  after a kill between tag and line, in `Reflection`: its `Evaluate` uses the parent
  of the commit.
- The locks themselves: `flock` is taken as mutual exclusion; a verb that finds
  it taken fails without effect.
- Tags moved or ledger lines edited by hand; legacy (pre-contract) workspaces;
  per-round evaluation (the code refuses it); the optional `reflect` operator
  (best effort, no state of the mechanism).
- Payload schemas, configuration, composition, command lines, the Harbor agent
  adapters (`integrations/harbor/*_candidate.py`), the viewer and the doctors:
  parsing, one sequence of external calls, or read-only.
- The text of prompts, summaries and reports; `mutate_budget.py`; the hyperagents
  and random baselines of the library.
- The window inside `repair` between the check of a worktree for edits and its
  removal (`driver.py:462`).

## Plan

Every component that carries the program's logic is modelled, some in part as said
above, and checked; every invariant and every action property of a passing run is a
theorem, and so are the refinements (`EventLog` by `Ledger`, `Generation` by `Driver`,
`Session` by `Progression`). What is left is what
the tools do not reach: the liveness properties stay with TLC, and the theorems of
`Generation` are not restated for `Driver` - `Lives` makes each of them hold of every
generation of a workspace, but the prover cannot cite a theorem through an instance
that has a parameter.
