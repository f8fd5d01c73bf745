------------------------------- MODULE Rollout -------------------------------
(***************************************************************************)
(* The evidence a generation starts from: a Harbor job over train tasks     *)
(* (library/_shared/harbor) or the replay of the parent's certified         *)
(* evaluation (library/rollout/parent_evaluation.py), and the recovery of   *)
(* stopped Harbor jobs (integrations/harbor/_recovery.py).                  *)
(*                                                                          *)
(* Harbor runs in a session of its own: it outlives an operator that is     *)
(* killed.  A trial measures the code that is in the checkout when it       *)
(* starts.  Harbor's own resume removes the trials with the given errors    *)
(* and runs those that are missing.                                         *)
(*                                                                          *)
(* Abstractions.  A result is its kind; a reward is 0 or 1.  Trajectories,  *)
(* commands, environments and mounts are left out, as are dedicated task    *)
(* directories, reuse_completed (off in every recipe) and links inside job  *)
(* directories.  Harbor creates its files when it is launched.              *)
(***************************************************************************)
EXTENDS Integers, FiniteSets, Sequences, SequencesExt, FiniteSetsExt, TLC

CONSTANTS
  None,
  Train,          \* the train tasks in the order of the split; a name is the
                  \* sequence of the parts that "__" separates
  Reported,       \* Reported[t]: the name Harbor gives to task t
  Budget,         \* budget_tasks
  Shuffle,        \* task_sampling = "generation_shuffle"
  Kinds,          \* the results trials may have
  StopAfterErrors,
  MaxRecoveries,  \* recoveries of stopped jobs
  MaxFaults       \* kills, cancellations and edits of evidence

ASSUME RolloutAssumption ==
  /\ Train # <<>> /\ Train \in Seq(Seq(STRING)) /\ IsInjective(Train)
  /\ Range(Train) \subseteq DOMAIN Reported
  /\ {Budget, StopAfterErrors} \subseteq Nat \ {0} /\ Shuffle \in BOOLEAN
  /\ {MaxRecoveries, MaxFaults} \subseteq Nat
  /\ None \notin {"cancelled", "timed_out", "trial_limit"} /\ None \notin Nat /\ None \notin Seq(STRING)
  /\ None \notin Nat \X {"rollout", "validate"}

\* A reported name ends with that of its task, and with that of no longer one.
ASSUME ReportedAssumption ==
  \A t \in Range(Train) :
    /\ Reported[t] \in Seq(STRING) /\ IsSuffix(t, Reported[t])
    /\ \A u \in Range(Train) : IsSuffix(u, Reported[t]) => Len(u) <= Len(t)

VARIABLES
  checkout,    \* [gen, code]: the worktree of the generation under way
  jobs,        \* jobs[<<g, verb>>]: the job directory of a verb of generation g and
               \* the Harbor that writes it
  files,       \* files[k]: what the operator of k wrote
  op,          \* the rollout operator that runs, NoOp when none
  recoveries,  \* recoveries[k]: the attempts under .<job>-recovery
  recovery,    \* the job that resume_job works on, None when none
  certified,   \* certified[p]: the evaluation the archive certifies for p
  spoiled,     \* the certified files that were altered since
  finished,    \* history: every trial that ever finished in a job
  faults

rolloutVars == <<checkout, jobs, files, op, recoveries, recovery, certified, spoiled,
                 finished, faults>>

NoJob == [harbor |-> "none", tasks |-> {}, trials |-> {}, owner |-> None, cancel |-> FALSE]
NoFiles == [cases |-> None, state |-> None, summary |-> FALSE]
NoOp == [key |-> None, pc |-> "off"]

Begun(k) == jobs[k].harbor # "none"
Fault == faults < MaxFaults /\ faults' = faults + 1
OpGoes(pc) == op' = [op EXCEPT !.pc = pc]

------------------------------------------------------------------------------
(* Results, names and cases. *)

\* collect_cases with _reward and _outcome.  "raised" has a reward and an exception.
Reward(kind) == CASE kind = "pass" -> 1 [] kind \in {"fail", "raised"} -> 0 [] OTHER -> None
Outcome(kind) ==
  CASE kind = "pass" -> "passed" [] kind \in {"fail", "raised"} -> "failed"
    [] kind = "infra" -> "infra_error" [] kind = "agent" -> "agent_error" [] OTHER -> "incomplete"
Raises(kind) == kind \in {"raised", "infra", "agent"}

Case(name, kind, code) ==
  [task |-> name, outcome |-> Outcome(kind), reward |-> Reward(kind), code |-> code]

\* _canonical_task_name: None when no task of the split is meant.
Canonical(name, tasks) ==
  LET matches == {t \in tasks : IsSuffix(t, name)}
  IN  CASE name \in tasks -> name
        [] matches = {} -> None
        [] OTHER -> CHOOSE t \in matches : \A u \in matches : Len(u) <= Len(t)

\* _with_missing_result_placeholders.
Completed(observed, tasks) ==
  LET named == {IF Canonical(c.task, tasks) = None THEN c
                ELSE [c EXCEPT !.task = Canonical(c.task, tasks)] : c \in observed}
      absent == tasks \ {c.task : c \in named}
  IN  named \cup {Case(t, "missing", None) : t \in absent}

\* _select_train_tasks: the batches a generation may draw, or the one it asks for.
Batches(wanted) ==
  IF wanted # None THEN {wanted} \cap SUBSET Range(Train)
  ELSE IF Shuffle THEN kSubset(Min({Budget, Len(Train)}), Range(Train))
  ELSE {Range(SubSeq(Train, 1, Min({Budget, Len(Train)})))}

------------------------------------------------------------------------------
(* Harbor. *)

\* The worktree of a generation that is over is gone, and its trials find no candidate.
Candidate(g) == IF checkout.gen = g THEN checkout.code ELSE None

HarborTrial(k) ==
  /\ jobs[k].harbor = "running"
  /\ \E t \in jobs[k].tasks \ {x.task : x \in jobs[k].trials}, kind \in Kinds :
       LET trial == [task |-> t, kind |-> kind, code |-> Candidate(k[1]), run |-> Len(recoveries[k])]
       IN  /\ trial.code = None => Raises(kind)
           /\ jobs' = [jobs EXCEPT ![k].trials = @ \cup {trial}]
           /\ finished' = finished \cup {<<k, trial>>}
  /\ UNCHANGED <<checkout, files, op, recoveries, recovery, certified, spoiled, faults>>

\* A Harbor that leaves tasks without a result has crashed.
HarborExit(k) ==
  /\ jobs[k].harbor = "running"
  /\ jobs' = [jobs EXCEPT ![k].harbor =
                IF {x.task : x \in jobs[k].trials} = jobs[k].tasks THEN "completed" ELSE "failed"]
  /\ UNCHANGED <<checkout, files, op, recoveries, recovery, certified, spoiled, finished, faults>>

Exited(k) == jobs[k].harbor \in {"completed", "failed"}

\* A user asks for the end of a job: harbor.cancel beside its log.
Cancel(k) ==
  /\ op.key = k /\ ~jobs[k].cancel
  /\ Fault
  /\ jobs' = [jobs EXCEPT ![k].cancel = TRUE]
  /\ UNCHANGED <<checkout, files, op, recoveries, recovery, certified, spoiled, finished>>

------------------------------------------------------------------------------
(* HarborRollout: what verb k runs, for the tasks it wants (None: a batch).  *)

Harbor(k, wanted) == [pc |-> "start", key |-> k, wanted |-> wanted, why |-> None]

RolloutStart_KeepsDirectory ==
  /\ op.pc = "start"
  /\ \/ \E tasks \in Batches(op.wanted) :
          /\ jobs' = [jobs EXCEPT ![op.key].tasks = tasks]
          /\ OpGoes("launch")
     \/ Batches(op.wanted) = {} /\ OpGoes("failed") /\ UNCHANGED jobs
  /\ UNCHANGED <<checkout, files, recoveries, recovery, certified, spoiled, finished, faults>>

\* Up to the launch: the batch, and _reset_directory, which refuses a directory
\* that holds anything.
RolloutStart ==
  /\ op.pc = "start"
  /\ \/ /\ ~Begun(op.key)
        /\ \E tasks \in Batches(op.wanted) :
             jobs' = [jobs EXCEPT ![op.key].tasks = tasks]
        /\ OpGoes("launch")
     \/ /\ Begun(op.key) \/ Batches(op.wanted) = {}
        /\ OpGoes("failed") /\ UNCHANGED jobs
  /\ UNCHANGED <<checkout, files, recoveries, recovery, certified, spoiled, finished, faults>>

RunHarbor ==
  /\ op.pc = "launch"
  /\ jobs' = [jobs EXCEPT ![op.key].harbor = IF jobs[op.key].cancel THEN @ ELSE "running",
                          ![op.key].owner = IF jobs[op.key].cancel THEN "cancelled" ELSE "running"]
  /\ op' = IF jobs[op.key].cancel THEN [op EXCEPT !.pc = "collect", !.why = "cancelled"]
           ELSE [op EXCEPT !.pc = "running"]
  /\ UNCHANGED <<checkout, files, recoveries, recovery, certified, spoiled, finished, faults>>

\* _trial_stop_reason, the cancel file, the deadline: polled while Harbor runs.
MayStop(reason) ==
  CASE reason = "trial_limit" ->
         Cardinality({x \in jobs[op.key].trials : Raises(x.kind)}) >= StopAfterErrors
    [] reason = "cancelled" -> jobs[op.key].cancel
    [] reason = "timed_out" -> TRUE

StopHarbor ==
  /\ op.pc = "running" /\ ~Exited(op.key)
  /\ \E reason \in {"trial_limit", "cancelled", "timed_out"} :
       /\ MayStop(reason)
       /\ op' = [op EXCEPT !.pc = "stopping", !.why = reason]
  /\ jobs' = [jobs EXCEPT ![op.key].owner = "cancelling"]
  /\ UNCHANGED <<checkout, files, recoveries, recovery, certified, spoiled, finished, faults>>

\* Harbor has gone, by itself or by TERM and KILL: the owner records its end.
HarborGone ==
  /\ op.pc = "stopping" \/ (op.pc = "running" /\ Exited(op.key))
  /\ jobs' = [jobs EXCEPT ![op.key].harbor = IF Exited(op.key) THEN @ ELSE "failed",
                          ![op.key].owner = IF op.why # None THEN op.why ELSE jobs[op.key].harbor]
  /\ OpGoes("collect")
  /\ UNCHANGED <<checkout, files, recoveries, recovery, certified, spoiled, finished, faults>>

\* Some descendant of Harbor holds its output open: RuntimeError, and no status.
StreamHeld ==
  /\ op.pc = "stopping" \/ (op.pc = "running" /\ Exited(op.key))
  /\ Fault
  /\ jobs' = [jobs EXCEPT ![op.key].harbor = IF Exited(op.key) THEN @ ELSE "failed"]
  /\ OpGoes("failed")
  /\ UNCHANGED <<checkout, files, recoveries, recovery, certified, spoiled, finished>>

CollectCases ==
  /\ op.pc = "collect"
  /\ LET job == jobs[op.key]
         seen == {Case(Reported[x.task], x.kind, x.code) : x \in job.trials}
     IN  files' = [files EXCEPT ![op.key].cases = Completed(seen, job.tasks)]
  /\ OpGoes("state")
  /\ UNCHANGED <<checkout, jobs, recoveries, recovery, certified, spoiled, finished, faults>>

WriteHarborState ==
  /\ op.pc = "state"
  /\ files' = [files EXCEPT ![op.key].state = files[op.key].cases]
  /\ OpGoes("require")
  /\ UNCHANGED <<checkout, jobs, recoveries, recovery, certified, spoiled, finished, faults>>

\* require_rollout_cases: an interrupted job fails the operator, its files remain.
RequireCases ==
  /\ op.pc = "require"
  /\ IF op.why # None THEN OpGoes("failed") /\ UNCHANGED files
     ELSE OpGoes("done") /\ files' = [files EXCEPT ![op.key].summary = TRUE]
  /\ UNCHANGED <<checkout, jobs, recoveries, recovery, certified, spoiled, finished, faults>>

------------------------------------------------------------------------------
(* ParentEvaluationRollout: replay of the evaluation of p.  Its sources are  *)
(* the artifacts of the row, or those of an attempt and of its repair.       *)

Replay(k, p) == [pc |-> "verify", key |-> k, parent |-> p, read |-> <<>>]

\* _artifact_sources
Sources(p) == IF certified[p].repaired = {} THEN <<"base">> ELSE <<"base", "repair">>

Content(p, source) == IF source = "base" THEN certified[p].base ELSE certified[p].repair

\* The bytes of a source as they are on disk now.
OnDisk(p, source) ==
  [t \in DOMAIN Content(p, source) |->
     IF <<p, source, t>> \in spoiled THEN "spoiled" ELSE Content(p, source)[t]]

\* _verified_indexed_files: one read of every file, refused unless its digest is
\* the certified one.
VerifySource ==
  /\ op.pc = "verify"
  /\ LET source == Sources(op.parent)[Len(op.read) + 1]
         bytes == OnDisk(op.parent, source)
     IN  op' = IF bytes # Content(op.parent, source) THEN [op EXCEPT !.pc = "failed"]
               ELSE [op EXCEPT !.read = Append(@, bytes),
                               !.pc = IF Len(op.read) + 1 = Len(Sources(op.parent))
                                      THEN "materialize" ELSE "verify"]
  /\ UNCHANGED <<checkout, jobs, files, recoveries, recovery, certified, spoiled, finished, faults>>

\* _materialize_certified_jobs and the collection: the repaired tasks from the
\* repair, all others from the base.
ReplayCases(p, read, code) ==
  LET kept == {t \in DOMAIN read[1] : t \notin certified[p].repaired}
      repaired == IF Len(read) = 1 THEN {} ELSE certified[p].repaired \cap DOMAIN read[2]
  IN  {Case(t, read[1][t], code) : t \in kept} \cup {Case(t, read[2][t], code) : t \in repaired}

Materialize(code) ==
  /\ op.pc = "materialize"
  /\ LET cases == ReplayCases(op.parent, op.read, code)
     IN  IF cases = {} THEN OpGoes("failed") /\ UNCHANGED files
         ELSE /\ files' = [files EXCEPT ![op.key].cases = cases, ![op.key].summary = TRUE]
              /\ OpGoes("done")
  /\ UNCHANGED <<checkout, jobs, recoveries, recovery, certified, spoiled, finished, faults>>

\* Someone alters or truncates a file of a certified evaluation; no one sees it before
\* a replay reads the file.
SpoilEvidence ==
  /\ op.pc = "verify" /\ Fault
  /\ \E source \in Range(Sources(op.parent)) : \E t \in DOMAIN Content(op.parent, source) :
       spoiled' = spoiled \cup {<<op.parent, source, t>>}
  /\ UNCHANGED <<checkout, jobs, files, op, recoveries, recovery, certified, finished>>

------------------------------------------------------------------------------
(* resume_job: a person recovers a job whose operator is gone.               *)

Terminal == {"cancelled", "timed_out", "failed", "completed"}
Attempt == Len(recoveries[recovery])
Recovered == MapThenSumSet(LAMBDA k : Len(recoveries[k]), DOMAIN recoveries)
Receipt(k, status) == recoveries' = [recoveries EXCEPT ![k][Len(recoveries[k])].receipt = status]

RecoveryStart_AnyOwner(k) ==
  /\ recovery = None /\ Begun(k) /\ Recovered < MaxRecoveries
  /\ op.key = k => op.pc \in {"done", "failed"}
  /\ \A i \in 1..Len(recoveries[k]) : recoveries[k][i].receipt \notin {"running", "backing_up"}
  /\ recoveries' = [recoveries EXCEPT ![k] = Append(@, [receipt |-> "backing_up", backup |-> {}])]
  /\ recovery' = k
  /\ UNCHANGED <<checkout, jobs, files, op, certified, spoiled, finished, faults>>

RecoveryStart(k) ==
  /\ recovery = None /\ Begun(k) /\ Recovered < MaxRecoveries
  /\ op.key = k => op.pc \in {"done", "failed"}
  /\ \A i \in 1..Len(recoveries[k]) : recoveries[k][i].receipt \notin {"running", "backing_up"}
  /\ jobs[k].owner \in Terminal
  /\ recoveries' = [recoveries EXCEPT ![k] = Append(@, [receipt |-> "backing_up", backup |-> {}])]
  /\ recovery' = k
  /\ UNCHANGED <<checkout, jobs, files, op, certified, spoiled, finished, faults>>

BackUp ==
  /\ recovery # None /\ recoveries[recovery][Attempt].receipt = "backing_up"
  /\ recoveries' = [recoveries EXCEPT ![recovery][Attempt] =
                      [receipt |-> "running", backup |-> jobs[recovery].trials]]
  /\ UNCHANGED <<checkout, jobs, files, op, recovery, certified, spoiled, finished, faults>>

\* `harbor jobs resume` with the error types the person names.  The receipt says
\* "running" until it has ended; "resumed" tells the step.
ResumeHarbor ==
  /\ recovery # None /\ recoveries[recovery][Attempt].receipt = "running"
  /\ \E errors \in SUBSET {kind \in Kinds : Raises(kind)} \ {{}} :
       jobs' = [jobs EXCEPT ![recovery].harbor = "running",
                            ![recovery].trials = {x \in @ : x.kind \notin errors}]
  /\ recoveries' = [recoveries EXCEPT ![recovery][Attempt].receipt = "resumed"]
  /\ UNCHANGED <<checkout, files, op, recovery, certified, spoiled, finished, faults>>

\* The end of Harbor, its deadline, or an exception: run_owned leaves no process.
RecoveryEnds ==
  /\ recovery # None /\ recoveries[recovery][Attempt].receipt = "resumed"
  /\ \E status \in {"completed", "failed", "timed_out", "interrupted"} :
       /\ status \in {"completed", "failed"} => jobs[recovery].harbor = status
       /\ Receipt(recovery, status)
  /\ jobs' = [jobs EXCEPT ![recovery].harbor = IF @ = "completed" THEN @ ELSE "failed"]
  /\ recovery' = None
  /\ UNCHANGED <<checkout, files, op, certified, spoiled, finished, faults>>

\* A kill leaves the receipt as it is, and Harbor running.
KillRecovery ==
  /\ recovery # None /\ Fault
  /\ recovery' = None
  /\ recoveries' = [recoveries EXCEPT ![recovery][Attempt].receipt =
                      IF @ = "resumed" THEN "running" ELSE @]
  /\ UNCHANGED <<checkout, jobs, files, op, certified, spoiled, finished>>

------------------------------------------------------------------------------
HarborSteps == \E k \in DOMAIN jobs : HarborTrial(k) \/ HarborExit(k) \/ Cancel(k)
OperatorSteps ==
  \/ RolloutStart \/ RunHarbor \/ StopHarbor \/ HarborGone \/ StreamHeld
  \/ CollectCases \/ WriteHarborState \/ RequireCases
  \/ VerifySource
RecoverySteps ==
  \/ \E k \in DOMAIN jobs : RecoveryStart(k)
  \/ BackUp \/ ResumeHarbor \/ RecoveryEnds \/ KillRecovery
=============================================================================
