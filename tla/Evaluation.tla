----------------------------- MODULE Evaluation -----------------------------
(***************************************************************************)
(* One evaluation of one candidate (evaluation/execution.py) in a workspace *)
(* that Setup has made: contract and plan, preflight, the candidate's       *)
(* runtime, the Harbor engine (engine.sh) with its verified copy of the     *)
(* tasks, its trials and its cleanup, and the verdict.                      *)
(*                                                                          *)
(* The host and the engine are two processes.  The host waits for the       *)
(* engine; an interrupt sends SIGTERM to the engine's process tree and      *)
(* SIGKILL five seconds later.  The host itself may be killed, and then the *)
(* engine runs on.                                                          *)
(*                                                                          *)
(* Abstractions.  A trial's result is its kind; a reward is 0 or 1.         *)
(* "exception", "dependency" and "network_timeout" come from a network or   *)
(* Docker that has failed, "candidate" from a candidate whose trials raise  *)
(* its marker.  Names, prompts, environments and mounts are left out.       *)
(***************************************************************************)
EXTENDS Setup, FiniteSetsExt

CONSTANTS
  Candidates,   \* the candidates that may be evaluated
  Purposes,     \* {"candidate", "anchor"} or a part of it
  Limits,       \* task limits a caller may set; None for no limit
  Repetitions,
  PartialFloor, \* partial_floor, in percent
  TimeoutZero,  \* benchmark_timeout_is_zero
  FinalTimeout, \* whether the job's retries make a verifier timeout final
  Kinds         \* the results trials may have

TrialKinds == {"pass", "fail", "agent_timeout", "verifier_timeout", "no_reward",
               "candidate", "dependency", "network_timeout", "exception"}

ASSUME EvaluationAssumption ==
  /\ Candidates \subseteq CandidateType
  /\ Kinds \subseteq TrialKinds
  /\ Purposes \subseteq {"candidate", "anchor"}
  /\ Limits \subseteq {None} \cup (Nat \ {0})
  /\ Repetitions \in Nat \ {0} /\ PartialFloor \in 1..100
  /\ {TimeoutZero, FinalTimeout} \subseteq BOOLEAN

VARIABLES
  host,        \* evaluate: its position and arguments
  plan,        \* run-plan.json and the contract behind it
  checkout,    \* the candidate's worktree exists
  engine,      \* the evaluator's process
  pending,     \* .task-dataset.pending
  snapshot,    \* task-dataset
  jobs,        \* jobs[<<t, r>>]: the result of a trial, None before
  containers,  \* the trials whose container exists
  evidence,    \* the rows of task_vector.json, none before it is written
  record,      \* the EvaluationRecord
  happened     \* history: what came in between

evalVars == <<host, plan, checkout, engine, pending, snapshot, jobs, containers,
              evidence, record, happened>>
vars == <<setupVars, evalVars>>

Files == <<pending, snapshot, jobs, containers, evidence>>
World == <<content, edits, network, docker, faults, setup, tree>>

------------------------------------------------------------------------------
(* Trials and the verdict. *)

Trials(p) == {<<t, r>> : t \in {p.tasks[i] : i \in 1..Len(p.tasks)}, r \in 0..Repetitions - 1}

\* _trial_result, with the network-only timeout and the verifier's dependency
\* error that _load_task_trials looks for.
TrialResult(kind) ==
  LET row(status, reward, owner, raised) ==
        [status |-> status, reward |-> reward, owner |-> owner, raised |-> raised]
  IN  CASE kind = "pass" -> row("benchmark_complete", 1, "benchmark", FALSE)
        [] kind = "fail" -> row("benchmark_complete", 0, "benchmark", FALSE)
        [] kind = "agent_timeout" -> row("timeout", 0, "benchmark_agent", TRUE)
        [] kind = "network_timeout" -> row("infrastructure_failed", None, "agent_runtime", TRUE)
        [] kind = "verifier_timeout" ->
             IF FinalTimeout THEN row("timeout", 0, "benchmark_verifier", TRUE)
             ELSE row("infrastructure_failed", None, "ambiguous", TRUE)
        [] kind = "candidate" -> row("candidate_invalid", None, "candidate", TRUE)
        [] kind = "dependency" -> row("infrastructure_failed", None, "evaluator", TRUE)
        [] kind = "exception" -> row("infrastructure_failed", None, "ambiguous", TRUE)
        [] kind = "no_reward" -> row("infrastructure_failed", None, "evaluator", FALSE)

\* _build_task_vector: the trials of a task that left a result, counted from 0.
TaskVector(results) ==
  {[id |-> <<x[1], Cardinality({y \in DOMAIN results :
                      y[1] = x[1] /\ y[2] < x[2] /\ results[y] # None})>>,
    result |-> TrialResult(results[x])] : x \in {x \in DOMAIN results : results[x] # None}}

\* None is no result, no reward and no outcome.
ASSUME NoneAssumption ==
  /\ None \notin TrialKinds \cup {"candidate_invalid", "infrastructure_failed"}
  /\ None \notin {0, 1}

\* normalize_task_vector: what a reader of task_vector.json accepts.  A reward
\* belongs to a trial that counts, or to one that says why it does not.
Diagnosed(r) == r.raised \/ r.status \in {"candidate_invalid", "infrastructure_failed"}

Counted(r) ==
  r.status = "benchmark_complete" \/ (r.status = "timeout" /\ r.owner = "benchmark_agent")

WellFormed(vector) ==
  /\ \A v, w \in vector : (v.id = w.id) => (v = w)
  /\ \A v \in vector : IF Counted(v.result) THEN v.result.reward # None
                        ELSE v.result.reward = None \/ Diagnosed(v.result)

\* materialize_missing_trials
Materialized(p, vector) ==
  vector \cup {[id |-> x, result |-> [status |-> "missing", reward |-> None,
                                      owner |-> "evaluator", raised |-> FALSE]] :
               x \in Trials(p) \ {v.id : v \in vector}}

\* materialize_setup_failure for a candidate at fault.
AllInvalid(p) ==
  {[id |-> x, result |-> [status |-> "candidate_invalid", reward |-> None,
                          owner |-> "candidate", raised |-> FALSE]] : x \in Trials(p)}

ContractTrials(p, vector) == IF p.strict THEN Materialized(p, vector) ELSE vector

\* effective_trial_outcome
Effective(r) ==
  IF r.status = "timeout" /\ r.owner \in {"benchmark_agent", "benchmark_verifier"} THEN "timeout"
  ELSE IF r.raised
  THEN IF r.owner = "candidate" THEN "candidate_invalid" ELSE "infrastructure_failed"
  ELSE IF r.status = "candidate_invalid" /\ r.owner # "candidate" THEN "infrastructure_failed"
  ELSE r.status

ScoreEligible(r) ==
  /\ Effective(r) \notin {"infrastructure_failed", "candidate_invalid"}
  /\ r.reward # None
  /\ \/ r.status = "benchmark_complete"
     \/ /\ r.status = "timeout" /\ TimeoutZero
        /\ r.owner \in {"benchmark_agent", "benchmark_verifier"}

Classify_ByObserved(p, trials, cause) ==
  LET outcomes == {Effective(v.result) : v \in trials}
      scoreable == {v \in trials : ScoreEligible(v.result)}
      outcome ==
        CASE cause = "infrastructure_failed" -> "infrastructure_failed"
          [] "candidate_invalid" \in outcomes \cup {cause} -> "candidate_invalid"
          [] scoreable # {}
               /\ Cardinality(scoreable) * 100
                    >= PartialFloor * Cardinality({v \in trials : v.result.status # "missing"})
             -> "complete"
          [] OTHER -> "infrastructure_failed"
  IN  [outcome |-> outcome, trials |-> trials,
       total |-> IF outcome # "complete" THEN None
                 ELSE MapThenSumSet(LAMBDA v : v.result.reward, scoreable)]

\* classify_evaluation: the score times the number of expected trials.
Classify(p, trials, cause) ==
  LET outcomes == {Effective(v.result) : v \in trials}
      scoreable == {v \in trials : ScoreEligible(v.result)}
      expected == Cardinality(Trials(p))
      outcome ==
        CASE cause = "infrastructure_failed" -> "infrastructure_failed"
          [] cause # "infrastructure_failed"
               /\ "candidate_invalid" \in outcomes \cup {cause} -> "candidate_invalid"
          [] OTHER ->
               IF Cardinality(trials) > expected THEN "infrastructure_failed"
               ELSE IF scoreable # {} /\ Cardinality(scoreable) * 100 >= PartialFloor * expected
               THEN "complete"
               ELSE IF outcomes \cap {"infrastructure_failed", "missing"} # {}
                       \/ Cardinality(trials) # expected
               THEN "infrastructure_failed" ELSE "timeout"
  IN  [outcome |-> outcome, trials |-> trials,
       total |-> IF outcome = "complete"
                 THEN MapThenSumSet(LAMBDA v : v.result.reward, scoreable) ELSE None]

------------------------------------------------------------------------------
(* The host: evaluate. *)

NoPlan == [tasks |-> << >>, strict |-> FALSE]

\* A finished init, or a workspace of an older version, without runtime.json.
InitEvaluation ==
  /\ InitSetup
  /\ host = [pc |-> "idle", candidate |-> None, purpose |-> None, limit |-> None]
  /\ plan = NoPlan /\ checkout = FALSE
  /\ engine = [pc |-> "off", rc |-> 0]
  /\ pending = None /\ snapshot = None
  /\ jobs = << >> /\ containers = {} /\ evidence = {}
  /\ record = None
  /\ happened = {}

OlderWorkspace ==
  /\ setup.pc = "done" /\ host.pc = "idle" /\ tree.runtime
  /\ tree' = [tree EXCEPT !.runtime = FALSE]
  /\ UNCHANGED <<content, edits, network, docker, faults, setup, evalVars>>

Goto(pc) == host' = [host EXCEPT !.pc = pc]

\* The end of an attempt: the worktree is removed before the record is returned.
Conclude(verdict) == record' = verdict /\ checkout' = FALSE /\ Goto("over")

\* Up to the worktree: the workspace must be tagged, and the candidate's
\* evaluator be generation zero's.
Evaluate ==
  /\ host.pc = "idle" /\ tree.tag # None /\ setup.pc \in {"done", "dead"}
  /\ \E c \in Candidates \cup {tree.tag}, purpose \in Purposes, limit \in Limits :
       host' = [pc |-> IF c.meddles THEN "over" ELSE "plan",
                candidate |-> c, purpose |-> purpose, limit |-> limit]
  /\ checkout' = (host'.pc = "plan")
  /\ UNCHANGED <<World, plan, engine, Files, record, happened>>

EvaluationSplit(purpose) == IF purpose = "anchor" THEN "sealed" ELSE "gate"

\* resolve_evaluation_contract: what generation zero's manifest selects.  In an
\* older workspace effective_task_set_identity selects the same.
ContractTasks == Selected(tree.manifest, EvaluationSplit(host.purpose), host.limit)

\* The attempt directory with its plan; a split without tasks raises before there
\* is an attempt.
PlanAttempt ==
  /\ host.pc = "plan"
  /\ IF ContractTasks = << >>
     THEN UNCHANGED plan /\ checkout' = FALSE /\ Goto("over")
     ELSE /\ plan' = [tasks |-> ContractTasks, strict |-> tree.runtime]
          /\ UNCHANGED checkout /\ Goto(IF tree.runtime THEN "preflight" ELSE "python")
  /\ UNCHANGED <<World, engine, Files, record, happened>>

Infrastructure == Classify(plan, ContractTrials(plan, {}), "infrastructure_failed")

Invalid == Classify(plan, IF plan.strict THEN AllInvalid(plan) ELSE {}, "candidate_invalid")

\* run_preflight, its checks in order: configuration, tools, the candidate's lock,
\* credentials.  A lock check that cannot run or takes too long counts as a bad lock.
Preflight ==
  /\ host.pc = "preflight"
  /\ \/ /\ host.candidate.lock = "fresh" /\ Goto("python")
        /\ UNCHANGED <<record, checkout, faults, happened>>
     \/ /\ host.candidate.lock # "fresh" /\ Conclude(Invalid)
        /\ UNCHANGED <<faults, happened>>
     \/ /\ faults < MaxFaults /\ faults' = faults + 1
        /\ \/ Conclude(Infrastructure) /\ UNCHANGED happened
           \/ Conclude(Invalid) /\ happened' = happened \cup {"no lock check"}
  /\ UNCHANGED <<content, edits, network, docker, setup, tree, plan, engine, Files>>

\* _finish_runtime: the receipt of a runtime that is not ready, and its outcome.
RuntimeFails(outcome) ==
  Conclude(IF outcome = "candidate_invalid" THEN Invalid ELSE Infrastructure)

\* _finish_ready_runtime
RuntimeReady == Goto("ready") /\ UNCHANGED <<record, checkout>>

\* prepare_candidate_runtime, up to the check of the lock.  What is cached needs
\* no network.
PreparePython ==
  /\ host.pc = "python"
  /\ \E cached \in BOOLEAN :
       IF host.candidate.lock = "missing" THEN RuntimeFails("candidate_invalid")
       ELSE IF ~network /\ ~cached THEN RuntimeFails("infrastructure_failed")
       ELSE IF host.candidate.lock = "stale" THEN RuntimeFails("candidate_invalid")
       ELSE \E warm \in BOOLEAN : Goto(IF warm THEN "build" ELSE "sync")
                                  /\ UNCHANGED <<record, checkout>>
  /\ UNCHANGED <<World, plan, engine, Files, happened>>

\* The dependencies that are not cached, in at most two attempts.
SyncDependencies ==
  /\ host.pc \in {"sync", "resync"}
  /\ IF network THEN Goto("build") /\ UNCHANGED <<record, checkout>>
     ELSE IF host.pc = "sync" THEN Goto("resync") /\ UNCHANGED <<record, checkout>>
     ELSE RuntimeFails("infrastructure_failed")
  /\ UNCHANGED <<World, plan, engine, Files, happened>>

\* The candidate's own project, offline and then online: a build that misses
\* only the network is the candidate's fault all the same.
BuildProject ==
  /\ host.pc = "build"
  /\ \E offline \in BOOLEAN :
       IF host.candidate.builds /\ (offline \/ network)
       THEN RuntimeReady /\ UNCHANGED happened
       ELSE /\ RuntimeFails("candidate_invalid")
            /\ happened' = happened \cup (IF host.candidate.builds THEN {"no network"} ELSE {})
  /\ UNCHANGED <<World, plan, engine, Files>>

\* _run_eval_script: the environment of the evaluator, its start and the wait.
LaunchEngine ==
  /\ host.pc = "ready"
  /\ Goto("wait") /\ engine' = [pc |-> "select", rc |-> 0]
  /\ UNCHANGED <<World, plan, checkout, Files, record, happened>>

\* trial_results of read_task_vector: a vector that does not parse is no evidence.
ReadTrials == IF WellFormed(evidence) THEN evidence ELSE {}

\* The rest of evaluate: the evaluator's exit code counts only when trials are
\* missing and no candidate is to blame.
CollectEvidence ==
  /\ host.pc = "wait" /\ engine.pc = "gone"
  /\ LET trials == ContractTrials(plan, ReadTrials)
         owned == \E v \in trials : v.result.owner = "candidate"
         unread == ~WellFormed(evidence)
         failed == /\ engine.rc \notin {0, 2} /\ ~owned
                   /\ Cardinality(trials) # Cardinality(Trials(plan))
     IN  Conclude(Classify(plan, trials,
                           IF unread \/ failed THEN "infrastructure_failed" ELSE None))
  /\ UNCHANGED <<World, plan, engine, Files, happened>>

\* An exception within an attempt, of whatever origin.
RaiseError ==
  /\ host.pc \in {"preflight", "python", "sync", "resync", "build", "ready"}
  /\ faults < MaxFaults /\ faults' = faults + 1
  /\ Conclude(Infrastructure)
  /\ UNCHANGED <<content, edits, network, docker, setup, tree, plan, engine, Files, happened>>

Cancelled == [outcome |-> "cancelled", trials |-> ContractTrials(plan, {}), total |-> None]

\* Ctrl-C.  Before there is an attempt it leaves no record.
Interrupt ==
  /\ faults < MaxFaults /\ faults' = faults + 1
  /\ happened' = happened \cup {"interrupt"}
  /\ \/ /\ host.pc = "plan"
        /\ checkout' = FALSE /\ Goto("over") /\ UNCHANGED record
     \/ /\ host.pc \in {"preflight", "python", "sync", "resync", "build", "ready"}
        /\ Conclude(Cancelled)
     \/ /\ host.pc = "wait" /\ engine.pc # "gone"
        /\ Goto("terminate") /\ UNCHANGED <<record, checkout>>
  /\ UNCHANGED <<content, edits, network, docker, setup, tree, plan, engine, Files>>

KillHost ==
  /\ faults < MaxFaults /\ faults' = faults + 1
  /\ host.pc \notin {"idle", "over", "dead"} /\ Goto("dead")
  /\ UNCHANGED <<content, edits, network, docker, setup, tree, plan, checkout, engine,
                 Files, record, happened>>

\* The end of run_owned after an interrupt.
Terminated ==
  /\ host.pc = "terminated" /\ engine.pc = "gone"
  /\ Conclude(Cancelled)
  /\ UNCHANGED <<World, plan, engine, Files, happened>>

------------------------------------------------------------------------------
(* The engine: engine.sh and what it runs. *)

Move(pc) == engine' = [engine EXCEPT !.pc = pc]

\* An error of the shell script: it leaves by its EXIT trap.
Fail(pc) == engine' = [pc |-> pc, rc |-> 3]

PlannedTasks == {plan.tasks[i] : i \in 1..Len(plan.tasks)}
Expected == [t \in PlannedTasks |-> tree.manifest.digests[t]]

\* select_dataset_tasks: names and contents must be those of the manifest.
SelectTasks ==
  /\ engine.pc = "select"
  /\ IF /\ DOMAIN TaskDigests(content) = DOMAIN tree.manifest.digests
        /\ \A t \in PlannedTasks : content[t] = tree.manifest.digests[t]
     THEN Move("copy") /\ pending' = << >>
     ELSE Fail("unsnap") /\ UNCHANGED pending
  /\ UNCHANGED <<World, host, plan, checkout, snapshot, jobs, containers, evidence, record,
                 happened>>

\* _snapshot_selected_tasks: the tasks are copied one after the other and the
\* copy is checked before it gets its name.
CopyTask ==
  /\ engine.pc = "copy" /\ DOMAIN pending # PlannedTasks
  /\ LET t == CHOOSE t \in PlannedTasks \ DOMAIN pending : TRUE IN
     IF content[t] = None THEN Fail("unsnap") /\ pending' = None
     ELSE pending' = [x \in DOMAIN pending \cup {t} |-> IF x = t THEN content[t] ELSE pending[x]]
          /\ UNCHANGED engine
  /\ UNCHANGED <<World, host, plan, checkout, snapshot, jobs, containers, evidence, record,
                 happened>>

CheckCopy_Trusts ==
  /\ engine.pc = "copy" /\ DOMAIN pending = PlannedTasks
  /\ snapshot' = pending /\ pending' = None /\ Move("prepare")
  /\ UNCHANGED <<World, host, plan, checkout, jobs, containers, evidence, record, happened>>

CheckCopy ==
  /\ engine.pc = "copy" /\ DOMAIN pending = PlannedTasks
  /\ pending' = None
  /\ IF pending = Expected THEN snapshot' = pending /\ Move("prepare")
     ELSE UNCHANGED snapshot /\ Fail("unsnap")
  /\ UNCHANGED <<World, host, plan, checkout, jobs, containers, evidence, record, happened>>

\* From the plan's task file to the jobs directory and the traps: the evaluator's
\* own runtime may fail to be prepared.
PrepareJobs ==
  /\ engine.pc = "prepare"
  /\ \/ /\ Move("harbor") /\ jobs' = [x \in Trials(plan) |-> None]
        /\ UNCHANGED faults
     \/ /\ faults < MaxFaults /\ faults' = faults + 1
        /\ Fail("unsnap") /\ UNCHANGED jobs
  /\ UNCHANGED <<content, edits, network, docker, setup, tree, host, plan, checkout, pending,
                 snapshot, containers, evidence, record, happened>>

\* harbor run: a trial's container, if Docker gives it one, and its result.
StartTrial ==
  /\ engine.pc = "harbor"
  /\ \E x \in DOMAIN jobs :
       /\ jobs[x] = None /\ x \notin containers
       /\ IF docker THEN containers' = containers \cup {x} /\ UNCHANGED jobs
          ELSE jobs' = [jobs EXCEPT ![x] = "exception"] /\ UNCHANGED containers
  /\ UNCHANGED <<World, host, plan, checkout, engine, pending, snapshot, evidence, record,
                 happened>>

Possible(kind) ==
  /\ kind \in {"exception", "dependency", "network_timeout"} => ~network \/ ~docker
  /\ kind = "candidate" => host.candidate.crashes

EndTrial ==
  /\ engine.pc = "harbor"
  /\ \E x \in containers, kind \in Kinds :
       /\ Possible(kind)
       /\ jobs' = [jobs EXCEPT ![x] = kind]
       /\ containers' = IF docker THEN containers \ {x} ELSE containers
  /\ UNCHANGED <<World, host, plan, checkout, engine, pending, snapshot, evidence, record,
                 happened>>

\* Harbor ends, or dies among its trials.
EndHarbor ==
  /\ engine.pc = "harbor"
  /\ \/ (\A x \in DOMAIN jobs : jobs[x] # None) /\ UNCHANGED faults
     \/ faults < MaxFaults /\ faults' = faults + 1
  /\ Move("parse")
  /\ UNCHANGED <<content, edits, network, docker, setup, tree, host, plan, checkout, Files,
                 record, happened>>

\* parse_score.py: the vector, and 3 when rewards are missing.
ParseScore ==
  /\ engine.pc = "parse"
  /\ evidence' = TaskVector(jobs)
  /\ LET rewards == {v \in evidence' : v.result.reward # None} IN
     engine' = [pc |-> "cleanup",
                rc |-> IF Cardinality(rewards) < Cardinality(Trials(plan)) THEN 3 ELSE 0]
  /\ UNCHANGED <<World, host, plan, checkout, pending, snapshot, jobs, containers, record,
                 happened>>

Cleanup_SkipsOnFailure ==
  /\ engine.pc = "cleanup"
  /\ containers' = IF docker /\ engine.rc = 0 THEN {} ELSE containers
  /\ happened' = IF docker THEN happened ELSE happened \cup {"no docker"}
  /\ Move("unsnap")
  /\ UNCHANGED <<World, host, plan, checkout, pending, snapshot, jobs, evidence, record>>

\* cleanup_harbor: what Docker refuses is let be.
Cleanup ==
  /\ engine.pc = "cleanup"
  /\ containers' = IF docker THEN {} ELSE containers
  /\ happened' = IF docker THEN happened ELSE happened \cup {"no docker"}
  /\ Move("unsnap")
  /\ UNCHANGED <<World, host, plan, checkout, pending, snapshot, jobs, evidence, record>>

\* cleanup_dataset_snapshot
RemoveSnapshot ==
  /\ engine.pc = "unsnap"
  /\ pending' = None /\ snapshot' = None
  /\ Move("gone")
  /\ UNCHANGED <<World, host, plan, checkout, jobs, containers, evidence, record, happened>>

\* SIGTERM to the engine and all it runs.  Once its traps are set the script
\* cleans up; before, and while it cleans up, the signal ends it.
Terminate ==
  /\ host.pc = "terminate" /\ Goto("terminated")
  /\ CASE engine.pc \in {"harbor", "parse"} ->
            engine' = [pc |-> "cleanup", rc |-> 143] /\ UNCHANGED happened
       [] engine.pc \in {"select", "copy", "prepare", "cleanup", "unsnap"} ->
            /\ engine' = [pc |-> "gone", rc |-> 143]
            /\ happened' = happened \cup {"untrapped"}
       [] OTHER -> UNCHANGED <<engine, happened>>
  /\ UNCHANGED <<World, plan, checkout, Files, record>>

\* SIGKILL, when five seconds have passed.
Escalate ==
  /\ host.pc = "terminated" /\ engine.pc # "gone"
  /\ engine' = [pc |-> "gone", rc |-> 137]
  /\ happened' = happened \cup {"killed"}
  /\ UNCHANGED <<World, host, plan, checkout, Files, record>>

------------------------------------------------------------------------------

NetworkFails ==
  /\ network /\ faults < MaxFaults /\ faults' = faults + 1
  /\ network' = FALSE
  /\ UNCHANGED <<content, edits, docker, setup, tree, evalVars>>

DockerFails ==
  /\ docker /\ faults < MaxFaults /\ faults' = faults + 1
  /\ docker' = FALSE
  /\ UNCHANGED <<content, edits, network, setup, tree, evalVars>>

Recovers ==
  /\ ~network \/ ~docker
  /\ network' = TRUE /\ docker' = TRUE
  /\ UNCHANGED <<content, edits, faults, setup, tree, evalVars>>

HostStep == \/ Evaluate \/ PlanAttempt \/ Preflight \/ PreparePython \/ SyncDependencies
            \/ BuildProject \/ LaunchEngine \/ CollectEvidence \/ Terminated

EngineStep == \/ SelectTasks \/ CopyTask \/ CheckCopy \/ PrepareJobs
              \/ StartTrial \/ EndTrial \/ EndHarbor \/ ParseScore
              \/ Cleanup \/ RemoveSnapshot

Next ==
  \/ (InitStep \/ KillInit \/ EditDataset) /\ UNCHANGED evalVars
  \/ OlderWorkspace \/ HostStep \/ EngineStep
  \/ RaiseError \/ Interrupt \/ Terminate \/ Escalate \/ KillHost
  \/ NetworkFails \/ DockerFails \/ Recovers

Spec == InitEvaluation /\ [][Next]_vars
------------------------------------------------------------------------------
(* Properties. *)

\* What Harbor runs is the task as the split manifest pinned it at init, of the
\* split the evaluation is for and of no other, whatever a user does to the
\* dataset before, during or after the copy (splits.py, _snapshot_selected_tasks).
RunsPinnedTasks ==
  engine.pc \in {"harbor", "parse"} =>
    LET home == EvaluationSplit(host.purpose)
        members(s) == {tree.manifest.tasks[s][i] : i \in 1..Len(tree.manifest.tasks[s])}
    IN  /\ snapshot = Expected
        /\ PlannedTasks \subseteq members(home)
        /\ \A s \in SplitNames \ {home} : PlannedTasks \cap members(s) = {}

\* The verdict follows from what happened to the planned trials: a score counts
\* the passes over the plan and not over what was seen, blame for the candidate
\* needs a defect of the candidate (or a build that missed the network or a lock
\* check that failed for itself, see BuildProject and Preflight), and a sound
\* candidate without faults is never put down to the infrastructure (results.py,
\* classify_evaluation; execution.py).  And the host reads every vector that the
\* engine's own parser writes, so no trial is thrown away for its form.
VerdictIsEarned ==
  /\ WellFormed(evidence)
  /\ record # None =>
       LET of(kinds) == {x \in DOMAIN jobs : jobs[x] \in kinds}
           zeros == {"fail"} \cup (IF TimeoutZero THEN {"agent_timeout"} ELSE {})
                             \cup (IF TimeoutZero /\ FinalTimeout THEN {"verifier_timeout"} ELSE {})
       IN  /\ record.outcome = "complete" =>
                /\ DOMAIN jobs = Trials(plan) /\ of({"candidate"}) = {}
                /\ record.total = Cardinality(of({"pass"}))
                /\ Cardinality(of({"pass"} \cup zeros)) * 100
                     >= PartialFloor * Len(plan.tasks) * Repetitions
           /\ record.outcome = "candidate_invalid" =>
                \/ host.candidate.lock # "fresh" \/ ~host.candidate.builds
                \/ happened \cap {"no network", "no lock check"} # {}
                \/ host.candidate.crashes /\ of({"candidate"}) # {}
           /\ record.outcome = "infrastructure_failed" =>
                faults + edits > 0 \/ of({"no_reward", "verifier_timeout"}) # {}
           /\ record.outcome = "timeout" => of({"agent_timeout", "verifier_timeout"}) # {}
           /\ record.outcome = "cancelled" => "interrupt" \in happened

\* When the host and the engine are both gone, an evaluation leaves no copy of
\* the tasks and no container, and no worktree unless the host was killed.  The
\* exceptions are the engine's own: a signal before its traps are set or while
\* it cleans up, SIGKILL, a Docker that refuses (engine.sh, the traps).
NothingLeftBehind ==
  host.pc \in {"over", "dead"} /\ engine.pc \in {"off", "gone"} =>
    /\ host.pc = "over" => ~checkout
    /\ happened \cap {"killed", "untrapped"} = {} => pending = None /\ snapshot = None
    /\ happened \cap {"killed", "untrapped", "no docker"} = {} => containers = {}
==============================================================================
