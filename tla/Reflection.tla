------------------------------ MODULE Reflection ------------------------------
(***************************************************************************)
(* What a generation learns from its parent, in three recipes: "gepa"       *)
(* (pareto, harbor, gepa, gepa, minibatch_improvement, gepa), "ahe"         *)
(* (ahe_latest, parent_evaluation, ahe, ahe) and "aevolve" (greedy, harbor, *)
(* trajectory_only, aevolve).  A run that is killed is repaired and resumed *)
(* and then selects anew, for the same id and in the same run directory,    *)
(* which nothing clears.                                                    *)
(*                                                                          *)
(* Abstractions.  The stages of a generation around these operators are     *)
(* those of Driver: here an evaluation gives any of the Vectors and a gate  *)
(* any verdict.  A candidate's code is the pair of its generation and the   *)
(* number of its edit.  Texts are what they were made from; the limits on   *)
(* their length are left out.                                               *)
(***************************************************************************)
EXTENDS Rollout

CONSTANTS
  Recipes,
  MaxGen,          \* MaxGen[r]: the last generation of recipe r
  Vectors,         \* what a complete evaluation may find: name -> kind
  FirstVectors,    \* what that of generation 0 found
  Manifests,       \* what an AHE change may predict: [predicted, risks]
  MaxTasks,        \* max_tasks of the AHE analysis
  DebuggerRetries, \* debugger_max_retries
  Criterion,       \* criterion of minibatch_improvement
  HistoryCycles,   \* history_cycles of trajectory_only
  RecoveredIn      \* the recipes in whose runs a person recovers jobs: a bound

ASSUME ReflectionAssumption ==
  /\ Recipes \subseteq {"gepa", "ahe", "aevolve"}
  /\ \A r \in Recipes : MaxGen[r] \in Nat \ {0, 1}
  /\ Criterion \in {"strict", "non_decreasing"}
  /\ DebuggerRetries \in Nat /\ {MaxTasks, HistoryCycles} \subseteq Nat \ {0}
  /\ \A v \in Vectors \cup FirstVectors : IsFiniteSet(DOMAIN v)
  /\ Manifests \subseteq [predicted : SUBSET Seq(STRING), risks : SUBSET Seq(STRING)]
  /\ None \notin [predicted : SUBSET Seq(STRING), risks : SUBSET Seq(STRING),
                  from : Nat \X Nat, to : Nat \X Nat]
  /\ None \notin [parent : Nat \cup {None}, code : Nat \X Nat, valid : BOOLEAN]

VARIABLES
  recipe,
  archive,   \* archive[g]: parent, code and validity of a committed generation
  gen,       \* the generation under way
  pc,        \* its stage
  parent,    \* the parent selected for it
  work,      \* what the analysis under way holds in memory, and its overview,
             \* which no other generation reads
  runs       \* runs[g]: the files of its run directory beyond the rollout

reflectionVars == <<recipe, archive, gen, pc, parent, work, runs>>
vars == <<rolloutVars, reflectionVars>>

Gens == 0..Max({MaxGen[r] : r \in Recipes})
Keys == (Gens \ {0, 1}) \X {"rollout", "validate"}
NoRun == [evidence |-> None, details |-> <<>>, change |-> None, tried |-> <<>>,
          feedback |-> None, manifest |-> None, edits |-> 0, comparison |-> None,
          experience |-> None]
NoWork == [jobs |-> {}, running |-> {}, reports |-> <<>>, stability |-> <<>>]

Here == <<gen, "rollout">>
Code(g) == archive[g].code
Cases(g) == files[<<g, "rollout">>].cases

------------------------------------------------------------------------------
(* Selection. *)

ValidParents == {p \in DOMAIN archive : archive[p] # None /\ archive[p].valid}

Final(p) ==
  [t \in DOMAIN certified[p].base |->
     IF t \in certified[p].repaired THEN certified[p].repair[t] ELSE certified[p].base[t]]
Scored(p) == {t \in DOMAIN Final(p) : Reward(Final(p)[t]) # None}
Score(p) == SumFunction([t \in Scored(p) |-> Reward(Final(p)[t])])

\* pareto_frontiers: for each task that has a score, the parents with the best.
Fronts(parents) ==
  LET tasks == UNION {Scored(p) : p \in parents}
      at(t) == {p \in parents : t \in Scored(p)}
  IN  [t \in tasks |-> {p \in at(t) : \A q \in at(t) :
                          Reward(Final(q)[t]) <= Reward(Final(p)[t])}]

Dominated(p, survivors, fronts) ==
  \A t \in DOMAIN fronts : p \in fronts[t] => fronts[t] \cap survivors # {}

\* remove_dominated: the lowest score first, from the start after each removal.
Survivors(fronts) ==
  LET all == UNION {fronts[t] : t \in DOMAIN fronts}
      before(p, q) == Score(p) < Score(q) \/ (Score(p) = Score(q) /\ p < q)
      prune[alive \in SUBSET all] ==
        LET out == {p \in alive : Dominated(p, alive \ {p}, fronts)}
        IN  IF out = {} THEN alive
            ELSE prune[alive \ {CHOOSE p \in out : \A q \in out \ {p} : before(p, q)}]
  IN  prune[all]

Best == {p \in ValidParents : \A q \in ValidParents : Score(q) <= Score(p)}

\* ParetoSelect draws a survivor, each with a weight; without any task score, one of
\* the best.
ParetoPicks ==
  IF UNION {Scored(p) : p \in ValidParents} # {} THEN Survivors(Fronts(ValidParents)) ELSE Best

\* AheLatestSelect takes the newest, GreedySelect the first of the best.
LatestPicks == {Max(ValidParents)}
GreedyPicks == {Min(Best)}

Picks ==
  CASE recipe = "gepa" -> ParetoPicks
    [] recipe = "ahe" -> LatestPicks
    [] recipe = "aevolve" -> GreedyPicks

Select ==
  /\ pc = "select" /\ ValidParents # {}
  /\ \E p \in Picks :
       /\ parent' = p /\ checkout' = [gen |-> gen, code |-> Code(p)]
       /\ op' = IF recipe = "ahe" THEN Replay(Here, p) ELSE Harbor(Here, None)
  /\ pc' = "rollout"
  /\ UNCHANGED <<jobs, files, recoveries, recovery, certified, spoiled, finished, faults,
                 recipe, archive, gen, work, runs>>

\* A stage that fails ends the generation; the run goes on with the next.
NextGeneration ==
  /\ IF gen < MaxGen[recipe] THEN gen' = gen + 1 /\ pc' = "select" ELSE pc' = "end" /\ UNCHANGED gen
  /\ parent' = None /\ op' = NoOp /\ work' = NoWork

RolloutDone ==
  /\ pc = "rollout" /\ op.pc = "done"
  /\ pc' = "analyze" /\ op' = NoOp
  /\ UNCHANGED <<checkout, jobs, files, recoveries, recovery, certified, spoiled, finished, faults,
                 recipe, archive, gen, parent, work, runs>>

RolloutFailed ==
  /\ pc \in {"rollout", "validate"} /\ op.pc = "failed"
  /\ NextGeneration
  /\ UNCHANGED <<checkout, jobs, files, recoveries, recovery, certified, spoiled, finished, faults,
                 recipe, archive, runs>>

------------------------------------------------------------------------------
(* Analysis.  Its evidence is the cases it was made from. *)

Quiet == UNCHANGED <<checkout, jobs, files, op, recoveries, recovery, certified, spoiled,
                     finished, faults, recipe, archive, gen, parent>>

\* GepaAnalyze: one reflective record per case, the same for every component.
GepaAnalyze ==
  /\ pc = "analyze" /\ recipe = "gepa"
  /\ runs' = [runs EXCEPT ![gen].evidence = [operator |-> "gepa", cases |-> Cases(gen)]]
  /\ pc' = "feedback" /\ UNCHANGED work /\ Quiet

\* _trajectory_only_cases: this rollout and the last ones of the lineage, walked back by
\* the lines of the archive.  back[p][n]: the last n that p and its ancestors have.
Window ==
  LET back[p \in {g \in Gens : archive[g] # None}] ==
        [n \in 0..HistoryCycles |->
           IF n = 0 \/ p = 0 THEN {}
           ELSE IF Cases(p) = None THEN back[archive[p].parent][n]
           ELSE Cases(p) \cup back[archive[p].parent][n - 1]]
  IN  Cases(gen) \cup back[parent][HistoryCycles - 1]

\* write_evidence_bundle, of behaviour without outcome or reward.
Bundle(cases, judged) ==
  runs' = [runs EXCEPT ![gen].evidence =
             [operator |-> "trajectory_only", cases |-> cases, judged |-> judged]]

\* TrajectoryOnly, with a judge's verdict where one came.
TrajectoryOnly ==
  /\ pc = "analyze" /\ recipe = "aevolve"
  /\ \E judged \in {{}, {c.task : c \in Window}} : Bundle(Window, judged)
  /\ pc' = "feedback" /\ UNCHANGED work /\ Quiet

\* _case_outcome and _task_outcomes: a task that infrastructure spoiled is unknown.
TaskOutcome(cases, t) ==
  LET seen == {c \in cases : c.task = t /\ c.outcome \notin {"infra_error", "incomplete"}}
  IN  CASE seen = {} -> "unknown" [] \E c \in seen : c.outcome # "passed" -> "fail"
        [] OTHER -> "pass"

\* _build_jobs: the tasks to debug, failures before successes, at most MaxTasks.
JobSets(cases) ==
  LET tasks(o) == {t \in {c.task : c \in cases} : TaskOutcome(cases, t) = o}
      size == Min({MaxTasks, Cardinality(tasks("fail") \cup tasks("pass"))})
  IN  {s \in kSubset(size, tasks("fail") \cup tasks("pass")) :
         s \cap tasks("pass") = {} \/ tasks("fail") \subseteq s}

AheStart ==
  /\ pc = "analyze" /\ recipe = "ahe"
  /\ \E s \in JobSets(Cases(gen)) : work' = [NoWork EXCEPT !.jobs = s]
  /\ pc' = "debug" /\ UNCHANGED runs /\ Quiet

Tried(t) == IF t \in DOMAIN runs[gen].tried THEN runs[gen].tried[t] ELSE 0

\* _run_debugger_jobs: one job alone, then the others side by side.  An attempt needs
\* a directory that does not exist yet.
StartDebugger ==
  /\ pc = "debug"
  /\ \E t \in work.jobs \ (work.running \cup DOMAIN work.reports) :
       /\ work.reports = <<>> => work.running = {}
       /\ IF Tried(t) <= DebuggerRetries
          THEN /\ work' = [work EXCEPT !.running = @ \cup {t}]
               /\ runs' = [runs EXCEPT ![gen].tried = (t :> Tried(t) + 1) @@ @]
          ELSE /\ work' = [work EXCEPT !.reports = (t :> "unavailable") @@ @]
               /\ UNCHANGED runs
  /\ UNCHANGED pc /\ Quiet

DebuggerEnds ==
  /\ pc = "debug"
  /\ \E t \in work.running :
       work' = [work EXCEPT !.running = @ \ {t}, !.reports = (t :> "diagnosis") @@ @]
  /\ UNCHANGED <<pc, runs>> /\ Quiet

DebuggerFails ==
  /\ pc = "debug"
  /\ \E t \in work.running :
       work' = [work EXCEPT !.running = @ \ {t},
                            !.reports = IF Tried(t) <= DebuggerRetries THEN @
                                        ELSE (t :> "unavailable") @@ @]
  /\ UNCHANGED <<pc, runs>> /\ Quiet

\* _archive_analysis with _task_vector_outcome: what the evaluations of all generations,
\* parents or not, found for a task.  A repair does not change the evaluation's vector.
History(t) ==
  {certified[g].base[t] :
     g \in {h \in DOMAIN archive : archive[h] # None /\ t \in DOMAIN certified[h].base}}

Stability(t) ==
  LET passed == History(t) \cap {"pass"}  failed == History(t) \cap {"fail", "raised"}
  IN  CASE passed = {} /\ failed = {} -> "infra_only"
        [] passed # {} /\ failed # {} -> "unstable"
        [] OTHER -> IF passed # {} THEN "stable_pass" ELSE "stable_fail"

\* _reports and the evidence files.  Reports of other tasks stay where they are.
WriteReports ==
  /\ pc = "debug" /\ DOMAIN work.reports = work.jobs
  /\ runs' = [runs EXCEPT ![gen].details = [t \in work.jobs |-> Code(parent)] @@ @,
                          ![gen].evidence = [operator |-> "ahe",
                                             cases |-> {c \in Cases(gen) : c.task \in work.jobs}]]
  /\ work' = [NoWork EXCEPT !.stability = [t \in {c.task : c \in Cases(gen)} |-> Stability(t)]]
  /\ pc' = "change" /\ Quiet

\* _canonical_task_reference: a name as it is, or the one task whose last part it is.
CanonicalReference(ref, observed) ==
  LET matches == {t \in observed : ref = <<Last(t)>>}
  IN  IF ref \notin observed /\ Cardinality(matches) = 1 THEN CHOOSE t \in matches : TRUE
      ELSE ref

\* _change_verdict
Verdict(predicted, fixed, realized) ==
  IF realized # {} THEN IF fixed = {} THEN "HARMFUL" ELSE "MIXED"
  ELSE IF predicted # {} /\ fixed = predicted THEN "EFFECTIVE"
  ELSE IF fixed # {} THEN "PARTIALLY_EFFECTIVE" ELSE "INEFFECTIVE"

\* _transition, per pair of outcomes: the tasks of `before` and `after` that moved.
Moved(before, after, from, to) ==
  {t \in {c.task : c \in before \cup after} :
     TaskOutcome(before, t) = from /\ TaskOutcome(after, t) = to}

\* _change_evaluation: what became of the prediction, for the cases before and after.
Judged(manifest, before, after) ==
  LET observed == {c.task : c \in before \cup after}
      named(refs) == {CanonicalReference(r, observed) : r \in refs}
      predicted == IF manifest = None THEN {} ELSE named(manifest.predicted)
      risks == IF manifest = None THEN {} ELSE named(manifest.risks)
      fixed == predicted \cap Moved(before, after, "fail", "pass")
      worse == Moved(before, after, "pass", "fail")
  IN  [manifest |-> manifest, before |-> before, after |-> after, predicted |-> predicted,
       fixed |-> fixed, still_failed |-> predicted \ fixed, realized |-> risks \cap worse,
       unattributed |-> worse \ (predicted \cup risks),
       verdict |-> Verdict(predicted, fixed, risks \cap worse)]

ChangeEvaluation_OwnManifest ==
  /\ pc = "change"
  /\ IF parent = 0
     THEN /\ runs' = [runs EXCEPT ![gen].change = "baseline"]
          /\ pc' = "feedback" /\ UNCHANGED work /\ Quiet
     ELSE /\ Cases(parent) # None
          /\ runs' = [runs EXCEPT ![gen].change =
                        Judged(runs[gen].manifest, Cases(parent), Cases(gen))]
          /\ pc' = "feedback" /\ UNCHANGED work /\ Quiet

\* The change that made the parent, judged by the evaluations before and after it.
ChangeEvaluation ==
  /\ pc = "change"
  /\ IF parent = 0
     THEN /\ runs' = [runs EXCEPT ![gen].change = "baseline"]
          /\ pc' = "feedback" /\ UNCHANGED work /\ Quiet
     ELSE /\ Cases(parent) # None
          /\ runs' = [runs EXCEPT ![gen].change =
                        Judged(runs[parent].manifest, Cases(parent), Cases(gen))]
          /\ pc' = "feedback" /\ UNCHANGED work /\ Quiet

------------------------------------------------------------------------------
(* Feedback, the edit, the check of the edit, and the end of the generation. *)

\* _rollout_history: the earlier generations whose evidence the bundle points to.
\* (Bound: its window of eight rows never moves in MaxGen generations.)
RolloutHistory == {g \in 0..gen - 1 : runs[g].evidence # None}

\* _latest_accepted_diff: the newest valid generation that has a parent.
LatestAccepted ==
  LET accepted == {g \in ValidParents : archive[g].parent # None}
  IN  IF accepted = {} THEN None ELSE Max(accepted)

\* The copies of the bundle: the evidence of the analysis and the state of the rollout,
\* with what the archive says of earlier generations.
Copies == [evidence |-> runs[gen].evidence, state |-> files[Here].state,
           history |-> RolloutHistory, accepted |-> LatestAccepted]

\* write_feedback_bundle
Feedback ==
  /\ pc = "feedback"
  /\ runs' = [runs EXCEPT ![gen].feedback = Copies]
  /\ pc' = "mutate" /\ UNCHANGED work /\ Quiet

\* The agent edits the checkout, from the inputs its prompt names.
Edited == [runs EXCEPT ![gen].edits = @ + 1]
Edit == <<gen, runs[gen].edits + 1>>

\* GepaMutate needs the evidence; minibatch_improvement then measures the edit.
GepaMutate ==
  /\ recipe = "gepa" /\ runs[gen].evidence # None
  /\ runs' = Edited
  /\ op' = Harbor(<<gen, "validate">>, {c.task : c \in Cases(gen)})
  /\ pc' = "validate" /\ UNCHANGED <<gen, parent, work>>

\* AheMutate wants a manifest of the change as well.
Manifest(change, from, to) ==
  [predicted |-> change.predicted, risks |-> change.risks, from |-> from, to |-> to]

AheMutate ==
  /\ recipe = "ahe"
  /\ \E change \in Manifests :
       runs' = [Edited EXCEPT ![gen].manifest = Manifest(change, Code(parent), Edit)]
  /\ pc' = "evaluate" /\ UNCHANGED <<gen, parent, op, work>>

AEvolveMutate ==
  /\ recipe = "aevolve"
  /\ runs' = Edited
  /\ pc' = "evaluate" /\ UNCHANGED <<gen, parent, op, work>>

\* The agent fails, writes no manifest, or leaves its surface.
MutateFails == runs' = Edited /\ NextGeneration

Mutate ==
  /\ pc = "mutate"
  /\ checkout' = [checkout EXCEPT !.code = Edit]
  /\ GepaMutate \/ AheMutate \/ AEvolveMutate \/ MutateFails
  /\ UNCHANGED <<jobs, files, recoveries, recovery, certified, spoiled, finished, faults,
                 recipe, archive>>

Unscorable(cases) ==
  {c \in cases : c.outcome \in {"infra_error", "incomplete"} \/ c.reward = None}
Total(cases) == SumFunction([c \in cases \ Unscorable(cases) |-> c.reward])

Accepted_Incomplete(before, after) ==
  IF Criterion = "strict" THEN Total(after) > Total(before) ELSE Total(after) >= Total(before)

Accepted(before, after) ==
  /\ Unscorable(before) = {} /\ Unscorable(after) = {}
  /\ IF Criterion = "strict" THEN Total(after) > Total(before) ELSE Total(after) >= Total(before)

\* MinibatchImprovementValidate, after its own rollout of the child over the tasks of
\* the parent's.
Validate ==
  /\ pc = "validate" /\ op.pc = "done"
  /\ LET before == Cases(gen)
         after == files[<<gen, "validate">>].cases
         accepted == Accepted(before, after)
     IN  IF {c.task : c \in after} # {c.task : c \in before}
         THEN NextGeneration /\ UNCHANGED runs
         ELSE /\ runs' = [runs EXCEPT ![gen].comparison =
                            [before |-> before, after |-> after, accepted |-> accepted]]
              /\ IF accepted THEN pc' = "evaluate" /\ op' = NoOp /\ UNCHANGED <<gen, parent, work>>
                 ELSE NextGeneration
  /\ UNCHANGED <<checkout, jobs, files, recoveries, recovery, certified, spoiled, finished, faults,
                 recipe, archive>>

Certificates(vectors) == {[base |-> v, repaired |-> {}, repair |-> <<>>] : v \in vectors}

\* The commit, the evaluation and the gate of the driver.
Evaluate ==
  /\ pc = "evaluate"
  /\ \E valid \in BOOLEAN, found \in Certificates(Vectors) :
       /\ archive' = [archive EXCEPT ![gen] =
                        [parent |-> parent, code |-> checkout.code, valid |-> valid]]
       /\ certified' = [certified EXCEPT ![gen] = found]
  /\ pc' = "record"
  /\ UNCHANGED <<checkout, jobs, files, op, recoveries, recovery, spoiled, finished, faults,
                 recipe, gen, parent, work, runs>>

\* GepaRecord points at what the generation left; the other recipes add nothing here.
Record ==
  /\ pc = "record"
  /\ runs' = IF recipe = "gepa" THEN [runs EXCEPT ![gen].experience = runs[gen].comparison]
             ELSE runs
  /\ NextGeneration
  /\ UNCHANGED <<checkout, jobs, files, recoveries, recovery, certified, spoiled, finished, faults,
                 recipe, archive>>

\* A kill of the driver takes the operator with it, and no Harbor.
Kill ==
  /\ pc \notin {"stopped", "end"} /\ Fault
  /\ pc' = "stopped" /\ op' = NoOp /\ work' = NoWork /\ parent' = None
  /\ UNCHANGED <<checkout, jobs, files, recoveries, recovery, certified, spoiled, finished,
                 recipe, archive, gen, runs>>

\* A person evaluates anew a generation that is no valid parent.
Recertify(p) ==
  /\ pc = "stopped" /\ archive[p] # None /\ ~archive[p].valid
  /\ \E found \in Certificates(Vectors) : certified' = [certified EXCEPT ![p] = found]
  /\ archive' = [archive EXCEPT ![p].valid = TRUE]
  /\ spoiled' = {s \in spoiled : s[1] # p}
  /\ UNCHANGED <<checkout, jobs, files, op, recoveries, recovery, finished, faults,
                 recipe, gen, pc, parent, work, runs>>

\* repair removes the worktree; the run then goes on with the generation that has no
\* line in the archive.
Resume ==
  /\ pc = "stopped"
  /\ checkout' = [gen |-> None, code |-> None]
  /\ IF archive[gen] = None THEN pc' = "select" /\ UNCHANGED gen
     ELSE IF gen < MaxGen[recipe] THEN gen' = gen + 1 /\ pc' = "select"
     ELSE pc' = "end" /\ UNCHANGED gen
  /\ UNCHANGED <<jobs, files, op, recoveries, recovery, certified, spoiled, finished, faults,
                 recipe, archive, parent, work, runs>>

------------------------------------------------------------------------------
\* A certified evaluation, whose tasks that infrastructure spoiled may be repaired.
Repaired(found) ==
  LET spoilt == {t \in DOMAIN found.base : found.base[t] = "infra"}
  IN  [found EXCEPT !.repaired = spoilt, !.repair = [t \in spoilt |-> "pass"]]

\* A run whose generation 1 is committed: a parent, or one whose gate refused it.
Init ==
  /\ recipe \in Recipes /\ gen = 2 /\ pc = "select" /\ parent = None /\ op = NoOp
  /\ \E valid \in BOOLEAN :
       archive = [g \in Gens |->
         CASE g = 0 -> [parent |-> None, code |-> <<0, 0>>, valid |-> TRUE]
           [] g = 1 -> [parent |-> 0, code |-> <<1, 1>>, valid |-> valid]
           [] OTHER -> None]
  /\ \E c0 \in Certificates(FirstVectors), c1 \in Certificates(Vectors) :
       \E a \in IF recipe = "ahe" THEN {c0, Repaired(c0)} ELSE {c0} :
         certified = [g \in Gens |-> CASE g = 0 -> a [] g = 1 -> c1 [] OTHER -> None]
  /\ LET read == [i \in DOMAIN Sources(0) |-> Content(0, Sources(0)[i])]
         first == IF recipe = "ahe" THEN ReplayCases(0, read, <<0, 0>>)
                  ELSE {Case(t, "fail", <<0, 0>>) : t \in Range(Train)}
     IN  files = [k \in Gens \X {"rollout", "validate"} |->
                    IF k = <<1, "rollout">> THEN [NoFiles EXCEPT !.cases = first] ELSE NoFiles]
  /\ \E change \in Manifests :
       runs = [g \in Gens |->
                 IF g = 1 /\ recipe = "ahe"
                 THEN [NoRun EXCEPT !.manifest = Manifest(change, <<0, 0>>, <<1, 1>>)]
                 ELSE NoRun]
  /\ work = NoWork /\ checkout = [gen |-> None, code |-> None]
  /\ jobs = [k \in Keys |-> NoJob] /\ recoveries = [k \in Keys |-> <<>>] /\ recovery = None
  /\ spoiled = {} /\ finished = {} /\ faults = 0

\* What Harbor, its operator and its recovery do leaves the generation as it is.
Below == UNCHANGED reflectionVars

Next ==
  \/ Select \/ RolloutDone \/ RolloutFailed
  \/ GepaAnalyze \/ TrajectoryOnly
  \/ AheStart \/ StartDebugger \/ DebuggerEnds \/ DebuggerFails \/ WriteReports
  \/ ChangeEvaluation \/ Feedback \/ Mutate \/ Validate \/ Evaluate \/ Record
  \/ Kill \/ Resume
  \/ \E p \in Gens : Recertify(p)
  \/ HarborSteps /\ Below
  \/ OperatorSteps /\ Below
  \/ op.pc = "materialize" /\ Materialize(Code(parent)) /\ Below
  \/ SpoilEvidence /\ Below
  \/ recipe \in RecoveredIn /\ RecoverySteps /\ Below

Spec == Init /\ [][Next]_vars

------------------------------------------------------------------------------
(* Properties. *)

\* A case of a Harbor job tells what a trial of that very task found for this code, or
\* that none finished.
Measured(c, k, code) ==
  \/ c.outcome = "incomplete"
  \/ \E x \in {y[2] : y \in {z \in finished : z[1] = k}} :
       c = [task |-> x.task, outcome |-> Outcome(x.kind), reward |-> Reward(x.kind), code |-> code]
       /\ x.code = code

\* A generation, its parent, and so on.
Lineage(p) ==
  {a \in Gens : \A line \in SUBSET Gens :
     (/\ p \in line
      /\ \A g \in line \ {0} : archive[g] # None => archive[g].parent \in line) => a \in line}

\* When the agent starts to edit, the checkout is the selected parent's code, and the
\* evidence is of that parent and complete: every task of a batch once, from trials of
\* this code in a job that ended by itself (execution.py, evidence.py); the certified
\* results, repaired tasks as repaired (parent_evaluation.py); and older rollouts only
\* of its ancestors (trace_analysis.py); the history of tasks that AHE shows agrees
\* with what was measured for the parent - whatever was killed, cancelled, recovered,
\* altered, or left in the run directory for another parent.
EvidenceIsMeasured ==
  pc = "mutate" =>
    /\ checkout = [gen |-> gen, code |-> Code(parent)]
    /\ IF recipe = "ahe"
       THEN Cases(gen) = {Case(t, Final(parent)[t], Code(parent)) : t \in DOMAIN Final(parent)}
       ELSE /\ jobs[Here].owner \in {"completed", "failed"}
            /\ {c.task : c \in Cases(gen)} = jobs[Here].tasks
            /\ Cardinality(Cases(gen)) = Cardinality(jobs[Here].tasks)
            /\ \A c \in Cases(gen) : Measured(c, Here, Code(parent))
    /\ runs[gen].feedback.evidence = runs[gen].evidence
    /\ recipe = "ahe" =>
         \A t \in DOMAIN certified[parent].base :
           LET found == certified[parent].base[t]  told == work.stability[t]
           IN  /\ found = "pass" => told \in {"stable_pass", "unstable"}
               /\ found = "fail" => told \in {"stable_fail", "unstable"}
    /\ recipe # "ahe" => Cases(gen) \subseteq runs[gen].evidence.cases
    /\ \A c \in runs[gen].evidence.cases :
         \/ c \in Cases(gen)
         \/ /\ recipe = "aevolve"
            /\ \E a \in Lineage(parent) \ {0} :
                 c \in Cases(a) /\ c.code \in {None, Code(archive[a].parent)}

\* No trial that ever finished is lost to a recovery: it is in its job directory, or in
\* the copy some recovery made before Harbor removed it (_recovery.py).
TrialsAreKept ==
  \A done \in finished :
    \/ done[2] \in jobs[done[1]].trials
    \/ \E i \in DOMAIN recoveries[done[1]] : done[2] \in recoveries[done[1]][i].backup

\* A change that minibatch_improvement let through beat its parent on the same tasks,
\* each of which gave both a real reward, and the code that was measured is the code
\* that was committed, and the parent's.
AcceptedImproves ==
  \A g \in Gens :
    (archive[g] # None /\ runs[g].comparison # None) =>
      LET before == runs[g].comparison.before  after == runs[g].comparison.after
          passed(cases) == Cardinality({c \in cases : c.outcome = "passed"})
      IN  /\ {c.task : c \in before} = {c.task : c \in after}
          /\ \A c \in before \cup after : c.reward # None
          /\ \A c \in before : c.code = Code(archive[g].parent)
          /\ \A c \in after : c.code = Code(g)
          /\ \/ passed(after) > passed(before)
             \/ Criterion # "strict" /\ passed(after) = passed(before)

\* The judgement an AHE agent reads is about the change that made its parent, from the
\* evaluations of the codes before and after that change; every task that change broke
\* is named in it, however the manifest named its tasks; a fix is a task that failed
\* before and passes now; and "EFFECTIVE" means that all it predicted came true and no
\* risk it named did (ahe.py).
ChangeIsJudged ==
  (pc = "mutate" /\ recipe = "ahe" /\ parent # 0) =>
    LET change == runs[gen].change
        outcome(cases, t) == {c.outcome : c \in {d \in cases : d.task = t}}
    IN  /\ change.manifest # None
        /\ change.manifest.to = Code(parent)
        /\ change.manifest.from = Code(archive[parent].parent)
        /\ \A c \in change.before : c.code = change.manifest.from
        /\ \A c \in change.after : c.code = change.manifest.to
        /\ \A t \in change.fixed : /\ outcome(change.before, t) \cap {"failed", "agent_error"} # {}
                                   /\ outcome(change.after, t) = {"passed"}
        /\ \A c \in change.before, d \in change.after :
             (c.task = d.task /\ c.outcome = "passed" /\ d.outcome \in {"failed", "agent_error"}) =>
               c.task \in change.unattributed \cup change.realized \cup change.still_failed
        /\ change.verdict = "EFFECTIVE" =>
             change.still_failed = {} /\ change.realized = {} /\ change.fixed # {}
=============================================================================
