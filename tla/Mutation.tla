-------------------------------- MODULE Mutation -------------------------------
(***************************************************************************)
(* One run of the mutate operator with the Harbor runner                   *)
(* (library/_shared/runners/harbor.run_agent, called by mutate/ahe): the   *)
(* candidate checkout is copied into a bundle, an agent edits the copy in a *)
(* paid Harbor job, and the returned workspace replaces the editable roots  *)
(* and the generation's durable artifacts, one rename at a time.            *)
(*                                                                          *)
(* Abstractions.  What a root holds is one of: the parent commit's files    *)
(* ("base"), one of two candidates the surface allows, or also changes      *)
(* outside it ("foul"); None is a missing directory, "part" one that a       *)
(* removal has left some files of.  The artifact                            *)
(* directory is outside Git and the surface.  The change manifest, which    *)
(* the agent leaves in a root, is a flag of its own.                        *)
(***************************************************************************)
EXTENDS Naturals, Sequences, FiniteSets

CONSTANTS
  None,
  Roots,          \* editable_roots, in the order of the configuration
  SealedSplit,    \* the sealed split has tasks
  MaxFaults       \* bound: exceptions and kills

ASSUME MutationAssumption ==
  /\ SealedSplit \in BOOLEAN
  /\ MaxFaults \in Nat
  /\ Roots \in Seq({Roots[i] : i \in DOMAIN Roots})
  /\ \A i, j \in DOMAIN Roots : Roots[i] = Roots[j] => i = j     \* _editable_roots
  /\ "artifact" \notin {Roots[i] : i \in DOMAIN Roots}

RootSet == {Roots[i] : i \in DOMAIN Roots}
InstallOrder == Append(Roots, "artifact")
Places == RootSet \cup {"artifact"}
Contents == {"base", "edit", "other", "foul"}
Nothing == [p \in Places |-> None]

ASSUME ContentAssumption == None \notin Contents \cup {"empty", "part"}

VARIABLES
  pc,            \* where run_agent stands
  tree,          \* the checkout's roots and artifacts/generations/<genid>
  manifest,      \* target/.ahe-change-manifest.json is in the checkout
  bundle,        \* the copy: what it was made from, what private names it holds
  returned,      \* the workspace Harbor brought back
  replacements,  \* install/replacements and install/backups in the staging
  backups,
  moved,         \* places renamed away, places renamed in, in order
  installed,
  job,           \* the job directory of this run directory, None if there is none
  patch,         \* model_patch.diff: the roots it was made from
  litter,        \* backups in staging directories that killed runs left
  origin,        \* history: tree when the run began, until its end
  torn,          \* history: the removal of the backups or the undo did not get through
  paid,          \* history: Harbor jobs that ran
  faults

copyVars == <<bundle, returned, replacements, backups, moved, installed>>
mutationVars == <<pc, tree, manifest, copyVars, job, patch, litter, origin, torn, paid, faults>>

Resting == {"idle", "ok", "unread", "failed", "killed"}
Running == pc \notin Resting

\* An exception that the code meets at a step and whose cause is not modelled:
\* a full disk, a symbolic link in a returned tree, a Git command that fails.
Fault == faults < MaxFaults /\ faults' = faults + 1

-----------------------------------------------------------------------------
(* From the call to the paid job. *)

\* The finally block of run_agent, after the except block has raised.
Unstage ==
  /\ bundle' = None /\ returned' = Nothing
  /\ replacements' = Nothing /\ backups' = Nothing
  /\ moved' = << >> /\ installed' = << >>

Fail == pc' = "failed" /\ Unstage

\* ensure_artifact_layout comes first: a missing directory is made anew.
Begin ==
  /\ pc \in Resting
  /\ pc' = "prepare"
  /\ tree' = [tree EXCEPT !["artifact"] = IF @ = None THEN "empty" ELSE @]
  /\ origin' = tree' /\ torn' = FALSE
  /\ UNCHANGED <<manifest, copyVars, job, patch, litter, paid, faults>>

\* Where the name of a gate or sealed task may stand: the prompt; the checkout's
\* files, those Git ignores, and the evaluator with its splits; the evidence of
\* train tasks, the judge jobs of the analysis, and the gate's own runs; the
\* durable artifacts.
NamePlaces == {"prompt", "checkout", "ignored", "evaluator", "train", "judge", "gate", "artifacts"}

ASSUME JobAssumption == None \notin [number : Nat, names : SUBSET NamePlaces, expose : BOOLEAN]

\* _copy_checkout_inputs leaves out what Git ignores and, unless gate data are
\* shown on purpose, the hidden roots.
CheckoutInputs(expose) == {"checkout"} \cup (IF expose THEN {"evaluator"} ELSE {})

\* _copy_visible_run_inputs: the published evidence of each generation only.
RunInputs(expose) == {"train"} \cup (IF expose THEN {"judge", "gate"} ELSE {})

\* _redact_private_tasks_from_run_inputs rewrites the copied evidence.
Redacted(places) == places \ {"train"}

\* Where the names stand in what the job gets.
Leaving(names, expose) ==
  LET copied == CheckoutInputs(expose) \cup RunInputs(expose) \cup {"prompt", "artifacts"}
  IN IF expose THEN names \cap copied ELSE Redacted(names \cap copied)

\* _validate_tree, of what may be missing.
Present(p) == tree[p] # None

\* _prepare_bundle: the roots must be real directories, and no private task
\* name may be left in the prompt or in the copy.
Admissible(left, expose) ==
  /\ \A p \in RootSet : Present(p)
  /\ expose => ~SealedSplit
  /\ expose \/ left = {}

PrepareBundle ==
  /\ pc = "prepare"
  /\ \E expose \in BOOLEAN : \E left \in {Leaving(names, expose) : names \in SUBSET NamePlaces} :
       IF Admissible(left, expose)
       THEN /\ bundle' = [before |-> tree, manifest |-> manifest,
                           names |-> left, expose |-> expose]
            /\ pc' = "start"
            /\ UNCHANGED <<returned, replacements, backups, moved, installed>>
       ELSE Fail
  /\ UNCHANGED <<tree, manifest, job, patch, litter, origin, torn, paid, faults>>

\* _instruction_transport: a prompt too large for a command line needs an agent
\* that has it mounted as a file.
Deliverable(large, mounted) == ~large \/ mounted

\* A job directory of this name, left by an earlier run, refuses the run; else
\* Harbor makes it and the agent's tokens are spent.
StartJob ==
  /\ pc = "start"
  /\ \E large, mounted \in BOOLEAN :
       IF job # None \/ ~Deliverable(large, mounted)
       THEN Fail /\ UNCHANGED <<job, paid>>
       ELSE /\ job' = [number |-> paid + 1, names |-> bundle.names, expose |-> bundle.expose]
            /\ paid' = paid + 1
            /\ pc' = "harbor"
            /\ UNCHANGED copyVars
  /\ UNCHANGED <<tree, manifest, patch, litter, origin, torn, faults>>

-----------------------------------------------------------------------------
(* What Harbor brings back.  Harbor, its containers and the agent are *)
(* external: any outcome is possible, and its own deadline ends it.   *)

Trials == [code : {0, 1}, results : {0, 1}, exception : BOOLEAN,
           exit : {"Submitted", "LimitsExceeded"}, artifact : {"ok", "failed"}]

\* _miniswe_exit_status: an agent that ran into a limit has not submitted.
Submitted(t) == t.exit = "Submitted"

\* The checks of run_agent between _run_harbor and _install_bundle.
IsGood(t) ==
  /\ t.results = 1                 \* _trial_result: exactly one
  /\ t.code = 0
  /\ ~t.exception
  /\ Submitted(t)
  /\ t.artifact = "ok"             \* _artifact_candidate

\* An edited copy (two edits by agents need not differ): the agent may also touch
\* what it must not, or lose a root.
Returns ==
  [place : [RootSet -> {None, "base", "edit", "foul"}], artifact : BOOLEAN,
   elsewhere : BOOLEAN, manifest : BOOLEAN]

RunHarbor ==
  /\ pc = "harbor"
  /\ \E good \in {IsGood(t) : t \in Trials} :
       IF good
       THEN /\ returned' \in Returns
            /\ pc' = "check"
            /\ UNCHANGED <<bundle, replacements, backups, moved, installed>>
       ELSE Fail
  /\ UNCHANGED <<tree, manifest, job, patch, litter, origin, torn, paid, faults>>

-----------------------------------------------------------------------------
(* _install_bundle. *)

\* The whole returned workspace against the manifest of the copy: a change
\* that was in the checkout already is not seen here.
ChangedOutside ==
  \/ returned.elsewhere
  \/ \E p \in RootSet : returned.place[p] = "foul" /\ bundle.before[p] # "foul"

CheckReturned_RootsOnly ==
  /\ pc = "check"
  /\ IF \E p \in RootSet : returned.place[p] = "foul" /\ bundle.before[p] # "foul"
     THEN Fail
     ELSE pc' = "copy" /\ UNCHANGED copyVars
  /\ UNCHANGED <<tree, manifest, job, patch, litter, origin, torn, paid, faults>>

CheckReturned ==
  /\ pc = "check"
  /\ IF ChangedOutside
     THEN Fail
     ELSE pc' = "copy" /\ UNCHANGED copyVars
  /\ UNCHANGED <<tree, manifest, job, patch, litter, origin, torn, paid, faults>>

\* The copies are made before anything of the checkout moves.
CopyReturned ==
  /\ pc = "copy"
  /\ \/ /\ \A p \in RootSet : returned.place[p] # None
        /\ replacements' = [p \in Places |->
             IF p # "artifact" THEN returned.place[p]
             ELSE IF returned.artifact THEN "edit" ELSE bundle.before[p]]
        /\ pc' = "install"
        /\ UNCHANGED faults
     \/ /\ \E p \in RootSet : returned.place[p] = None
        /\ pc' = "undo"
        /\ UNCHANGED <<replacements, faults>>
     \/ /\ Fault
        /\ pc' = "undo"
        /\ UNCHANGED replacements
  /\ UNCHANGED <<tree, manifest, bundle, returned, backups, moved, installed,
                 job, patch, litter, origin, torn, paid>>

Following(s) == InstallOrder[Len(s) + 1]

MoveAside ==
  /\ pc = "install"
  /\ Len(moved) = Len(installed) /\ Len(moved) < Len(InstallOrder)
  /\ LET p == Following(moved) IN
       /\ backups' = [backups EXCEPT ![p] = tree[p]]
       /\ tree' = [tree EXCEPT ![p] = None]
       /\ manifest' = IF p = "target" THEN FALSE ELSE manifest
       /\ moved' = Append(moved, p)
  /\ UNCHANGED <<pc, bundle, returned, replacements, installed,
                 job, patch, litter, origin, torn, paid, faults>>

MoveIn ==
  /\ pc = "install"
  /\ Len(installed) < Len(moved)
  /\ LET p == Following(installed) IN
       /\ tree' = [tree EXCEPT ![p] = replacements[p]]
       /\ replacements' = [replacements EXCEPT ![p] = None]
       /\ installed' = Append(installed, p)
       /\ manifest' = IF p = "target" THEN returned.manifest ELSE manifest
  /\ UNCHANGED <<pc, bundle, returned, backups, moved, job, patch, litter,
                 origin, torn, paid, faults>>

InstallFails ==
  /\ pc = "install" /\ Fault
  /\ pc' = "undo"
  /\ UNCHANGED <<tree, manifest, copyVars, job, patch, litter, origin, torn, paid>>

\* The roots against the parent commit (changes of earlier operators and of the
\* agent's own hand count), then git diff --check.
Verify ==
  /\ pc = "install" /\ Len(installed) = Len(InstallOrder)
  /\ \/ /\ \A p \in RootSet : tree[p] # "foul"
        /\ pc' = "discard" /\ UNCHANGED faults
     \/ /\ \E p \in RootSet : tree[p] = "foul"
        /\ pc' = "undo" /\ UNCHANGED faults
     \/ Fault /\ pc' = "undo"
  /\ UNCHANGED <<tree, manifest, copyVars, job, patch, litter, origin, torn, paid>>

\* The transaction is removed; run_agent returns and its staging goes too.
Discard ==
  /\ pc = "discard"
  /\ pc' = "accepted"
  /\ Unstage
  /\ UNCHANGED <<tree, manifest, job, patch, litter, origin, torn, paid, faults>>

\* A directory is removed file by file.  A removal that stops half-way leaves a part of
\* it, one that may lack a file outside the surface.
Stump(p) == IF p = "artifact" THEN {"part"} ELSE {"part", "foul"}

\* What the removal of the transaction may have left of the backups when it stops.
BackupsLeft ==
  {left \in [Places -> {backups[p] : p \in Places} \cup {None, "part", "foul"}] :
     \A p \in Places : left[p] \in {backups[p], None} \cup Stump(p)}

\* The removal is inside the try: an exception in it undoes a verified installation,
\* from the backups that are left.
DiscardFails ==
  /\ pc = "discard" /\ Fault
  /\ pc' = "undo"
  /\ backups' \in BackupsLeft
  /\ torn' = TRUE
  /\ UNCHANGED <<tree, manifest, bundle, returned, replacements, moved, installed,
                 job, patch, litter, origin, paid>>

\* The except block: the artifact first, then the roots are removed and the
\* old ones renamed back, last first.
Pending(s) == s # << >>
LastOf(s) == s[Len(s)]
FrontOf(s) == SubSeq(s, 1, Len(s) - 1)

\* It is to remove a place that was installed; it is to rename a backup.
ToRemove ==
  /\ pc = "undo" /\ Pending(installed)
  /\ (Pending(moved) /\ LastOf(moved) = "artifact") => LastOf(installed) = "artifact"

ToRename ==
  /\ pc = "undo" /\ Pending(moved)
  /\ \/ ~Pending(installed)
     \/ LastOf(moved) = "artifact" /\ LastOf(installed) # "artifact"

UndoInstalled ==
  /\ ToRemove
  /\ LET p == LastOf(installed) IN
       /\ tree' = [tree EXCEPT ![p] = None]
       /\ manifest' = IF p = "target" THEN FALSE ELSE manifest
  /\ installed' = FrontOf(installed)
  /\ UNCHANGED <<pc, bundle, returned, replacements, backups, moved,
                 job, patch, litter, origin, torn, paid, faults>>

UndoMoved_NotTheLast ==
  /\ pc = "undo" /\ Pending(moved) /\ ~Pending(installed)
  /\ LET p == LastOf(moved) IN
       /\ tree' = [tree EXCEPT ![p] = IF Len(moved) = 1 THEN None ELSE backups[p]]
       /\ backups' = [backups EXCEPT ![p] = None]
       /\ manifest' = IF p = "target" THEN bundle.manifest ELSE manifest
  /\ moved' = FrontOf(moved)
  /\ UNCHANGED <<pc, bundle, returned, replacements, installed, job, patch, litter,
                 origin, torn, paid, faults>>

\* A backup of which only a part is left goes back as well.
UndoMoved ==
  /\ ToRename
  /\ LET p == LastOf(moved) IN
       /\ backups[p] # None
       /\ tree' = [tree EXCEPT ![p] = backups[p]]
       /\ backups' = [backups EXCEPT ![p] = None]
       /\ manifest' \in IF p = "target" THEN {bundle.manifest, bundle.manifest /\ ~torn}
                         ELSE {manifest}
  /\ moved' = FrontOf(moved)
  /\ UNCHANGED <<pc, bundle, returned, replacements, installed, job, patch, litter,
                 origin, torn, paid, faults>>

\* A removal of the except block that stops half-way, in what was installed last.
HalfRemoved ==
  LET p == LastOf(installed) IN
    /\ ToRemove
    /\ \E stump \in Stump(p) : tree' = [tree EXCEPT ![p] = stump]
    /\ manifest' \in IF p = "target" THEN {manifest, FALSE} ELSE {manifest}

\* An exception in the except block, a rename of a backup that is gone included: the
\* rest of the undo is left out, and the finally block removes the remaining backups.
UndoFails ==
  /\ \/ (ToRemove \/ ToRename) /\ Fault /\ torn' = TRUE /\ UNCHANGED <<tree, manifest>>
     \/ HalfRemoved /\ Fault /\ torn' = TRUE
     \/ /\ ToRename /\ backups[LastOf(moved)] = None
        /\ UNCHANGED <<tree, manifest, torn, faults>>
  /\ Fail
  /\ UNCHANGED <<job, patch, litter, origin, paid>>

UndoEnds ==
  /\ pc = "undo" /\ ~Pending(moved) /\ ~Pending(installed)
  /\ Fail
  /\ UNCHANGED <<tree, manifest, job, patch, litter, origin, torn, paid, faults>>

-----------------------------------------------------------------------------
(* AheMutate.mutate after a good run: the manifest is read and unlinked, the *)
(* patch is made from the checkout, and only then a bad manifest is raised.   *)

\* create_candidate_patch, with repair off: what the roots hold, allowed or not.
CandidatePatch == [p \in RootSet |-> tree[p]]

ReadManifest ==
  /\ pc = "accepted"
  /\ manifest' = FALSE
  /\ patch' = CandidatePatch
  /\ \E wellFormed \in BOOLEAN :
       pc' = IF manifest /\ wellFormed THEN "ok" ELSE "unread"
  /\ UNCHANGED <<tree, copyVars, job, litter, origin, torn, paid, faults>>

\* The operator's deadline, or the end of the command that called it: SIGTERM
\* ends the interpreter where it stands, and no finally block runs.
KillMutation ==
  /\ Running /\ Fault
  /\ pc' = IF pc = "accepted" THEN "unread" ELSE "killed"
  /\ \E left \in IF pc = "discard" THEN BackupsLeft ELSE {backups} :
       litter' = litter \cup {<<p, left[p]>> : p \in {q \in Places : left[q] # None}}
  /\ torn' = (torn \/ pc = "discard")
  /\ HalfRemoved \/ UNCHANGED <<tree, manifest>>
  /\ Unstage
  /\ UNCHANGED <<job, patch, origin, paid>>

\* The operator has ended; what is said of a run is said until here.
Forget == pc' = "idle" /\ origin' = Nothing /\ torn' = FALSE

MutationStep ==
  \/ PrepareBundle \/ StartJob \/ RunHarbor
  \/ CheckReturned \/ CopyReturned
  \/ MoveAside \/ MoveIn \/ InstallFails \/ Verify \/ Discard \/ DiscardFails
  \/ UndoInstalled \/ UndoMoved \/ UndoEnds \/ UndoFails
  \/ ReadManifest \/ KillMutation

MutationInit ==
  /\ pc = "idle"
  /\ tree = [p \in Places |-> "base"]
  /\ manifest = FALSE
  /\ bundle = None /\ returned = Nothing
  /\ replacements = Nothing /\ backups = Nothing
  /\ moved = << >> /\ installed = << >>
  /\ job = None /\ patch = None
  /\ litter = {} /\ origin = Nothing /\ torn = FALSE /\ paid = 0 /\ faults = 0
=============================================================================
