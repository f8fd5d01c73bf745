------------------------------ MODULE Comparison ------------------------------
(***************************************************************************)
(* What the host does around an Agent Driven session: it clones the        *)
(* prepared workspace into a second arm (agent_driver.clone_arm), starts    *)
(* the session, audits the pair (audit_arm_pair), and, after the finish,    *)
(* evaluates the baseline and the champion on sealed data (seal_research).  *)
(* clone_arm and seal_research do not take the session lock, and any of     *)
(* these may be killed; a seal_research may be called twice at once.        *)
(*                                                                          *)
(* Abstractions.  An archive is the set of the arms whose actions wrote      *)
(* lines to it, beyond the baseline's; the lines of sealed evaluations are   *)
(* kept apart, in anchors.  A clone copies, at times of their own, the       *)
(* repository with the identity and the archive; that it copies runs/ with   *)
(* the journal of a session started meanwhile is left out, since nothing     *)
(* looks at it.  The person works only in an arm that an audit has passed.   *)
(***************************************************************************)
EXTENDS Session

CONSTANTS
  Sealers,    \* the calls of seal_research that may be under way at once
  MaxSeals,   \* bound: sealed evaluations that ended
  MaxFaults   \* bound: kills and failures of a clone or of a sealer

ASSUME ComparisonAssumption ==
  /\ {MaxSeals, MaxFaults} \subseteq Nat
  /\ None \notin {"source", "own"}

VARIABLES
  started,    \* the session's manifest exists
  champion,   \* "baseline" or "child", as best_row has it
  sealers,    \* sealers[s]: the position of one seal_research
  inside,     \* the sealers that evaluate, under the workspace lock
  anchors,    \* sealed evaluations in the archive, in order
  cloning,    \* the position of clone_arm
  arm,        \* the destination: its identity and archive; None before
  mirror,     \* mirror[identity]: the copy of an archive under EVOLVE_HOME
  audited,    \* history: an audit has passed the pair
  faults

armVars == <<cloning, arm, audited>>
sealVars == <<sealers, inside, anchors>>
comparisonVars == <<started, champion, sealVars, armVars, mirror, faults>>
vars == <<sessionVars, comparisonVars>>

Fault == faults < MaxFaults /\ faults' = faults + 1

\* A prepared workspace without a session.
ComparisonInit ==
  /\ Init
  /\ started = FALSE /\ champion = "baseline"
  /\ sealers = [s \in Sealers |-> "idle"] /\ inside = {} /\ anchors = << >>
  /\ cloning = "idle" /\ arm = None /\ audited = FALSE
  /\ mirror = [i \in {"source", "own"} |-> {}]
  /\ faults = 0

\* start_session: not where sealed evidence exists.
StartSession ==
  /\ ~started /\ anchors = << >>
  /\ started' = TRUE
  /\ UNCHANGED <<sessionVars, champion, sealVars, armVars, mirror, faults>>

\* A step of the session, whose callers are alike here.  A line of the archive goes to
\* the mirror as well, and may bring a new best.
SessionStep ==
  /\ started /\ SessionStepOf({"user"})
  /\ IF ledger' = ledger THEN UNCHANGED <<champion, mirror>>
     ELSE /\ champion' \in {champion, "child"}
          /\ mirror' = [mirror EXCEPT !["source"] = @ \cup {"source"}]
  /\ UNCHANGED <<started, sealVars, armVars, faults>>

------------------------------------------------------------------------------
(* clone_arm and audit_arm_pair. *)

\* A reader of an archive merges the mirror of the workspace's identity into it.
Merged(rows, id) == rows \cup mirror[id]

SourceRows == Merged(IF ledger = 0 THEN {} ELSE {"source"}, "source")

\* The checks, which nothing repeats after the copy but what the audit looks at.
CloneArm ==
  /\ cloning = "idle" /\ arm = None
  /\ ~started /\ anchors = << >> /\ SourceRows = {}
  /\ cloning' = "copy" /\ arm' = [id |-> None, rows |-> None]
  /\ UNCHANGED <<sessionVars, started, champion, sealVars, audited, mirror, faults>>

\* copytree, part by part.
CopyPart ==
  /\ cloning = "copy"
  /\ \/ arm.id = None /\ arm' = [arm EXCEPT !.id = "source"]
     \/ arm.rows = None /\ arm' = [arm EXCEPT !.rows = SourceRows]
  /\ UNCHANGED <<sessionVars, started, champion, sealVars, cloning, audited, mirror, faults>>

\* evolve-workspace-id of the copy is written anew.
RotateIdentity ==
  /\ cloning = "copy" /\ None \notin {arm.id, arm.rows}
  /\ arm' = [arm EXCEPT !.id = "own"] /\ cloning' = "audit"
  /\ UNCHANGED <<sessionVars, started, champion, sealVars, audited, mirror, faults>>

Comparable_AnyIdentity ==
  /\ None \notin {arm.id, arm.rows}
  /\ SourceRows = {} /\ Merged(arm.rows, arm.id) = {}

\* audit_arm_pair: first the identities, and only then the archives, whose reading
\* merges the mirror of the identity.
Comparable ==
  /\ None \notin {arm.id, arm.rows}
  /\ arm.id # "source"
  /\ SourceRows = {} /\ Merged(arm.rows, arm.id) = {}

\* The end of clone_arm: the copy is removed when the audit refuses it.
EndClone ==
  /\ cloning = "audit"
  /\ IF Comparable THEN audited' = TRUE /\ cloning' = "done" /\ UNCHANGED arm
     ELSE arm' = None /\ cloning' = "idle" /\ UNCHANGED audited
  /\ UNCHANGED <<sessionVars, started, champion, sealVars, mirror, faults>>

\* An exception, or Ctrl-C.
CloneFails ==
  /\ cloning \in {"copy", "audit"} /\ Fault
  /\ arm' = None /\ cloning' = "idle"
  /\ UNCHANGED <<sessionVars, started, champion, sealVars, audited, mirror>>

\* A destination that is there is never cloned to again.
KillClone ==
  /\ cloning \in {"copy", "audit"} /\ Fault
  /\ cloning' = "killed"
  /\ UNCHANGED <<sessionVars, started, champion, sealVars, arm, audited, mirror>>

\* evolve agent audit-arms
AuditArms ==
  /\ cloning \in {"done", "killed"} /\ ~audited /\ Comparable
  /\ audited' = TRUE
  /\ UNCHANGED <<sessionVars, started, champion, sealVars, cloning, arm, mirror, faults>>

\* A generation in the second arm.
WorkInArm ==
  /\ cloning \in {"done", "killed"} /\ audited
  /\ LET rows == Merged(arm.rows, arm.id) \cup {"arm"}
     IN  arm' = [arm EXCEPT !.rows = rows] /\ mirror' = [mirror EXCEPT ![arm.id] = rows]
  /\ UNCHANGED <<sessionVars, started, champion, sealVars, cloning, audited, faults>>

------------------------------------------------------------------------------
(* seal_research, once per sealer. *)

SealerGoes(s, pc) == sealers' = [sealers EXCEPT ![s] = pc]

\* The generation whose turn it is, and what comes when its evaluation is complete.
Subject(s) == IF sealers[s] = "baseline" THEN "baseline" ELSE champion
After(s) == IF sealers[s] = "baseline" /\ champion # "baseline" THEN "final" ELSE "idle"

\* _has_complete_anchor
Sealed(g) == \E i \in DOMAIN anchors : anchors[i] = [gen |-> g, outcome |-> "complete"]

\* session_status must say "finished".
SealResearch(s) ==
  /\ sealers[s] = "idle" /\ started /\ Status = "finished"
  /\ SealerGoes(s, "baseline")
  /\ UNCHANGED <<sessionVars, started, champion, inside, anchors, armVars, mirror, faults>>

EvaluateSealed_Unlocked(s) ==
  /\ sealers[s] \in {"baseline", "final"} /\ s \notin inside
  /\ IF Sealed(Subject(s)) THEN SealerGoes(s, After(s)) /\ UNCHANGED inside
     ELSE inside' = inside \cup {s} /\ UNCHANGED sealers
  /\ UNCHANGED <<sessionVars, started, champion, anchors, armVars, mirror, faults>>

\* seal_agent_champion takes the workspace lock without waiting.
EvaluateSealed(s) ==
  /\ sealers[s] \in {"baseline", "final"} /\ s \notin inside
  /\ IF inside # {} THEN SealerGoes(s, "idle") /\ UNCHANGED inside
     ELSE IF Sealed(Subject(s)) THEN SealerGoes(s, After(s)) /\ UNCHANGED inside
     ELSE inside' = {s} /\ UNCHANGED sealers
  /\ UNCHANGED <<sessionVars, started, champion, anchors, armVars, mirror, faults>>

\* The line of the evaluation.  The champion's is not started when the baseline's is
\* not complete.
RecordSealed(s) ==
  /\ s \in inside /\ Len(anchors) < MaxSeals
  /\ \E outcome \in {"complete", "failed"} :
       /\ anchors' = Append(anchors, [gen |-> Subject(s), outcome |-> outcome])
       /\ SealerGoes(s, IF outcome = "complete" THEN After(s) ELSE "idle")
  /\ inside' = inside \ {s}
  /\ UNCHANGED <<sessionVars, started, champion, armVars, mirror, faults>>

KillSealer(s) ==
  /\ sealers[s] # "idle" /\ Fault
  /\ SealerGoes(s, "idle") /\ inside' = inside \ {s}
  /\ UNCHANGED <<sessionVars, started, champion, anchors, armVars, mirror>>

Next ==
  \/ StartSession \/ SessionStep
  \/ CloneArm \/ CopyPart \/ RotateIdentity \/ EndClone \/ CloneFails \/ KillClone
  \/ AuditArms \/ WorkInArm
  \/ \E s \in Sealers :
       SealResearch(s) \/ EvaluateSealed(s) \/ RecordSealed(s) \/ KillSealer(s)

Spec == ComparisonInit /\ [][Next]_vars

------------------------------------------------------------------------------
(* Properties. *)

\* What is sealed is opened once: only after the finish is on record, whichever sealers
\* race, die or are called again, a generation gets one complete sealed evaluation and
\* none after it, and the champion's comes after the baseline's; the session then stays
\* finished (execute_action, seal_research, seal_agent_champion).
SealedOnceAfterFinish ==
  /\ anchors # << >> => Lifecycle = "finished"
  /\ \A i, j \in DOMAIN anchors :
       /\ i < j /\ anchors[i].outcome = "complete" => anchors[j].gen # anchors[i].gen
       /\ anchors[j].gen = "child" =>
            \E k \in 1..j - 1 : anchors[k] = [gen |-> "baseline", outcome |-> "complete"]

\* No line of one arm reaches the archive of the other, through the copy or through a
\* mirror they share, when the person works in arms that an audit has passed: a clone
\* that was killed before its identity was written anew, or that copied an archive to
\* which a session was already writing, is not passed (clone_arm, audit_arm_pair).
ArmsStayApart ==
  /\ "arm" \notin mirror["source"]
  /\ audited => "source" \notin Merged(arm.rows, arm.id)
==============================================================================
