----------------------------- MODULE Progression -----------------------------
(***************************************************************************)
(* The launcher of an agent session (agent_queue.drive_controller,          *)
(* agent_launcher, agent_handoff): it runs an external controller, takes    *)
(* over the one action the controller deferred, executes it while no model  *)
(* runs, and launches the controller again, until the research is paused or *)
(* finished or the launcher blocks.  An isolated controller returns files   *)
(* and a request; a journal (return-handoff.json) carries them into the     *)
(* workspace so that a killed import can be rolled forward.                 *)
(*                                                                          *)
(* The launcher (host) holds the progression lock; each step below is the   *)
(* code up to the next write.  A user may run any verb at any time, and     *)
(* verbs and launcher meet at the session lock, taken without waiting: who  *)
(* finds it taken raises.  A launcher that raises is "off"; a user may run   *)
(* it again.                                                                *)
(*                                                                          *)
(* Abstractions.  A directory's content is the number of the attempt that   *)
(* brought it (0 at the start, None when absent, Edited after a user's      *)
(* edit); the controller's tokens and wall time have the shape of its       *)
(* attempts and cost.                                                       *)
(***************************************************************************)
EXTENDS Session

CONSTANTS
  Dirs,              \* how many directories an isolated return replaces
  Modes,             \* {"shell", "isolated"} or a part of it
  MaxAttempts,       \* limits.max_attempts of the controller
  MaxControllerCost, \* limits.max_cost_usd of the controller
  MaxCorrections,    \* rejected requests in a row before the launcher stops (3)
  MaxKills,          \* bound: kills of the launcher or of a user's verb
  MaxEdits           \* bound: edits of a directory by a user

ASSUME ProgressionAssumption ==
  /\ {Dirs, MaxAttempts, MaxControllerCost, MaxCorrections, MaxKills, MaxEdits}
       \subseteq Nat
  /\ Modes \subseteq {"shell", "isolated"}
  /\ None \notin Int \cup {"host", "queued", "completed", "prepared"}

VARIABLES
  mode,        \* whether the controller runs in a sandbox
  queue,       \* deferred-action.json
  handoff,     \* return-handoff.json
  place,       \* place[d]: content of directory d in the workspace
  staged,      \* <<attempt, d>>: an accepted-d directory of an attempt
  backups,     \* backups[<<attempt, d>>]: content of its previous-d directory
  attempts,    \* attempts.jsonl, one record per started attempt
  orphan,      \* the next attempt's directory exists, its started event does not
  launched,    \* controller/manifest.json exists
  correction,  \* correction.json
  stop,        \* budget-stop.json exists
  host,        \* the launcher
  released,    \* history: requests a user released from the queue
  kills, edits

hostVars == <<mode, queue, handoff, place, staged, backups, attempts, orphan,
              launched, correction, stop, host, released, kills, edits>>
progressionVars == <<sessionVars, hostVars>>

Edited == 0 - 1
Off == [pc |-> "off", request |-> None, replay |-> FALSE, ok |-> FALSE,
        cost |-> None, back |-> "loop"]

------------------------------------------------------------------------------
(* What the files say. *)

\* The session lock: an action in execution or an import holds it.
LockFree == exec = Idle /\ host.pc # "apply"

Prepared == handoff.status = "prepared"

Queued == queue.status = "queued"

AttemptPending ==
  attempts # << >> /\ attempts[Len(attempts)].phase = "started"

Unpriced == \E a \in DOMAIN attempts :
  attempts[a].phase \in {"completed", "failed"} /\ attempts[a].cost = None

ControllerCost ==
  LET total[n \in 0..Len(attempts)] ==
        IF n = 0 THEN 0
        ELSE total[n - 1] + (IF attempts[n].cost = None THEN 0 ELSE attempts[n].cost)
  IN  total[Len(attempts)]

\* agent_launcher._status
ControllerReasons ==
  {r \in {"attempts", "controller_cost_usd", "unpriced_controller_cost",
          "unpriced_candidate_cost"} :
     CASE r = "attempts" -> Len(attempts) >= MaxAttempts
       [] r = "controller_cost_usd" -> ~Unpriced /\ ControllerCost >= MaxControllerCost
       [] r = "unpriced_controller_cost" -> Unpriced
       [] r = "unpriced_candidate_cost" -> unpriced}

\* _defer_action_locked, validate_only
Deferrable(r) ==
  /\ Welcome(r)
  /\ Started(r.id) => Recorded(r.id) = r
  /\ \/ queue.status = None
     \/ queue.request = r
     \/ queue.status = "completed" /\ queue.request.id # r.id

\* _defer_action_locked on a request it accepts.
QueueWith(r) ==
  IF queue.request = r THEN queue
  ELSE [status |-> "queued", request |-> r, resolved |-> FALSE]

\* agent_research.correction: the next correction, if the last attempt's request
\* did not parse.
Correction ==
  LET n == Len(attempts) IN
  IF n = 0 \/ ~attempts[n].rejected THEN None
  ELSE [attempt |-> n,
        count |-> IF correction.attempt = n - 1 THEN correction.count + 1 ELSE 1]

\* session_health: what went wrong, and what is still open.  Recovered handoffs and
\* failed evaluations, which only add incidents, are left out.
Incidents ==
  {<<"action_rejected", a>> : a \in {a \in DOMAIN attempts : attempts[a].rejected}}
  \cup {<<"action_failed", e>> : e \in {e \in DOMAIN journal : journal[e].phase = "failed"}}
  \cup {<<"controller_failed", a>> : a \in {a \in DOMAIN attempts :
                                               attempts[a].phase = "failed"}}

Unresolved ==
  {kind \in {"candidate_cost_unknown", "action_outcome_unknown",
             "controller_outcome_pending", "handoff_ack_pending"} :
     CASE kind = "candidate_cost_unknown" -> unpriced
       [] kind = "action_outcome_unknown" -> Status = "interrupted"
       [] kind = "controller_outcome_pending" ->
            \E a \in DOMAIN attempts : attempts[a].phase = "started"
       [] kind = "handoff_ack_pending" -> Queued /\ Terminal(queue.request.id)}

Health == IF Unresolved # {} THEN "attention_required"
          ELSE IF Incidents # {} THEN "incidents_recorded" ELSE "no_recorded_incidents"

------------------------------------------------------------------------------
(* The launcher. *)

InitProgression ==
  /\ Init
  /\ mode \in Modes
  /\ queue = [status |-> None, request |-> None, resolved |-> FALSE]
  /\ handoff = [status |-> None, request |-> None, attempt |-> 0, old |-> << >>]
  /\ place = [d \in 1..Dirs |-> IF d = 1 THEN 0 ELSE None]
  /\ staged = {} /\ backups = [x \in {} |-> None]
  /\ attempts = << >> /\ orphan = FALSE /\ launched = FALSE
  /\ correction = [attempt |-> 0, count |-> 0]
  /\ stop = FALSE
  /\ host = Off
  /\ released = {} /\ kills = 0 /\ edits = 0

Goto(pc) == host' = [host EXCEPT !.pc = pc]
Block == host' = Off

\* drive_controller raises, or returns because the research rests.
RunController ==
  /\ host = Off
  /\ host' = [Off EXCEPT !.pc = "loop"]
  /\ UNCHANGED <<sessionVars, mode, queue, handoff, place, staged, backups, attempts,
                 orphan, launched, correction, stop, released, kills, edits>>

\* recover_handoff: roll an interrupted import forward, under the session lock.
Recover ==
  /\ host.pc = "loop" /\ Prepared
  /\ IF LockFree THEN host' = [host EXCEPT !.pc = "apply", !.back = "loop"] ELSE Block
  /\ UNCHANGED <<sessionVars, mode, queue, handoff, place, staged, backups, attempts,
                 orphan, launched, correction, stop, released, kills, edits>>

Decide_DrainsFirst ==
  /\ host.pc = "loop" /\ ~Prepared
  /\ IF (launched /\ AttemptPending) \/ Status \in {"paused", "finished"} THEN Block
     ELSE IF Queued THEN Goto("drain")
     ELSE Goto(IF launched /\ ControllerReasons \cup ExhaustedReasons # {}
               THEN "close" ELSE "launch")
  /\ UNCHANGED <<sessionVars, mode, queue, handoff, place, staged, backups, attempts,
                 orphan, launched, correction, stop, released, kills, edits>>

Decide_NeverCloses ==
  /\ host.pc = "loop" /\ ~Prepared
  /\ IF (launched /\ AttemptPending) \/ Status \in {"paused", "finished"} THEN Block
     ELSE IF Queued THEN Goto("drain") ELSE Goto("launch")
  /\ UNCHANGED <<sessionVars, mode, queue, handoff, place, staged, backups, attempts,
                 orphan, launched, correction, stop, released, kills, edits>>

\* The order of drive_controller's tests, on one reading of the state.
Decide ==
  /\ host.pc = "loop" /\ ~Prepared
  /\ LET resting == Status \in {"paused", "finished"}
         reasons == launched /\ ControllerReasons \cup ExhaustedReasons # {}
         wakes == Queued /\ queue.request.kind \in {"resume_research", "finish_research"}
         ends == Queued /\ queue.request.kind = "finish_research"
     IN  IF launched /\ AttemptPending THEN Block
         ELSE IF Status = "paused" /\ wakes THEN Goto("drain")
         ELSE IF resting THEN Block
         ELSE IF reasons THEN Goto(IF ends THEN "drain" ELSE "close")
         ELSE Goto(IF Queued THEN "drain" ELSE "launch")
  /\ UNCHANGED <<sessionVars, mode, queue, handoff, place, staged, backups, attempts,
                 orphan, launched, correction, stop, released, kills, edits>>

\* drain_action reads the queue without the session lock.
ReadQueue ==
  /\ host.pc = "drain"
  /\ IF Queued
     THEN host' = [host EXCEPT !.pc = "submit", !.request = queue.request,
                               !.replay = Completed(queue.request.id)]
     ELSE Goto("loop")
  /\ UNCHANGED <<sessionVars, mode, queue, handoff, place, staged, backups, attempts,
                 orphan, launched, correction, stop, released, kills, edits>>

\* execute_action on behalf of the launcher: a request with a terminal receipt
\* returns it, one that is refused raises.
Submit(r, executing, duplicate) ==
  /\ \/ /\ LockFree /\ ~Prepared /\ Admitted(r)
        /\ Begin("host", r) /\ Goto(executing)
     \/ /\ LockFree /\ ~Prepared /\ Terminal(r.id) /\ Recorded(r.id) = r
        /\ duplicate
        /\ UNCHANGED sessionVars
     \/ /\ ~LockFree \/ Prepared \/ (~Terminal(r.id) /\ ~Admitted(r))
          \/ (Terminal(r.id) /\ Recorded(r.id) # r)
        /\ Block
        /\ UNCHANGED sessionVars
  /\ UNCHANGED <<mode, queue, handoff, place, staged, backups, attempts, orphan,
                 launched, correction, stop, released, kills, edits>>

SubmitQueued ==
  /\ host.pc = "submit"
  /\ Submit(host.request, "executing",
            IF Completed(host.request.id) THEN Goto("ack") ELSE Block)

Executed_AnyPhase ==
  /\ host.pc \in {"executing", "closing"} /\ exec.who # "host"
  /\ Goto(IF host.pc = "closing" THEN "loop" ELSE "ack")
  /\ UNCHANGED <<sessionVars, mode, queue, handoff, place, staged, backups, attempts,
                 orphan, launched, correction, stop, released, kills, edits>>

\* execute_action returns the receipt, or raises after a failure.
Executed ==
  /\ host.pc \in {"executing", "closing"} /\ exec.who # "host"
  /\ LET id == IF host.pc = "closing" THEN BudgetStop.id ELSE host.request.id IN
     IF Completed(id) THEN Goto(IF host.pc = "closing" THEN "loop" ELSE "ack") ELSE Block
  /\ UNCHANGED <<sessionVars, mode, queue, handoff, place, staged, backups, attempts,
                 orphan, launched, correction, stop, released, kills, edits>>

\* The end of drain_action.
Acknowledge ==
  /\ host.pc = "ack"
  /\ IF LockFree /\ Queued /\ queue.request = host.request
     THEN queue' = [queue EXCEPT !.status = "completed"] /\ Goto("loop")
     ELSE UNCHANGED queue /\ Block
  /\ UNCHANGED <<sessionVars, mode, handoff, place, staged, backups, attempts,
                 orphan, launched, correction, stop, released, kills, edits>>

\* _close_budget, up to its first write.
CloseBudget ==
  /\ host.pc = "close"
  /\ IF Status \in {"running", "interrupted"} \/ AttemptPending \/ Unpriced
     THEN UNCHANGED stop /\ Block
     ELSE stop' = TRUE /\ Goto("release")
  /\ UNCHANGED <<sessionVars, mode, queue, handoff, place, staged, backups, attempts,
                 orphan, launched, correction, released, kills, edits>>

\* resolve_deferred within its lock.
Releasable == LockFree /\ queue.status # None /\ Status \notin {"running", "interrupted"}
Release == queue' = IF Queued
                    THEN [queue EXCEPT !.status = "completed", !.resolved = TRUE] ELSE queue

CloseReleases ==
  /\ host.pc = "release"
  /\ CASE queue.status = None -> UNCHANGED queue /\ Goto("stop")
       [] queue.status # None /\ Releasable -> Release /\ Goto("stop")
       [] OTHER -> UNCHANGED queue /\ Block
  /\ UNCHANGED <<sessionVars, mode, handoff, place, staged, backups, attempts,
                 orphan, launched, correction, stop, released, kills, edits>>

\* The end of _close_budget, which looks at no phase of a duplicate.
CloseFinishes ==
  /\ host.pc = "stop"
  /\ Submit(BudgetStop, "closing", Goto("loop"))

------------------------------------------------------------------------------
(* launch_controller *)

\* Up to attempt_dir.mkdir().
Launch ==
  /\ host.pc = "launch"
  /\ launched' = TRUE
  /\ IF AttemptPending THEN UNCHANGED orphan /\ Block
     ELSE IF Status \in {"finished", "paused"} THEN UNCHANGED orphan /\ Goto("after")
     ELSE IF Status \in {"running", "interrupted"} \/ ControllerReasons # {} \/ orphan
     THEN UNCHANGED orphan /\ Block
     ELSE orphan' = TRUE /\ Goto("start")
  /\ UNCHANGED <<sessionVars, mode, queue, handoff, place, staged, backups, attempts,
                 correction, stop, released, kills, edits>>

StartAttempt ==
  /\ host.pc = "start"
  /\ attempts' = Append(attempts, [phase |-> "started", cost |-> 0, rejected |-> FALSE])
  /\ orphan' = FALSE
  /\ Goto("control")
  /\ UNCHANGED <<sessionVars, mode, queue, handoff, place, staged, backups, launched,
                 correction, stop, released, kills, edits>>

\* The controller exits.  Its usage receipt may be missing; an isolated one that
\* succeeded returns a request, or one that does not parse.
ControllerExits ==
  /\ host.pc = "control"
  /\ \E ok, rejected \in BOOLEAN, cost \in Costs \cup {None}, r \in Requests :
       LET good == ok /\ cost # None
           returns == good /\ mode = "isolated" /\ ~rejected
       IN  /\ rejected => mode = "shell" \/ good
           /\ attempts' = [attempts EXCEPT ![Len(attempts)].rejected = rejected]
           /\ host' = [host EXCEPT !.pc = IF returns THEN "return" ELSE "record",
                                   !.ok = good, !.cost = cost,
                                   !.request = IF returns THEN r ELSE None]
  /\ UNCHANGED <<sessionVars, mode, queue, handoff, place, staged, backups, orphan,
                 launched, correction, stop, released, kills, edits>>

\* commit_handoff up to its journal, or refused before it.
CommitHandoff ==
  IF LockFree /\ ~Prepared /\ Deferrable(host.request)
  THEN /\ handoff' = [status |-> "prepared", request |-> host.request,
                      attempt |-> Len(attempts), old |-> place]
       /\ host' = [host EXCEPT !.pc = "apply", !.back = "record"]
  ELSE /\ UNCHANGED handoff
       /\ host' = [host EXCEPT !.pc = "record", !.ok = FALSE]

\* accept_isolated_return: stage the files, then commit_handoff.
AcceptReturn ==
  /\ host.pc = "return"
  /\ staged' = staged \cup {<<Len(attempts), d>> : d \in 1..Dirs}
  /\ CommitHandoff
  /\ UNCHANGED <<sessionVars, mode, queue, place, backups, attempts, orphan,
                 launched, correction, stop, released, kills, edits>>

\* _apply raises: the journal stays, an attempt in progress fails.
Refuse == host' = IF host.back = "loop" THEN Off
                  ELSE [host EXCEPT !.pc = "record", !.ok = FALSE]

ApplyBegins ==
  LET a == handoff.attempt IN
  [todo |-> {d \in 1..Dirs : <<a, d>> \in staged},
   wrong |-> {d \in 1..Dirs : <<a, d>> \notin staged /\ place[d] # a}]

ApplyMove_Deletes ==
  /\ host.pc = "apply" /\ ApplyBegins.todo # {}
  /\ LET a == handoff.attempt
         d == CHOOSE x \in ApplyBegins.todo : \A y \in ApplyBegins.todo : x <= y
     IN  /\ IF place[d] # None
            THEN place' = [place EXCEPT ![d] = None] /\ UNCHANGED staged
            ELSE place' = [place EXCEPT ![d] = a] /\ staged' = staged \ {<<a, d>>}
  /\ UNCHANGED <<sessionVars, mode, queue, handoff, backups, attempts, orphan, host,
                 launched, correction, stop, released, kills, edits>>

\* One rename of _apply: the directories are taken in order, each is moved to
\* its backup and replaced; a directory that is not what the journal says is
\* refused.
ApplyMove ==
  /\ host.pc = "apply" /\ ApplyBegins.todo # {}
  /\ LET a == handoff.attempt
         d == CHOOSE x \in ApplyBegins.todo : \A y \in ApplyBegins.todo : x <= y
         saved == <<a, d>> \in DOMAIN backups
     IN  IF \/ \E w \in ApplyBegins.wrong : w < d
            \/ place[d] # None /\ (saved \/ place[d] # handoff.old[d])
            \/ place[d] = None /\ handoff.old[d] # None /\ ~saved
         THEN Refuse /\ UNCHANGED <<place, staged, backups>>
         ELSE IF place[d] # None
         THEN /\ backups' = [x \in DOMAIN backups \cup {<<a, d>>} |->
                               IF x = <<a, d>> THEN place[d] ELSE backups[x]]
              /\ place' = [place EXCEPT ![d] = None]
              /\ UNCHANGED <<staged, host>>
         ELSE /\ place' = [place EXCEPT ![d] = a]
              /\ staged' = staged \ {<<a, d>>}
              /\ UNCHANGED <<backups, host>>
  /\ UNCHANGED <<sessionVars, mode, queue, handoff, attempts, orphan,
                 launched, correction, stop, released, kills, edits>>

\* The end of _apply: the request is queued, then the journal closed.
ApplyQueues ==
  /\ host.pc = "apply" /\ ApplyBegins.todo = {}
  /\ IF ApplyBegins.wrong # {} \/ ~Deferrable(handoff.request)
     THEN Refuse /\ UNCHANGED <<queue, handoff>>
     ELSE IF QueueWith(handoff.request) # queue
     THEN queue' = QueueWith(handoff.request) /\ UNCHANGED <<handoff, host>>
     ELSE /\ handoff' = [handoff EXCEPT !.status = "completed"]
          /\ UNCHANGED queue /\ Goto(host.back)
  /\ UNCHANGED <<sessionVars, mode, place, staged, backups, attempts, orphan,
                 launched, correction, stop, released, kills, edits>>

\* The terminal event of an attempt; a failed one raises.
RecordAttempt ==
  /\ host.pc = "record"
  /\ attempts' = [attempts EXCEPT ![Len(attempts)] =
                    [@ EXCEPT !.phase = IF host.ok THEN "completed" ELSE "failed",
                              !.cost = host.cost]]
  /\ IF host.ok THEN Goto("after") ELSE Block
  /\ UNCHANGED <<sessionVars, mode, queue, handoff, place, staged, backups, orphan,
                 launched, correction, stop, released, kills, edits>>

\* drive_controller after launch_controller: a controller that asked for nothing
\* is launched again only to correct a request that did not parse.
AfterAttempt ==
  /\ host.pc = "after"
  /\ IF Status \in {"finished", "paused"} \/ Queued
     THEN Goto("loop") /\ UNCHANGED correction
     ELSE IF Correction # None
     THEN /\ correction' = Correction
          /\ IF Correction.count < MaxCorrections THEN Goto("loop") ELSE Block
     ELSE Block /\ UNCHANGED correction
  /\ UNCHANGED <<sessionVars, mode, queue, handoff, place, staged, backups, attempts,
                 orphan, launched, stop, released, kills, edits>>

\* Steps the launcher's process takes on its own.
HostStep ==
  \/ Recover \/ Decide \/ ReadQueue \/ SubmitQueued \/ Executed \/ Acknowledge
  \/ CloseBudget \/ CloseReleases \/ CloseFinishes
  \/ Launch \/ StartAttempt \/ ControllerExits \/ AcceptReturn
  \/ ApplyMove \/ ApplyQueues \/ RecordAttempt \/ AfterAttempt

------------------------------------------------------------------------------
(* The action in execution, users, and kills. *)

ActionStep == (Dispatch \/ WriteReceipt \/ CloseSession) /\ UNCHANGED hostVars

\* agent act
Act(r) ==
  /\ LockFree /\ ~Prepared
  /\ Begin("user", r)
  /\ UNCHANGED hostVars

\* agent act --defer, by a user or by a controller in the host's shell.
Defer(r) ==
  /\ LockFree /\ ~Prepared /\ Deferrable(r)
  /\ queue' = QueueWith(r)
  /\ UNCHANGED <<sessionVars, mode, handoff, place, staged, backups, attempts,
                 orphan, launched, correction, stop, host, released, kills, edits>>

ResolveAction == LockFree /\ ResolveInterrupted /\ UNCHANGED hostVars

\* resolve_deferred
ResolveDeferred ==
  /\ Queued /\ Releasable
  /\ Release
  /\ released' = released \cup {queue.request}
  /\ UNCHANGED <<sessionVars, mode, handoff, place, staged, backups, attempts,
                 orphan, launched, correction, stop, host, kills, edits>>

\* resolve_controller_interrupted, which needs the controller lock.
ResolveAttempt ==
  /\ host.pc \notin {"launch", "start", "control", "return", "apply", "record"}
  /\ launched /\ AttemptPending
  /\ \E cost \in Costs \cup {None} :
       attempts' = [attempts EXCEPT ![Len(attempts)] =
                      [@ EXCEPT !.phase = "failed", !.cost = cost]]
  /\ UNCHANGED <<sessionVars, mode, queue, handoff, place, staged, backups, orphan,
                 launched, correction, stop, host, released, kills, edits>>

\* A user's editor knows no lock.
EditDirectory(d) ==
  /\ edits < MaxEdits /\ edits' = edits + 1
  /\ place[d] # None
  /\ place' = [place EXCEPT ![d] = Edited]
  /\ UNCHANGED <<sessionVars, mode, queue, handoff, staged, backups, attempts,
                 orphan, launched, correction, stop, host, released, kills>>

KillHost ==
  /\ kills < MaxKills /\ kills' = kills + 1
  /\ host # Off /\ host' = Off
  /\ IF exec.who = "host" THEN KillAction ELSE UNCHANGED sessionVars
  /\ UNCHANGED <<mode, queue, handoff, place, staged, backups, attempts,
                 orphan, launched, correction, stop, released, edits>>

KillUser ==
  /\ kills < MaxKills /\ kills' = kills + 1
  /\ exec.who = "user" /\ KillAction
  /\ UNCHANGED <<mode, queue, handoff, place, staged, backups, attempts,
                 orphan, launched, correction, stop, host, released, edits>>

TimePasses == Expire /\ UNCHANGED hostVars

ProgressionNext ==
  \/ RunController \/ HostStep \/ ActionStep
  \/ \E r \in Requests : Act(r) \/ Defer(r)
  \/ ResolveAction \/ ResolveDeferred \/ ResolveAttempt
  \/ \E d \in 1..Dirs : EditDirectory(d)
  \/ KillHost \/ KillUser \/ TimePasses

ProgressionSpec == InitProgression /\ [][ProgressionNext]_progressionVars

\* A launcher and an action run on; a user follows the messages: the launcher
\* is run again, an interrupted action or attempt is resolved, a deferred
\* request whose action failed or is refused is released.
FairSpec ==
  /\ ProgressionSpec
  /\ WF_progressionVars(HostStep) /\ WF_progressionVars(ActionStep)
  /\ WF_progressionVars(RunController)
  /\ WF_progressionVars(ResolveAction) /\ WF_progressionVars(ResolveAttempt)
  /\ SF_progressionVars(host = Off /\ ResolveDeferred)
==============================================================================
