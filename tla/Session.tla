------------------------------- MODULE Session -------------------------------
(***************************************************************************)
(* An Agent Driven session (agent_driver.py, agent_research.py): an outer   *)
(* agent asks for typed actions, the host runs them one at a time under the *)
(* session lock and writes a "started" and a terminal receipt for each to   *)
(* actions.jsonl.  Everything the session knows (its lifecycle, budget,     *)
(* active optimizer, whether an action was interrupted) is read off that    *)
(* journal.                                                                 *)
(*                                                                          *)
(* Abstractions.  A request is an id, a kind and, for adopt_optimizer, the  *)
(* digests it expects and brings.  "observe" stands for every kind that     *)
(* neither costs nor changes the ledger (observe, fork, checkpoint,         *)
(* publish_best), "commit" for the kinds that only change the ledger        *)
(* (commit, finalize).  The ledger's digest is a version number; the        *)
(* control tree never changes.  Costs are small naturals.                   *)
(***************************************************************************)
EXTENDS Integers, Sequences, FiniteSets

CONSTANTS
  None,
  Requests,          \* the requests an agent or a user may make
  Initial,           \* digest of the optimizer the session starts with
  Costs,             \* what an operator or an evaluation may cost
  MaxActions, MaxOperatorCalls, MaxEvaluations, MaxCost,
  Timed,             \* whether the session has a wall budget
  Metered            \* whether every candidate run reports its cost

Lifecycles == {"pause_research", "resume_research", "finish_research"}
Paying == {"operator", "evaluate"}
Kinds == {"observe", "commit", "adopt_optimizer"} \cup Paying \cup Lifecycles

\* The finish that closing an exhausted budget asks for.
BudgetStop == [id |-> "host-budget-stop", kind |-> "finish_research",
               expected |-> None, optimizer |-> None]

AllRequests == Requests \cup {BudgetStop}
Ids == {r.id : r \in AllRequests}
Optimizers == {Initial} \cup {r.optimizer : r \in AllRequests}

ASSUME SessionAssumption ==
  /\ \A r \in Requests : /\ DOMAIN r = {"id", "kind", "expected", "optimizer"}
                         /\ r.kind \in Kinds
  /\ Costs \subseteq Nat
  /\ {MaxActions, MaxOperatorCalls, MaxEvaluations, MaxCost} \subseteq Nat
  /\ {Timed, Metered} \subseteq BOOLEAN

VARIABLES
  journal,    \* actions.jsonl
  exec,       \* the action in execution, which holds the session lock
  active,     \* whether the marker runs/agent-driven/ACTIVE exists
  ledger,     \* version of archive.jsonl
  artifacts,  \* cost in the operator's usage.json and in the evaluated row
  snapshots,  \* digests under optimizer/versions
  expired,    \* max_wall_s has passed since the session was created
  unpriced,   \* an isolated candidate left a receipt of unknown cost
  effects,    \* history: how often an action id was dispatched
  paid        \* history: what dispatched actions wrote as their cost

sessionVars == <<journal, exec, active, ledger, artifacts, snapshots, expired,
                 unpriced, effects, paid>>

Idle == [who |-> None, pc |-> "idle", request |-> None, ok |-> FALSE, cost |-> 0]

------------------------------------------------------------------------------
(* What the journal says. *)

Started(id) == \E e \in DOMAIN journal :
  journal[e].phase = "started" /\ journal[e].request.id = id

\* _terminal_event
Terminal(id) == \E e \in DOMAIN journal :
  journal[e].phase \in {"completed", "failed"} /\ journal[e].request.id = id

Completed(id) == \E e \in DOMAIN journal :
  journal[e].phase = "completed" /\ journal[e].request.id = id

\* The request an id was started with.
Recorded(id) ==
  (CHOOSE e \in {journal[k] : k \in DOMAIN journal} :
     e.phase = "started" /\ e.request.id = id).request

\* _pending_action: started and not terminal.
Pending == {id \in Ids : Started(id) /\ ~Terminal(id)}

Latest(kinds) ==
  LET hits == {e \in DOMAIN journal : /\ journal[e].phase = "completed"
                                      /\ journal[e].request.kind \in kinds}
  IN  IF hits = {} THEN None
      ELSE journal[CHOOSE e \in hits : \A f \in hits : f <= e].request

\* agent_research.project
Lifecycle ==
  LET last == Latest(Lifecycles) IN
  IF last = None \/ last.kind = "resume_research" THEN "active"
  ELSE IF last.kind = "pause_research" THEN "paused" ELSE "finished"

ActiveOptimizer ==
  LET last == Latest({"adopt_optimizer"}) IN
  IF last = None THEN Initial ELSE last.optimizer

StartedOf(kinds) ==
  {e \in DOMAIN journal : /\ journal[e].phase = "started"
                          /\ journal[e].request.kind \in kinds}

Budgeted == Cardinality(StartedOf(Kinds \ {"finish_research"}))
OperatorCalls == Cardinality(StartedOf({"operator"}))
Evaluations == Cardinality(StartedOf({"evaluate"}))

ObservedCost ==
  LET total[n \in 0..Len(journal)] ==
        IF n = 0 THEN 0 ELSE total[n - 1] + journal[n].cost
  IN  total[Len(journal)]

\* _derive_status
ExhaustedReasons ==
  {r \in {"unpriced_candidate_cost", "actions", "cost_usd", "wall_s"} :
     CASE r = "unpriced_candidate_cost" -> unpriced
       [] r = "actions" -> Budgeted >= MaxActions
       [] r = "cost_usd" -> ObservedCost >= MaxCost
       [] r = "wall_s" -> expired}

Status ==
  IF Pending # {} THEN (IF exec = Idle THEN "interrupted" ELSE "running")
  ELSE IF Lifecycle # "active" THEN Lifecycle
  ELSE IF ExhaustedReasons # {} THEN "exhausted" ELSE "active"

\* _assert_workspace_integrity: the ledger is what the last terminal receipt,
\* or the manifest, says it is.
ExpectedLedger ==
  LET hits == {e \in DOMAIN journal : journal[e].phase \in {"completed", "failed"}}
  IN  IF hits = {} THEN 0
      ELSE journal[CHOOSE e \in hits : \A f \in hits : f <= e].after

Intact == ledger = ExpectedLedger

\* What a session in this status may be asked for.
Welcome(r) ==
  \/ Status \in {"active", "exhausted"}
  \/ Status = "paused" /\ r.kind \in {"resume_research", "finish_research"}

SubBudget_Completed(r) ==
  /\ r.kind = "operator" => OperatorCalls < MaxOperatorCalls
  /\ r.kind = "evaluate" => ~\E q \in Requests : q.kind = "evaluate" /\ Completed(q.id)

SubBudget(r) ==
  /\ r.kind = "operator" => OperatorCalls < MaxOperatorCalls
  /\ r.kind = "evaluate" => Evaluations < MaxEvaluations

Admitted_Retry(r) ==
  /\ ~Completed(r.id) /\ Pending = {}
  /\ Lifecycle # "finished" /\ Intact /\ Welcome(r)
  /\ Status = "exhausted" => r.kind = "finish_research"
  /\ SubBudget(r)

Admitted_AnyLifecycle(r) ==
  /\ ~Terminal(r.id) /\ Pending = {} /\ Intact
  /\ Status = "exhausted" => r.kind = "finish_research"
  /\ SubBudget(r)

\* execute_action's checks for an id without a terminal receipt.
Admitted(r) ==
  /\ ~Terminal(r.id) /\ Pending = {}
  /\ Lifecycle # "finished"
  /\ Intact
  /\ Welcome(r)
  /\ Status = "exhausted" => r.kind = "finish_research"
  /\ SubBudget(r)

------------------------------------------------------------------------------
(* Steps. *)

Receipt(phase, r, cost) ==
  [phase |-> phase, request |-> r, cost |-> cost, after |-> ledger]

\* start_session: a fresh session over a certified baseline.
Init ==
  /\ journal = << >> /\ exec = Idle
  /\ active = TRUE
  /\ ledger = 0
  /\ artifacts = [k \in Paying |-> 0]
  /\ snapshots = {Initial}
  /\ expired = FALSE /\ unpriced = FALSE
  /\ effects = [id \in Ids |-> 0] /\ paid = 0

\* execute_action up to the started receipt.
Begin(who, r) ==
  /\ exec = Idle
  /\ Admitted(r)
  /\ journal' = Append(journal, Receipt("started", r, 0))
  /\ exec' = [Idle EXCEPT !.who = who, !.pc = "dispatch", !.request = r]
  /\ UNCHANGED <<active, ledger, artifacts, snapshots, expired, unpriced,
                 effects, paid>>

Effect_NoSnapshot(r, cost) ==
  /\ artifacts' = IF r.kind \in Paying
                  THEN [artifacts EXCEPT ![r.kind] = cost] ELSE artifacts
  /\ paid' = IF r.kind \in Paying THEN paid + cost ELSE paid
  /\ ledger' = IF r.kind \in {"commit", "evaluate"} THEN ledger + 1 ELSE ledger
  /\ UNCHANGED <<snapshots, unpriced>>

\* The part of _dispatch that can be seen outside: the cost an operator or an
\* evaluation writes, the ledger line of a commit, a gate or an evaluation, the
\* frozen snapshot of an optimizer.
Effect(r, cost) ==
  /\ artifacts' = IF r.kind \in Paying
                  THEN [artifacts EXCEPT ![r.kind] = cost] ELSE artifacts
  /\ paid' = IF r.kind \in Paying THEN paid + cost ELSE paid
  /\ ledger' = IF r.kind \in {"commit", "evaluate"} THEN ledger + 1 ELSE ledger
  /\ snapshots' = IF r.kind = "adopt_optimizer"
                  THEN snapshots \cup {r.optimizer} ELSE snapshots
  /\ unpriced' \in (IF r.kind \in Paying /\ ~Metered THEN {unpriced, TRUE}
                                                 ELSE {unpriced})

\* adopt_optimizer compares the digest its agent saw with the active one.
Stale(r) == r.kind = "adopt_optimizer" /\ r.expected # ActiveOptimizer

\* _dispatch: it succeeds, or raises before or after its effect.
Dispatch ==
  /\ exec.pc = "dispatch"
  /\ LET r == exec.request IN
     /\ effects' = [effects EXCEPT ![r.id] = @ + 1]
     /\ \/ /\ ~Stale(r)
           /\ \E cost \in (IF r.kind \in Paying THEN Costs ELSE {0}), ok \in BOOLEAN :
                /\ Effect(r, cost)
                /\ exec' = [exec EXCEPT !.pc = "receipt", !.ok = ok, !.cost = cost]
        \/ /\ exec' = [exec EXCEPT !.pc = "receipt"]
           /\ UNCHANGED <<artifacts, paid, ledger, snapshots, unpriced>>
  /\ UNCHANGED <<journal, active, expired>>

ObservedActionCost_Free(r) == 0

\* _observed_action_cost: what the artifacts of the action say.
ObservedActionCost(r) == IF r.kind \in Paying THEN artifacts[r.kind] ELSE 0

\* The terminal receipt of execute_action.
WriteReceipt ==
  /\ exec.pc = "receipt"
  /\ LET r == exec.request IN
     /\ journal' = Append(journal,
          IF exec.ok THEN Receipt("completed", r, exec.cost)
          ELSE Receipt("failed", r, ObservedActionCost(r)))
     /\ exec' = IF exec.ok /\ r.kind = "finish_research"
                THEN [exec EXCEPT !.pc = "close"] ELSE Idle
  /\ UNCHANGED <<active, ledger, artifacts, snapshots, expired, unpriced,
                 effects, paid>>

\* execute_action removes the ACTIVE marker once the research is finished.
CloseSession ==
  /\ exec.pc = "close"
  /\ active' = FALSE /\ exec' = Idle
  /\ UNCHANGED <<journal, ledger, artifacts, snapshots, expired, unpriced,
                 effects, paid>>

\* The process dies: the kernel drops its lock.
KillAction ==
  /\ exec # Idle
  /\ exec' = Idle
  /\ UNCHANGED <<journal, active, ledger, artifacts, snapshots, expired, unpriced,
                 effects, paid>>

\* resolve_interrupted: a user marks the interrupted action failed.
ResolveInterrupted ==
  /\ exec = Idle
  /\ \E id \in Pending :
       LET r == Recorded(id) IN
       journal' = Append(journal, Receipt("failed", r, ObservedActionCost(r)))
  /\ UNCHANGED <<exec, active, ledger, artifacts, snapshots, expired, unpriced,
                 effects, paid>>

Expire ==
  /\ Timed /\ ~expired /\ expired' = TRUE
  /\ UNCHANGED <<journal, exec, active, ledger, artifacts, snapshots, unpriced,
                 effects, paid>>

SessionStepOf(callers) ==
  \/ \E who \in callers, r \in AllRequests : Begin(who, r)
  \/ Dispatch \/ WriteReceipt \/ CloseSession
  \/ KillAction \/ ResolveInterrupted \/ Expire

SessionNext == SessionStepOf({"host", "user"})

SessionSpec == Init /\ [][SessionNext]_sessionVars

------------------------------------------------------------------------------
(* Properties. *)

\* "Repeating a completed action ID returns its terminal receipt instead of
\* executing it again", and an interrupted one is never restarted: whatever dies and
\* whoever retries, an id is dispatched at most once (execute_action).
DispatchedOnce == \A id \in Ids : effects[id] <= 1

\* What the journal says is true: DispatchedOnce; what it says of cost covers every
\* cost that was written once no action is in execution or interrupted; and the
\* optimizer it names was frozen before it was named (execute_action,
\* resolve_interrupted, adopt_optimizer).
JournalIsTrue ==
  /\ DispatchedOnce
  /\ Pending = {} => ObservedCost >= paid
  /\ ActiveOptimizer \in snapshots

\* The budgets of _assert_sub_budget survive kills, failures and resolutions: no
\* sub-budget is passed, and the action budget by nothing but the finish, which does
\* not count, and attempts to resume a paused session, which do not look at it.
BudgetsHold ==
  /\ Cardinality(StartedOf(Kinds \ {"finish_research", "resume_research"})) <= MaxActions
  /\ OperatorCalls <= MaxOperatorCalls
  /\ Evaluations <= MaxEvaluations
==============================================================================
