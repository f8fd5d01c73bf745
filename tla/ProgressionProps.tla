--------------------------- MODULE ProgressionProps ---------------------------
(***************************************************************************)
(* What a session promises while a launcher, a controller and a user work   *)
(* on it (Progression).                                                     *)
(***************************************************************************)
EXTENDS Progression

\* Nothing looks done that is not.  A deferred request leaves the queue by having
\* been carried out, or by being released on purpose; no kill, replay or duplicate
\* makes it look done.  And a session whose health records nothing has nothing
\* hidden: every action that took effect is completed in the journal, every
\* attempt of the controller ended well (agent_observability.session_health).
AckedIsDone ==
  /\ queue.status = "completed" => queue.resolved \/ Completed(queue.request.id)
  /\ exec = Idle /\ Health = "no_recorded_incidents" =>
       /\ \A id \in Ids : effects[id] > 0 => Completed(id)
       /\ \A a \in DOMAIN attempts : attempts[a].phase = "completed" /\ ~attempts[a].rejected

\* A killed import loses no directory: the content it replaces is in place or
\* in the attempt's backup, the content it brings is staged or in place; only a
\* user's own edit can change either.
ImportLosesNothing ==
  Prepared => \A d \in 1..Dirs :
    LET x == <<handoff.attempt, d>> IN
    /\ \/ handoff.old[d] \in {None, place[d]} \/ place[d] = Edited
       \/ x \in DOMAIN backups /\ backups[x] = handoff.old[d]
    /\ x \in staged \/ place[d] \in {handoff.attempt, Edited}

\* The journalled import of agent_handoff.py loses no file of either side, wherever
\* it is killed and rolled forward: ImportLosesNothing, and what a user edited stays
\* in place until it has been moved to a backup.
ImportIsSafe ==
  [][/\ ImportLosesNothing'
     /\ \A d \in 1..Dirs :
          place[d] = Edited /\ place'[d] # Edited =>
            \E x \in DOMAIN backups' : x[2] = d /\ backups'[x] = Edited]_progressionVars

\* Once the launcher has decided to stop it starts no controller and nothing that
\* costs, unless a user withdrew a request that it may have decided to carry out and
\* queued another in its place: drive_controller and drain_action read the queue one
\* after the other, without the session lock.
NothingPaidAfterStop ==
  [][stop => /\ UNCHANGED attempts
             /\ host.pc # "off" /\ exec = Idle /\ exec'.who = "host" =>
                  \/ exec'.request.kind \in Lifecycles
                  \/ \E r \in released : r.kind \in Lifecycles]_progressionVars

\* What no verb of the launcher or the user gets a session out of.
Stuck ==
  \/ orphan /\ host = Off
  \/ Unpriced
  \/ Terminal(BudgetStop.id) /\ ~Completed(BudgetStop.id)
  \/ Prepared /\ \E d \in 1..Dirs : place[d] = Edited

\* "Advance durable handoffs": under a user who follows its messages and does
\* not defer new work for ever, the launcher brings the research to a pause or
\* a finish.
ResearchRests ==
  \/ []<><<\E r \in Requests : Defer(r)>>_progressionVars
  \/ []<>(Lifecycle \in {"paused", "finished"} \/ Stuck)
==============================================================================
