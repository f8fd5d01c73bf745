-------------------------------- MODULE Sandbox --------------------------------
(***************************************************************************)
(* One isolated controller attempt (agent_isolation.run_isolated_controller *)
(* with runtime/sandbox, sandbox_supervisor, model_broker, model_bridge).   *)
(* Four parties, each a process or a thread of its own:                     *)
(*   - the owner: the launcher's process, which starts the others, waits,   *)
(*     and reads the bill;                                                  *)
(*   - the broker: a thread of the owner that serves model requests found   *)
(*     as files and calls a paid provider;                                  *)
(*   - the supervisor: a process of its own, which creates the container,   *)
(*     copies its files out and the replies in, and removes it;             *)
(*   - the controller in the container, whose model calls a bridge turns    *)
(*     into request files.                                                  *)
(* They share directories only; each step below ends at a file or a Docker  *)
(* command.                                                                 *)
(*                                                                          *)
(* Abstractions.  A file is its name: the number of a model call (its id is *)
(* random, so calls are numbered as they come), or Action for what the      *)
(* controller returns.  Docker may fail at any command; a client that fails *)
(* or is cut off may leave the daemon to do the work later.                 *)
(***************************************************************************)
EXTENDS Integers, Sequences, FiniteSets, FiniteSetsExt

CONSTANTS
  None,
  MaxAsks,        \* bound: model calls the controller makes
  Prices,         \* what the provider may charge for one call
  MaxRequests,    \* limits of the broker
  MaxCost,
  MaxFaults       \* bound: kills and interrupts

ASSUME SandboxAssumption ==
  /\ Prices \subseteq Nat
  /\ {MaxAsks, MaxRequests, MaxCost, MaxFaults} \subseteq Nat

Requests == 1..MaxAsks
Action == 0

VARIABLES
  owner,       \* run_isolated_controller in the launcher
  usage,       \* usage.json of the attempt
  supervisor,  \* sandbox_supervisor.supervise
  container,   \* the container and the command in it
  creating,    \* a docker run was cut off: the daemon may still create it
  box,         \* files of the container's /output
  answers,     \* replies that reached the container
  mirror,      \* files of the host's copy of /output
  replies,     \* broker/responses in the host's copy
  broker,      \* ModelBroker._serve
  seen,
  receipts,    \* cost of each request it handed on, None while unknown
  client,      \* the bridge's handler of each model call
  late,        \* the deadline has passed
  charged,     \* history: what the provider charged for each call it got
  written,     \* history: what /output held when the command ended
  faults

ownerVars == <<owner, usage>>
dockerVars == <<supervisor, container, creating, mirror, answers>>
brokerVars == <<broker, seen, receipts, replies, charged>>
boxVars == <<box, client, written>>
vars == <<ownerVars, dockerVars, brokerVars, boxVars, late, faults>>

Ended == {"done", "raised", "dead"}
Working == {"create", "start", "sync", "reply", "marker", "resync"}

------------------------------------------------------------------------------
(* The broker. *)

\* Of each request, its costs (none, or one).
Total(costs) == MapThenSumSet(LAMBDA r : FoldFunction(+, 0, costs[r]), Requests)

\* usage(): the sum of the receipts, unknown as soon as one is.
BilledCost(rs) ==
  IF \E r \in DOMAIN rs : rs[r] = None THEN None
  ELSE Total([r \in Requests |-> IF r \in DOMAIN rs THEN <<rs[r]>> ELSE << >>])

\* The test at the head of _request.
Exhausted ==
  \/ BilledCost(receipts) = None
  \/ Cardinality(DOMAIN receipts) >= MaxRequests
  \/ BilledCost(receipts) >= MaxCost

WithReceipt(r, cost) ==
  [x \in DOMAIN receipts \cup {r} |-> IF x = r THEN cost ELSE receipts[x]]

Reply(r) == replies' = replies \cup {r}

\* One request of _serve: refused, malformed, or handed to the provider.
Serve(r) ==
  /\ broker.pc = "scan" /\ ~broker.stop
  /\ r \in mirror \ seen
  /\ seen' = seen \cup {r}
  /\ \/ /\ Reply(r)
        /\ UNCHANGED <<broker, receipts>>
     \/ /\ ~Exhausted
        /\ broker' = [broker EXCEPT !.pc = "call", !.id = r]
        /\ receipts' = WithReceipt(r, None)
        /\ UNCHANGED replies
  /\ UNCHANGED <<ownerVars, dockerVars, boxVars, charged, late, faults>>

HandlerReturns_FailureIsFree ==
  /\ broker.pc = "call"
  /\ \E price \in Prices, known \in BOOLEAN :
       /\ charged' = [charged EXCEPT ![broker.id] = Append(@, price)]
       /\ receipts' = WithReceipt(broker.id, IF known THEN price ELSE 0)
  /\ Reply(broker.id)
  /\ broker' = [broker EXCEPT !.pc = "scan"]
  /\ UNCHANGED <<ownerVars, dockerVars, boxVars, seen, late, faults>>

\* The provider's command ends: a good response names its price or not; after a
\* failure or a timeout nobody knows what was charged.
HandlerReturns ==
  /\ broker.pc = "call"
  /\ \E price \in Prices, known \in BOOLEAN :
       /\ charged' = [charged EXCEPT ![broker.id] = Append(@, price)]
       /\ receipts' = WithReceipt(broker.id, IF known THEN price ELSE None)
  /\ Reply(broker.id)
  /\ broker' = [broker EXCEPT !.pc = "scan"]
  /\ UNCHANGED <<ownerVars, dockerVars, boxVars, seen, late, faults>>

\* An invalid request id, or an error of the file system, ends the thread.
BrokerFails ==
  /\ broker.pc = "scan"
  /\ broker' = [broker EXCEPT !.pc = "over", !.stop = TRUE, !.failed = TRUE]
  /\ UNCHANGED <<ownerVars, dockerVars, boxVars, seen, receipts, replies, charged,
                 late, faults>>

BrokerStops ==
  /\ broker.pc = "scan" /\ broker.stop
  /\ broker' = [broker EXCEPT !.pc = "over"]
  /\ UNCHANGED <<ownerVars, dockerVars, boxVars, seen, receipts, replies, charged,
                 late, faults>>

BrokerStep == (\E r \in Requests : Serve(r)) \/ HandlerReturns \/ BrokerStops

------------------------------------------------------------------------------
(* The controller in its container. *)

\* _Request.do_POST up to the request file.
Ask(r) ==
  /\ container = "running" /\ client[r] = "idle"
  /\ \A q \in 1..(r - 1) : client[q] # "idle"
  /\ box' = box \cup {r}
  /\ client' = [client EXCEPT ![r] = "waiting"]
  /\ UNCHANGED <<ownerVars, dockerVars, brokerVars, written, late, faults>>

\* The rest of it: the reply's file appears, or the bridge's deadline passes; the
\* transport repeats nothing.
Answered(r) ==
  /\ container = "running" /\ client[r] = "waiting"
  /\ client' = [client EXCEPT ![r] = "over"]
  /\ UNCHANGED <<ownerVars, dockerVars, brokerVars, box, written, late, faults>>

WriteAction ==
  /\ container = "running" /\ Action \notin box
  /\ box' = box \cup {Action}
  /\ UNCHANGED <<ownerVars, dockerVars, brokerVars, client, written, late, faults>>

\* The command ends; the container stays up for the copy.
CommandEnds ==
  /\ container = "running"
  /\ container' = "exited" /\ written' = box
  /\ UNCHANGED <<ownerVars, supervisor, creating, mirror, answers, brokerVars, box,
                 client, late, faults>>

------------------------------------------------------------------------------
(* The supervisor. *)

MayGoOn_Signalled == ~supervisor.term /\ owner.pc # "dead"

\* What every command looks at first.
MayGoOn == owner.pc # "dead" /\ ~late /\ ~supervisor.term

Supervise(pc) == supervisor' = [supervisor EXCEPT !.pc = pc]

\* docker run --detach
Create ==
  /\ supervisor.pc = "create" /\ MayGoOn
  /\ \/ container' = "waiting" /\ UNCHANGED creating /\ Supervise("start")
     \/ container' = "waiting" /\ UNCHANGED creating /\ Supervise("cleanup")
     \/ creating' = TRUE /\ UNCHANGED container /\ Supervise("cleanup")
  /\ UNCHANGED <<ownerVars, brokerVars, boxVars, mirror, answers, late, faults>>

\* /output is filled, then /tmp/.evolve-start touched.
Start ==
  /\ supervisor.pc = "start" /\ MayGoOn
  /\ container' = "running"
  /\ Supervise("sync") \/ Supervise("cleanup")
  /\ UNCHANGED <<ownerVars, brokerVars, boxVars, creating, mirror, answers, late, faults>>

\* sync() up to mirror_output.
CopyOut ==
  /\ supervisor.pc = "sync" /\ MayGoOn
  /\ mirror' = box
  /\ Supervise("reply")
  /\ UNCHANGED <<ownerVars, brokerVars, boxVars, container, creating, answers, late, faults>>

\* The rest of sync(): replies the container does not have yet.
CopyIn ==
  /\ supervisor.pc = "reply" /\ MayGoOn
  /\ answers' = replies
  /\ Supervise("marker")
  /\ UNCHANGED <<ownerVars, brokerVars, boxVars, container, creating, mirror, late, faults>>

CopyRest_Never ==
  /\ supervisor.pc = "resync" /\ MayGoOn
  /\ supervisor' = [supervisor EXCEPT !.pc = "cleanup", !.ok = TRUE]
  /\ UNCHANGED <<ownerVars, brokerVars, boxVars, container, creating, mirror, answers,
                 late, faults>>

\* The sync after the command's end, and its logs.
CopyRest ==
  /\ supervisor.pc = "resync" /\ MayGoOn
  /\ mirror' = box
  /\ supervisor' = [supervisor EXCEPT !.pc = "cleanup", !.ok = TRUE]
  /\ UNCHANGED <<ownerVars, brokerVars, boxVars, container, creating, answers, late, faults>>

\* /tmp/.evolve-exit
ReadMarker ==
  /\ supervisor.pc = "marker" /\ MayGoOn
  /\ Supervise(IF container = "exited" THEN "resync" ELSE "sync")
  /\ UNCHANGED <<ownerVars, brokerVars, boxVars, container, creating, mirror, answers,
                 late, faults>>

\* A command fails, or the owner is gone, the deadline passed, a signal arrived.
GiveUp ==
  /\ supervisor.pc \in Working
  /\ Supervise("cleanup")
  /\ UNCHANGED <<ownerVars, brokerVars, boxVars, container, creating, mirror, answers,
                 late, faults>>

Removed == IF container = "none" THEN "none" ELSE "gone"

\* The finally block: docker rm -f.  A container that is not there counts as
\* removed; a failing Docker or a signal leaves the removal unconfirmed.
Cleanup ==
  /\ supervisor.pc = "cleanup"
  /\ \/ /\ ~supervisor.term
        /\ container' = Removed
        /\ supervisor' = [supervisor EXCEPT !.pc = "over", !.state = "stopped"]
     \/ /\ container' \in {container, Removed}
        /\ supervisor' = [supervisor EXCEPT !.pc = "over", !.ok = FALSE,
                                            !.state = "cleanup_unconfirmed"]
  /\ UNCHANGED <<ownerVars, brokerVars, boxVars, creating, mirror, answers, late, faults>>

DaemonCreates ==
  /\ creating /\ creating' = FALSE
  /\ container' = "waiting"
  /\ UNCHANGED <<ownerVars, brokerVars, boxVars, supervisor, mirror, answers, late, faults>>

SupervisorStep ==
  Create \/ Start \/ CopyOut \/ CopyIn \/ ReadMarker \/ CopyRest \/ Cleanup
  \/ (~MayGoOn /\ GiveUp)

------------------------------------------------------------------------------
(* The owner. *)

Own(pc) == owner' = [owner EXCEPT !.pc = pc]

\* run_isolated_controller enters the broker and run_sandbox starts the supervisor.
Launch ==
  /\ owner.pc = "launch" /\ Own("wait")
  /\ broker' = [broker EXCEPT !.pc = "scan"]
  /\ Supervise("create")
  /\ UNCHANGED <<usage, container, creating, mirror, answers, seen, receipts, replies,
                 charged, boxVars, late, faults>>

\* run_owned returns: a supervisor that ended by itself reports, one that was
\* killed or cut off leaves its container to run_sandbox.
SupervisorReturns ==
  /\ owner.pc \in {"wait", "terminate"}
  /\ supervisor.pc \in {"over", "killed"}
  /\ IF owner.interrupted THEN Own("stop")
     ELSE IF owner.pc = "wait" /\ supervisor.pc = "over"
     THEN owner' = [owner EXCEPT !.pc = "stop", !.ok = supervisor.ok,
                                 !.returned = supervisor.state = "stopped"]
     ELSE Own("remove")
  /\ UNCHANGED <<usage, dockerVars, brokerVars, boxVars, late, faults>>

\* run_owned's own timeout, or an exception in the owner: _terminate.
Terminate(interrupted) ==
  /\ owner.pc = "wait" /\ supervisor.pc \notin {"over", "killed"}
  /\ owner' = [owner EXCEPT !.pc = "terminate", !.interrupted = interrupted]
  /\ supervisor' = [supervisor EXCEPT !.term = TRUE]
  /\ UNCHANGED <<usage, container, creating, mirror, answers, brokerVars, boxVars, late>>

OwnerTimesOut == late /\ Terminate(FALSE) /\ UNCHANGED faults
Interrupt == faults < MaxFaults /\ Terminate(TRUE) /\ faults' = faults + 1

\* Five seconds after SIGTERM.
Escalate ==
  /\ owner.pc = "terminate" /\ supervisor.pc \notin {"over", "killed"}
  /\ Supervise("killed")
  /\ UNCHANGED <<ownerVars, container, creating, mirror, answers, brokerVars, boxVars,
                 late, faults>>

Remove_Never ==
  /\ owner.pc = "remove" /\ Own("stop")
  /\ UNCHANGED <<usage, supervisor, container, creating, mirror, answers, brokerVars,
                 boxVars, late, faults>>

\* docker rm -f after a failed supervisor, its result unread; then run_sandbox
\* raises.
Remove ==
  /\ owner.pc = "remove"
  /\ \/ container' = Removed /\ Own("stop")
     \/ container' = container /\ owner' = [owner EXCEPT !.pc = "stop", !.refused = TRUE]
  /\ UNCHANGED <<usage, supervisor, creating, mirror, answers, brokerVars, boxVars,
                 late, faults>>

\* service.stop.set() in the finally block.
Stop ==
  /\ owner.pc = "stop" /\ Own("join")
  /\ broker' = [broker EXCEPT !.stop = TRUE]
  /\ UNCHANGED <<usage, dockerVars, seen, receipts, replies, charged, boxVars, late, faults>>

\* ModelBroker.__exit__
Join ==
  /\ owner.pc = "join" /\ broker.pc = "over"
  /\ Own(IF owner.returned THEN "bill" ELSE "raised")
  /\ UNCHANGED <<usage, dockerVars, brokerVars, boxVars, late, faults>>

\* The end of run_isolated_controller.
Bill ==
  /\ owner.pc = "bill"
  /\ usage' = [known |-> BilledCost(receipts) # None, cost |-> BilledCost(receipts)]
  /\ owner' = [owner EXCEPT !.pc = "done", !.ok = @ /\ ~broker.failed]
  /\ UNCHANGED <<dockerVars, brokerVars, boxVars, late, faults>>

OwnerStep ==
  Launch \/ SupervisorReturns \/ Escalate \/ Remove \/ Stop \/ Join \/ Bill

\* SIGKILL takes the broker's thread along, not the supervisor.
KillOwner ==
  /\ faults < MaxFaults /\ faults' = faults + 1
  /\ owner.pc \notin Ended \cup {"launch"} /\ Own("dead")
  /\ broker' = [broker EXCEPT !.pc = "over"]
  /\ UNCHANGED <<usage, dockerVars, seen, receipts, replies, charged, boxVars, late>>

KillSupervisor ==
  /\ faults < MaxFaults /\ faults' = faults + 1
  /\ supervisor.pc \notin {"none", "over", "killed"} /\ Supervise("killed")
  /\ UNCHANGED <<ownerVars, container, creating, mirror, answers, brokerVars, boxVars, late>>

TimePasses ==
  /\ ~late /\ late' = TRUE
  /\ UNCHANGED <<ownerVars, dockerVars, brokerVars, boxVars, faults>>

------------------------------------------------------------------------------
Init ==
  /\ owner = [pc |-> "launch", ok |-> FALSE, returned |-> FALSE,
              interrupted |-> FALSE, refused |-> FALSE]
  /\ usage = [known |-> FALSE, cost |-> None]
  /\ supervisor = [pc |-> "none", ok |-> FALSE, term |-> FALSE, state |-> "starting"]
  /\ container = "none" /\ creating = FALSE
  /\ box = {} /\ mirror = {} /\ written = {}
  /\ replies = {} /\ answers = {}
  /\ broker = [pc |-> "off", id |-> None, stop |-> FALSE, failed |-> FALSE]
  /\ seen = {} /\ receipts = [r \in {} |-> None]
  /\ client = [r \in Requests |-> "idle"]
  /\ late = FALSE
  /\ charged = [r \in Requests |-> << >>]
  /\ faults = 0

Next ==
  \/ OwnerStep \/ OwnerTimesOut \/ Interrupt
  \/ SupervisorStep \/ GiveUp \/ DaemonCreates
  \/ BrokerStep \/ BrokerFails
  \/ \E r \in Requests : Ask(r) \/ Answered(r)
  \/ WriteAction \/ CommandEnds
  \/ KillOwner \/ KillSupervisor \/ TimePasses

Spec == Init /\ [][Next]_vars

\* The owner, its thread and the supervisor run on, and time passes; nothing is
\* assumed of the controller or the daemon.
FairSpec ==
  /\ Spec
  /\ WF_vars(OwnerStep) /\ WF_vars(SupervisorStep) /\ WF_vars(BrokerStep)
  /\ WF_vars(TimePasses)

------------------------------------------------------------------------------
(* Properties. *)

Spent == Total(charged)

\* The bill is true: the provider is called at most once for a request, however
\* often the directory is read and whoever gave up waiting; a call is opened only
\* while what the provider really charged is below the limits; and a cost that
\* usage.json states is all it charged, then and ever after.
BillIsTrue ==
  /\ \A r \in Requests : Len(charged[r]) <= 1
  /\ broker.pc = "call" =>
       /\ ~(Spent >= MaxCost)
       /\ Cardinality({r \in Requests : charged[r] # << >>}) < MaxRequests
  /\ usage.known => usage.cost = Spent

\* An attempt that succeeded has on the host everything its command left in
\* /output, however its last writes raced the copies.
OutputIsComplete == owner.pc = "done" /\ owner.ok => written = mirror

\* Once the owner is gone, for whatever reason, the command ends, unless Docker
\* refused to remove the container, or the supervisor was killed and the owner,
\* interrupted or killed too, does not remove it in its place.
Contained ==
  owner.pc \in Ended ~>
    \/ container \notin {"running", "exited"}
    \/ supervisor.state = "cleanup_unconfirmed" \/ owner.refused
    \/ supervisor.pc = "killed" /\ (owner.interrupted \/ owner.pc = "dead")

\* No attempt outlives its deadline: owner, thread and supervisor all end.
IsolationEnds ==
  <>(owner.pc \in Ended /\ broker.pc = "over" /\ supervisor.pc \in {"over", "killed"})
==============================================================================
