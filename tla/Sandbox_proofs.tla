---------------------------- MODULE Sandbox_proofs ----------------------------
(***************************************************************************)
(* Proofs about an isolated attempt, for any number of model calls, any      *)
(* prices and limits and any number of kills: what succeeded was copied out  *)
(* completely, and the bill is what the provider charged.                    *)
(***************************************************************************)
EXTENDS Sandbox, FiniteSetTheorems, TLAPS

------------------------------------------------------------------------------
(* The inductive invariants. *)

\* The records of the three parties, as far as a step updates them.
PartiesShape ==
  /\ DOMAIN owner = {"pc", "ok", "returned", "interrupted", "refused"}
  /\ DOMAIN supervisor = {"pc", "ok", "term", "state"}
  /\ DOMAIN broker = {"pc", "id", "stop", "failed"}

\* Who is still there: the owner gets past its wait only when its supervisor is
\* gone, and a supervisor at work follows a launch.
PartiesInOrder ==
  /\ supervisor.pc \in {"none", "cleanup", "over", "killed"} \cup Working
  /\ owner.pc = "launch" <=> supervisor.pc = "none"
  /\ owner.pc \in {"remove", "stop", "join", "bill", "done", "raised"} =>
       supervisor.pc \in {"over", "killed"}

\* The last copy is made of what the command left: it starts from an exited
\* container that nobody removes or creates anew, and what it made stays.
LastCopy ==
  /\ container = "exited" => written = box
  /\ creating => supervisor.pc \in {"cleanup", "over", "killed"} /\ ~supervisor.ok
  /\ supervisor.pc = "resync" => container = "exited"
  /\ supervisor.ok =>
       /\ supervisor.pc \in {"cleanup", "over", "killed"}
       /\ container \in {"exited", "gone"}
       /\ mirror = written
  /\ owner.ok => supervisor.pc = "over" /\ supervisor.ok

OutputInv == PartiesShape /\ PartiesInOrder /\ LastCopy

\* A receipt is open while its call is, and afterwards says what was charged or
\* that nobody knows.
ReceiptsMatch ==
  /\ charged \in [Requests -> Seq(Prices)]
  /\ seen \subseteq Requests /\ DOMAIN receipts \subseteq seen
  /\ \A r \in Requests :
       /\ r \notin DOMAIN receipts => charged[r] = << >>
       /\ r \in DOMAIN receipts /\ receipts[r] # None => charged[r] = <<receipts[r]>>
       /\ Len(charged[r]) <= 1

\* A call was opened below the limits, and its provider was not called before.
CallOpen ==
  broker.pc = "call" =>
    /\ broker.id \in DOMAIN receipts
    /\ receipts[broker.id] = None /\ charged[broker.id] = << >>
    /\ ~(Spent >= MaxCost)
    /\ Cardinality({r \in Requests : charged[r] # << >>}) < MaxRequests

\* Every receipt but that of an open call is of a call that was made.
CallsDone ==
  broker.pc \in {"scan", "call"} =>
    \A r \in DOMAIN receipts : charged[r] # << >> \/ (broker.pc = "call" /\ r = broker.id)

\* The bill is written once the broker has ended, and nothing runs after it.
BillFinal ==
  /\ owner.pc = "launch" => broker.pc = "off"
  /\ broker.pc = "off" => DOMAIN receipts = {}
  /\ owner.pc \in {"bill", "done"} => broker.pc = "over"
  /\ usage.known => owner.pc = "done" /\ usage.cost = Spent

BillInv == PartiesShape /\ ReceiptsMatch /\ CallOpen /\ CallsDone /\ BillFinal

------------------------------------------------------------------------------
(* The files. *)

LEMMA InitOutputInv == Init => OutputInv
BY DEF Init, OutputInv, PartiesShape, PartiesInOrder, LastCopy, Working

\* What the controller and the broker do leaves the supervisor, the owner and
\* their copies alone; files are written in a running container only.
LEMMA OthersKeepOutput ==
  ASSUME OutputInv,
         \/ BrokerStep \/ BrokerFails \/ WriteAction \/ CommandEnds \/ TimePasses
         \/ \E r \in Requests : Ask(r) \/ Answered(r)
  PROVE  OutputInv'
<1> USE DEF OutputInv, PartiesShape, PartiesInOrder, LastCopy, ownerVars, dockerVars,
            brokerVars, boxVars
<1>1. CASE BrokerStep
  <2>1. UNCHANGED <<ownerVars, dockerVars, boxVars>>
    BY <1>1 DEF BrokerStep, Serve, HandlerReturns, BrokerStops
  <2>2. DOMAIN broker' = {"pc", "id", "stop", "failed"}
    BY <1>1 DEF BrokerStep, Serve, HandlerReturns, BrokerStops
  <2>3. QED BY <2>1, <2>2
<1>2. CASE BrokerFails
  BY <1>2 DEF BrokerFails
<1>3. CASE WriteAction
  BY <1>3 DEF WriteAction
<1>4. CASE CommandEnds
  BY <1>4 DEF CommandEnds
<1>5. CASE TimePasses
  BY <1>5 DEF TimePasses
<1>6. ASSUME NEW r \in Requests, Ask(r) \/ Answered(r) PROVE OutputInv'
  BY <1>6 DEF Ask, Answered
<1>7. QED BY <1>1, <1>2, <1>3, <1>4, <1>5, <1>6

\* The supervisor's own steps.
LEMMA SupervisorKeepsOutput ==
  ASSUME OutputInv, SupervisorStep \/ GiveUp \/ DaemonCreates \/ KillSupervisor
  PROVE  OutputInv'
<1> USE DEF OutputInv, PartiesShape, PartiesInOrder, LastCopy, ownerVars, brokerVars,
            boxVars, Supervise, Working
<1>1. CASE Create BY <1>1 DEF Create
<1>2. CASE Start BY <1>2 DEF Start
<1>3. CASE CopyOut BY <1>3 DEF CopyOut
<1>4. CASE CopyIn BY <1>4 DEF CopyIn
<1>5. CASE ReadMarker BY <1>5 DEF ReadMarker
<1>6. CASE CopyRest BY <1>6 DEF CopyRest
<1>7. CASE Cleanup BY <1>7 DEF Cleanup, Removed
<1>8. CASE GiveUp BY <1>8 DEF GiveUp
<1>9. CASE DaemonCreates BY <1>9 DEF DaemonCreates
<1>10. CASE KillSupervisor BY <1>10 DEF KillSupervisor
<1>11. QED
  BY <1>1, <1>2, <1>3, <1>4, <1>5, <1>6, <1>7, <1>8, <1>9, <1>10 DEF SupervisorStep

\* The owner's.
LEMMA OwnerKeepsOutput ==
  ASSUME OutputInv, OwnerStep \/ OwnerTimesOut \/ Interrupt \/ KillOwner
  PROVE  OutputInv'
<1> USE DEF OutputInv, PartiesShape, PartiesInOrder, LastCopy, dockerVars, brokerVars,
            boxVars, Supervise, Own, Working
<1>1. CASE Launch BY <1>1 DEF Launch
<1>2. CASE SupervisorReturns BY <1>2 DEF SupervisorReturns
<1>3. CASE Escalate BY <1>3 DEF Escalate, ownerVars
<1>4. CASE Remove BY <1>4 DEF Remove, Removed
<1>5. CASE Stop BY <1>5 DEF Stop
<1>6. CASE Join BY <1>6 DEF Join
<1>7. CASE Bill BY <1>7 DEF Bill
<1>8. CASE OwnerTimesOut BY <1>8 DEF OwnerTimesOut, Terminate
<1>9. CASE Interrupt BY <1>9 DEF Interrupt, Terminate
<1>10. CASE KillOwner BY <1>10 DEF KillOwner, Ended
<1>11. QED
  BY <1>1, <1>2, <1>3, <1>4, <1>5, <1>6, <1>7, <1>8, <1>9, <1>10 DEF OwnerStep

LEMMA NextOutputInv == OutputInv /\ [Next]_vars => OutputInv'
<1> SUFFICES ASSUME OutputInv, [Next]_vars PROVE OutputInv'
  OBVIOUS
<1>1. CASE UNCHANGED vars
  BY <1>1 DEF vars, ownerVars, dockerVars, brokerVars, boxVars, OutputInv, PartiesShape,
              PartiesInOrder, LastCopy
<1>2. CASE Next
  BY <1>2, OthersKeepOutput, SupervisorKeepsOutput, OwnerKeepsOutput DEF Next
<1>3. QED BY <1>1, <1>2

\* An attempt that succeeded has on the host all its command left in /output,
\* whatever raced its copies and whoever was killed (sandbox_supervisor.supervise).
THEOREM CopiedOutWhole == Spec => []OutputIsComplete
<1>1. OutputInv => OutputIsComplete
  BY DEF OutputInv, LastCopy, OutputIsComplete
<1>2. QED BY <1>1, InitOutputInv, NextOutputInv, PTL DEF Spec

------------------------------------------------------------------------------
(* The bill. *)

\* When no receipt is unknown, the bill is the sum of the charges.
LEMMA BillOfKnown ==
  ASSUME ReceiptsMatch, BilledCost(receipts) # None
  PROVE  BilledCost(receipts) = Spent
<1> DEFINE rows == [r \in Requests |-> IF r \in DOMAIN receipts THEN <<receipts[r]>> ELSE << >>]
<1>1. \A r \in DOMAIN receipts : receipts[r] # None
  BY DEF BilledCost
<1>2. BilledCost(receipts) = Total(rows)
  BY <1>1 DEF BilledCost
<1>3. rows = charged
  BY <1>1 DEF ReceiptsMatch
<1>4. QED BY <1>2, <1>3 DEF Spent

\* Between two calls there are as many charges as receipts.
LEMMA CallsCounted ==
  ASSUME ReceiptsMatch, CallsDone, broker.pc = "scan"
  PROVE  /\ {r \in Requests : charged[r] # << >>} = DOMAIN receipts
         /\ Cardinality(DOMAIN receipts) \in Nat
<1>1. {r \in Requests : charged[r] # << >>} = DOMAIN receipts
  BY DEF ReceiptsMatch, CallsDone
<1>2. IsFiniteSet(Requests)
  BY SandboxAssumption, FS_Interval DEF Requests
<1>3. DOMAIN receipts \subseteq Requests
  BY DEF ReceiptsMatch
<1>4. QED BY <1>1, <1>2, <1>3, FS_Subset, FS_CardinalityType

LEMMA InitBillInv == Init => BillInv
BY DEF Init, BillInv, PartiesShape, ReceiptsMatch, CallOpen, CallsDone, BillFinal

\* A request that is handed on is below the limits, and new.
LEMMA ServeKeepsBill ==
  ASSUME BillInv, NEW r \in Requests, Serve(r)
  PROVE  BillInv'
<1> USE DEF BillInv
<1>1. /\ broker.pc = "scan" /\ r \notin seen /\ seen' = seen \cup {r}
      /\ UNCHANGED <<owner, usage, supervisor, charged>>
  BY DEF Serve, ownerVars, dockerVars
<1>2. CASE UNCHANGED <<broker, receipts>>
  BY <1>1, <1>2 DEF PartiesShape, ReceiptsMatch, CallOpen, CallsDone, BillFinal, Spent
<1>3. CASE /\ ~Exhausted
           /\ broker' = [broker EXCEPT !.pc = "call", !.id = r]
           /\ receipts' = WithReceipt(r, None)
  <2>1. /\ DOMAIN broker' = {"pc", "id", "stop", "failed"}
        /\ broker'.pc = "call" /\ broker'.id = r
    BY <1>3 DEF PartiesShape
  <2>2. /\ DOMAIN receipts' = DOMAIN receipts \cup {r} /\ receipts'[r] = None
        /\ \A x \in DOMAIN receipts : x # r => receipts'[x] = receipts[x]
    BY <1>3 DEF WithReceipt
  <2>3. r \notin DOMAIN receipts /\ charged[r] = << >>
    BY <1>1 DEF ReceiptsMatch
  <2>4. ReceiptsMatch'
    BY <1>1, <2>2, <2>3 DEF ReceiptsMatch
  <2>5. ~(Spent >= MaxCost)
    BY <1>3, BillOfKnown DEF Exhausted
  <2>6. Cardinality({x \in Requests : charged[x] # << >>}) < MaxRequests
    BY <1>1, <1>3, CallsCounted, SandboxAssumption DEF Exhausted
  <2>7. Spent' = Spent
    BY <1>1 DEF Spent
  <2>8. CallOpen'
    BY <1>1, <2>1, <2>2, <2>3, <2>5, <2>6, <2>7 DEF CallOpen
  <2>9. CallsDone'
    BY <1>1, <2>1, <2>2 DEF CallsDone
  <2>10. BillFinal'
    BY <1>1, <2>1, <2>7 DEF BillFinal
  <2>11. QED BY <1>1, <2>1, <2>4, <2>8, <2>9, <2>10 DEF PartiesShape
<1>4. QED BY <1>2, <1>3 DEF Serve

\* The provider charges the request that is open, once.
LEMMA ReturnKeepsBill == BillInv /\ HandlerReturns => BillInv'
<1> SUFFICES ASSUME BillInv, HandlerReturns PROVE BillInv'
  OBVIOUS
<1> USE DEF BillInv
<1> DEFINE r == broker.id
<1>1. PICK price \in Prices, known \in BOOLEAN :
        /\ charged' = [charged EXCEPT ![r] = Append(@, price)]
        /\ receipts' = WithReceipt(r, IF known THEN price ELSE None)
  BY DEF HandlerReturns
<1>2. /\ broker.pc = "call"
      /\ DOMAIN broker' = {"pc", "id", "stop", "failed"} /\ broker'.pc = "scan"
      /\ UNCHANGED <<owner, usage, supervisor, seen>>
  BY DEF HandlerReturns, PartiesShape, ownerVars, dockerVars
<1>3. r \in DOMAIN receipts /\ r \in Requests /\ charged[r] = << >>
  BY <1>2 DEF CallOpen, ReceiptsMatch
<1>4. Append(<< >>, price) = <<price>> /\ <<price>> \in Seq(Prices) /\ Len(<<price>>) = 1
  OBVIOUS
<1>5. charged' \in [Requests -> Seq(Prices)] /\ charged'[r] = <<price>>
  BY <1>1, <1>3, <1>4 DEF ReceiptsMatch
<1>6. \A x \in Requests : x # r => charged'[x] = charged[x]
  BY <1>1, <1>3 DEF ReceiptsMatch
<1>7. /\ DOMAIN receipts' = DOMAIN receipts
      /\ receipts'[r] = None \/ receipts'[r] = price
      /\ \A x \in DOMAIN receipts : x # r => receipts'[x] = receipts[x]
  BY <1>1, <1>3 DEF WithReceipt
<1> HIDE DEF r
<1>8. ReceiptsMatch'
  <2>1. ASSUME NEW x \in Requests
        PROVE  /\ x \notin DOMAIN receipts' => charged'[x] = << >>
               /\ x \in DOMAIN receipts' /\ receipts'[x] # None =>
                    charged'[x] = <<receipts'[x]>>
               /\ Len(charged'[x]) <= 1
    <3>1. CASE x = r
      BY <3>1, <1>3, <1>4, <1>5, <1>7
    <3>2. CASE x # r
      BY <3>2, <1>6, <1>7 DEF ReceiptsMatch
    <3>3. QED BY <3>1, <3>2
  <2>2. QED BY <2>1, <1>2, <1>5, <1>7 DEF ReceiptsMatch
<1>9. CallsDone'
  <2>1. ASSUME NEW x \in DOMAIN receipts PROVE charged'[x] # << >>
    <3>1. x \in Requests
      BY DEF ReceiptsMatch
    <3>2. CASE x = r
      BY <3>2, <1>4, <1>5
    <3>3. CASE x # r
      BY <3>1, <3>3, <1>2, <1>6 DEF CallsDone, r
    <3>4. QED BY <3>2, <3>3
  <2>2. QED BY <2>1, <1>7 DEF CallsDone
<1>10. CallOpen' /\ BillFinal'
  BY <1>2, <1>7 DEF CallOpen, BillFinal
<1>11. QED BY <1>2, <1>8, <1>9, <1>10 DEF PartiesShape

\* The bill itself.
LEMMA BillKeepsBill == BillInv /\ Bill => BillInv'
<1> SUFFICES ASSUME BillInv, Bill PROVE BillInv'
  OBVIOUS
<1>1. /\ owner.pc = "bill" /\ owner'.pc = "done"
      /\ DOMAIN owner' = DOMAIN owner
      /\ UNCHANGED <<supervisor, broker, seen, receipts, charged>>
  BY DEF Bill, BillInv, PartiesShape, dockerVars, brokerVars
<1>2. usage'.known => usage'.cost = Spent
  BY BillOfKnown DEF Bill, BillInv
<1>3. Spent' = Spent
  BY <1>1 DEF Spent
<1>4. BillFinal'
  BY <1>1, <1>2, <1>3 DEF BillInv, BillFinal
<1>5. QED
  BY <1>1, <1>3, <1>4 DEF BillInv, PartiesShape, ReceiptsMatch, CallOpen, CallsDone

\* Every other step calls nobody: the receipts and the charges stay, a call that
\* was open is open still or was given up.
LEMMA OthersKeepBill ==
  ASSUME BillInv, Next, ~Bill, ~HandlerReturns, \A r \in Requests : ~Serve(r)
  PROVE  BillInv'
<1> DEFINE BrokerMoves == \/ broker' = broker
                          \/ /\ owner.pc = "launch"
                             /\ broker' = [broker EXCEPT !.pc = "scan"]
                          \/ \E b : broker' = [broker EXCEPT !.stop = b]
                          \/ broker' = [broker EXCEPT !.pc = "over"]
                          \/ \E b : broker' = [broker EXCEPT !.pc = "over", !.stop = b, !.failed = b]
           OwnerMoves == /\ owner'.pc = "launch" => owner.pc = "launch" /\ broker' = broker
                         /\ owner'.pc \in {"bill", "done"} =>
                              owner.pc = owner'.pc \/ broker.pc = "over"
                         /\ owner.pc = "done" => owner'.pc = "done"
<1>1. UNCHANGED <<usage, seen, receipts, charged>>
  BY DEF Next, OwnerStep, SupervisorStep, BrokerStep, Launch, SupervisorReturns, Escalate,
         Remove, Stop, Join, OwnerTimesOut, Interrupt, Terminate, Create, Start, CopyOut,
         CopyIn, ReadMarker, CopyRest, Cleanup, GiveUp, DaemonCreates, BrokerStops,
         BrokerFails, Ask, Answered, WriteAction, CommandEnds, KillOwner, KillSupervisor,
         TimePasses, ownerVars, dockerVars, brokerVars, boxVars
<1>2. BrokerMoves
  BY DEF Next, OwnerStep, SupervisorStep, BrokerStep, Launch, SupervisorReturns, Escalate,
         Remove, Stop, Join, OwnerTimesOut, Interrupt, Terminate, Create, Start, CopyOut,
         CopyIn, ReadMarker, CopyRest, Cleanup, GiveUp, DaemonCreates, BrokerStops,
         BrokerFails, Ask, Answered, WriteAction, CommandEnds, KillOwner, KillSupervisor,
         TimePasses, ownerVars, dockerVars, brokerVars, boxVars
<1>3. OwnerMoves
  BY <1>2, ZenonT(60) DEF Next, OwnerStep, SupervisorStep, BrokerStep, Launch, SupervisorReturns, Escalate,
         Remove, Stop, Join, OwnerTimesOut, Interrupt, Terminate, Create, Start, CopyOut,
         CopyIn, ReadMarker, CopyRest, Cleanup, GiveUp, DaemonCreates, BrokerStops,
         BrokerFails, Ask, Answered, WriteAction, CommandEnds, KillOwner, KillSupervisor,
         TimePasses, ownerVars, dockerVars, brokerVars, boxVars, Own, Ended, BillInv, BillFinal,
         PartiesShape
<1>4. PartiesShape'
  BY <1>2 DEF Next, OwnerStep, SupervisorStep, BrokerStep, Launch, SupervisorReturns, Escalate,
         Remove, Stop, Join, OwnerTimesOut, Interrupt, Terminate, Create, Start, CopyOut,
         CopyIn, ReadMarker, CopyRest, Cleanup, GiveUp, DaemonCreates, BrokerStops,
         BrokerFails, Ask, Answered, WriteAction, CommandEnds, KillOwner, KillSupervisor,
         TimePasses, ownerVars, dockerVars, brokerVars, boxVars, Own, Supervise, BillInv,
         PartiesShape
<1>5. Spent' = Spent
  BY <1>1 DEF Spent
<1>6. /\ broker'.pc = "call" => broker.pc = "call" /\ broker'.id = broker.id
      /\ broker'.pc = "scan" => broker.pc = "scan" \/ DOMAIN receipts = {}
      /\ broker'.pc = "off" => broker.pc = "off"
      /\ broker.pc = "over" => broker'.pc = "over"
  BY <1>2 DEF BillInv, PartiesShape, BillFinal
<1>7. ReceiptsMatch'
  BY <1>1 DEF BillInv, ReceiptsMatch
<1>8. CallOpen'
  BY <1>1, <1>5, <1>6 DEF BillInv, CallOpen
<1>9. CallsDone'
  BY <1>1, <1>6 DEF BillInv, CallsDone
<1>10. BillFinal'
  BY <1>1, <1>3, <1>5, <1>6 DEF BillInv, BillFinal
<1>11. QED BY <1>4, <1>7, <1>8, <1>9, <1>10 DEF BillInv

LEMMA NextBillInv == BillInv /\ [Next]_vars => BillInv'
<1> SUFFICES ASSUME BillInv, [Next]_vars PROVE BillInv'
  OBVIOUS
<1>1. CASE UNCHANGED vars
  BY <1>1 DEF vars, ownerVars, dockerVars, brokerVars, boxVars, BillInv, PartiesShape,
              ReceiptsMatch, CallOpen, CallsDone, BillFinal, Spent
<1>2. QED
  BY <1>1, ServeKeepsBill, ReturnKeepsBill, BillKeepsBill, OthersKeepBill

\* The bill is true: a request is charged at most once, a call is opened only
\* while the charges are below the limits, and a cost that usage.json states is
\* what the provider charged (model_broker.ModelBroker).
THEOREM BilledWhatWasCharged == Spec => []BillIsTrue
<1>1. BillInv => BillIsTrue
  BY DEF BillInv, ReceiptsMatch, CallOpen, BillFinal, BillIsTrue
<1>2. QED BY <1>1, InitBillInv, NextBillInv, PTL DEF Spec
==============================================================================
