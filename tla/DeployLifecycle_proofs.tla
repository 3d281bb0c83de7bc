----------------------- MODULE DeployLifecycle_proofs -----------------------
(***************************************************************************)
(* Proofs about DeployLifecycle, for every set of deploys, every port      *)
(* range, every number of tasks in flight and every number of restarts.    *)
(***************************************************************************)
EXTENDS DeployLifecycle, WellFoundedInduction, TLAPS

(***************************************************************************)
(* core/ports.py                                                           *)
(***************************************************************************)

\* first_free returns a port of the range that nobody holds, whenever there is
\* one: the sweep of core/ports.py cannot end on a taken port.
LEMMA FirstFree ==
  ASSUME NEW taken, AnyFree(taken)
  PROVE  first_free(taken) \in PortRange \ taken
<1> DEFINE free == PortRange \ taken
<1>1. free \subseteq Nat /\ free # {}
  BY PortsAssumption DEF AnyFree
<1>2. PICK p \in free : \A q \in free : <<q, p>> \notin OpToRel(<, Nat)
  <2> HIDE DEF free
  <2> QED BY <1>1, NatLessThanWellFounded, WFMin
<1>3. ASSUME NEW q \in free PROVE p <= q
  <2>1. p \in Nat /\ q \in Nat
    BY <1>1
  <2>2. <<q, p>> \in OpToRel(<, Nat) <=> q < p
    BY <2>1 DEF OpToRel
  <2>3. ~(q < p)
    BY <1>2, <2>2, Zenon
  <2>4. QED
    BY <2>1, <2>3
<1>4. QED
  BY <1>2, <1>3 DEF first_free

\* A port is either out of the range or a number, and never 0.
LEMMA PortFacts ==
  /\ NoPort \notin PortRange
  /\ \A d \in DeployIds : LegacyPort[d] \in PortRange
  /\ \A d \in DeployIds : \A p : deploy_port(d, p) \in PortRange
BY PortsAssumption DEF NoPort, deploy_port, in_range

(***************************************************************************)
(* Types                                                                   *)
(***************************************************************************)

\* The records every step is built from are well typed.
LEMMA RecordTypes ==
  /\ Absent \in Row
  /\ NoSpec \in DeploySpec
  /\ IdleTask \in Task
  /\ \A row \in Row : SpecOf(row) \in DeploySpec
  /\ \A row \in Row, status \in Statuses : With(row, status) \in Row
  /\ \A d \in DeployIds, pc \in Waits, obj \in Row :
       [pc |-> pc, id |-> d, obj |-> obj] \in Task
BY DEF Absent, Row, NoSpec, DeploySpec, IdleTask, Task, With, SpecOf, NoPort, Statuses

\* A task that is not idle works on a deploy, with an object of the table.
LEMMA BusyTask ==
  ASSUME TypeOK, NEW t \in Tasks, ~Idle(t)
  PROVE  task[t].pc \in Waits /\ task[t].id \in DeployIds /\ task[t].obj \in Row
BY DEF TypeOK, Idle, Task, IdleTask, Waits

\* What the building blocks of the steps do to the types.
LEMMA UpsertType ==
  ASSUME TypeOK, NEW d \in DeployIds, NEW row \in Row, upsert(d, row)
  PROVE  rows' \in [DeployIds -> Row]
BY DEF TypeOK, upsert

LEMMA TaskType ==
  ASSUME TypeOK, NEW t \in Tasks,
         \/ Ends(t)
         \/ \E d \in DeployIds, pc \in Waits : Starts(t, d, pc)
         \/ ~Idle(t) /\ \E obj \in Row, pc \in Waits : Moves(t, pc, obj)
  PROVE  task' \in [Tasks -> Task]
<1>1. CASE Ends(t)
  BY <1>1, RecordTypes DEF TypeOK, Ends
<1>2. CASE \E d \in DeployIds, pc \in Waits : Starts(t, d, pc)
  BY <1>2, RecordTypes DEF TypeOK, Starts
<1>3. CASE ~Idle(t) /\ \E obj \in Row, pc \in Waits : Moves(t, pc, obj)
  BY <1>3, RecordTypes, BusyTask DEF TypeOK, Moves
<1>4. QED
  BY <1>1, <1>2, <1>3

\* A step of a slot ends its task or moves it on.
LEMMA SlotEndsOrMoves ==
  ASSUME NEW t \in Tasks, JobStep(t) \/ DestroyEnd(t)
  PROVE  Ends(t) \/ \E pc, obj : Moves(t, pc, obj)
BY DEF JobStep, JobBegin, JobPreflight, JobPreflightLost, JobChecked, JobStart,
       JobStarted, JobStartLost, JobHealthy, JobGivesUp, JobEndpoint, JobEndpointLost,
       JobWrite, JobRaises, DestroyEnd

LEMMA AllocationType ==
  ASSUME NEW exclude, AnyFree(taken_ports(exclude))
  PROVE  first_free(taken_ports(exclude)) \in PortRange
BY FirstFree

\* Where the agents report or listen is a port of the range.
LEMMA ReportType ==
  ASSUME TypeOK, NEW d \in DeployIds
  PROVE  \A e : Reported(d, e) => e \in PortRange \cup {NoPort}
BY PortFacts DEF Reported, EndpointOf

LEMMA TypeInit == Init => TypeOK
BY LifecycleAssumption, GensAssumption, PortFacts, RecordTypes
   DEF Init, TypeOK, AgentTypeOK, Row, Statuses, DeploySpec, NoPort

\* The user's requests.
LEMMA TypeUser ==
  ASSUME TypeOK, NEW t \in Tasks, NEW d \in DeployIds,
         create_deploy(t, d) \/ redeploy(t, d) \/ destroy_deploy(t, d)
  PROVE  TypeOK'
<1> USE DEF TypeOK, AgentTypeOK, scanVars, agentVars, vars
<1>1. ASSUME create_deploy(t, d) PROVE TypeOK'
  <2>1. [status |-> "pending", gen |-> 1,
         port |-> first_free(taken_ports({})), endpoint |-> NoPort] \in Row
    BY <1>1, AllocationType, GensAssumption DEF create_deploy, Row, Statuses
  <2>2. rows' \in [DeployIds -> Row]
    BY <1>1, <2>1, UpsertType DEF create_deploy
  <2>3. task' \in [Tasks -> Task]
    BY <1>1, TaskType DEF create_deploy, Waits
  <2>4. QED
    BY <1>1, <2>2, <2>3 DEF create_deploy
<1>2. ASSUME redeploy(t, d) PROVE TypeOK'
  <2>1. PortFor(d) \in PortRange
    BY <1>2, AllocationType DEF redeploy, PortFor, in_range
  <2>2. [status |-> "redeploying", gen |-> edits + 1, port |-> PortFor(d),
         endpoint |-> rows[d].endpoint] \in Row
    BY <1>2, <2>1 DEF redeploy, Row, Statuses
  <2>3. rows' \in [DeployIds -> Row]
    BY <1>2, <2>2, UpsertType DEF redeploy
  <2>4. task' \in [Tasks -> Task]
    BY <1>2, TaskType DEF redeploy, Waits
  <2>5. QED
    BY <1>2, <2>3, <2>4 DEF redeploy
<1>3. ASSUME destroy_deploy(t, d) PROVE TypeOK'
  <2>1. With(rows[d], "destroying") \in Row
    BY RecordTypes DEF Statuses
  <2>2. rows' \in [DeployIds -> Row]
    BY <1>3, <2>1, UpsertType DEF destroy_deploy
  <2>3. task' \in [Tasks -> Task]
    BY <1>3, TaskType DEF destroy_deploy, Waits
  <2>4. stopping' \subseteq [id : DeployIds, by : Senders, next : {"kill", "forget"}]
    BY <1>3 DEF destroy_deploy, stop_deploy, Tasks
  <2>5. QED
    BY <1>3, <2>2, <2>3, <2>4 DEF destroy_deploy, stop_deploy
<1>4. QED
  BY <1>1, <1>2, <1>3

\* The end of a DELETE handler.
LEMMA TypeDestroy ==
  ASSUME TypeOK, NEW t \in Tasks, DestroyEnd(t)
  PROVE  TypeOK'
<1> USE DEF TypeOK, AgentTypeOK, scanVars, agentVars
<1>1. task' \in [Tasks -> Task]
  BY TaskType DEF DestroyEnd
<1>2. rows' \in [DeployIds -> Row]
  BY RecordTypes DEF DestroyEnd, delete, TypeOK
<1>3. QED
  BY <1>1, <1>2 DEF DestroyEnd

\* A deploy job, from one await to the next.
LEMMA TypeJob ==
  ASSUME TypeOK, NEW t \in Tasks, JobStep(t)
  PROVE  TypeOK'
<1> DEFINE d == task[t].id
           obj == task[t].obj
<1> USE DEF TypeOK, AgentTypeOK, scanVars, agentVars
<1>0. ~Idle(t) /\ d \in DeployIds /\ obj \in Row /\ rows[d] \in Row
  BY BusyTask
     DEF JobStep, JobBegin, JobPreflight, JobPreflightLost, JobChecked, JobStart,
         JobStarted, JobStartLost, JobHealthy, JobGivesUp, JobEndpoint,
         JobEndpointLost, JobRaises, JobWrite, At, Idle
\* What a step does to the table, to its slot and to the agents.
<1>1. CASE UNCHANGED <<rows, agentVars>> /\ task' \in [Tasks -> Task]
  BY <1>1 DEF JobStep, JobBegin, JobPreflight, JobPreflightLost, JobChecked, JobStart,
         JobStarted, JobStartLost, JobHealthy, JobGivesUp, JobEndpoint,
         JobEndpointLost, JobRaises, JobWrite
<1>2. CASE rows' \in [DeployIds -> Row] /\ task' \in [Tasks -> Task] /\ UNCHANGED agentVars
  BY <1>2 DEF JobStep, JobBegin, JobPreflight, JobPreflightLost, JobChecked, JobStart,
         JobStarted, JobStartLost, JobHealthy, JobGivesUp, JobEndpoint,
         JobEndpointLost, JobRaises, JobWrite
<1>3. CASE JobBegin(t)
  <2>1. With(rows[d], "checking") \in Row
    BY <1>0, RecordTypes DEF Statuses
  <2>2. rows' \in [DeployIds -> Row]
    BY <1>0, <1>3, <2>1, UpsertType DEF JobBegin
  <2>3. task' \in [Tasks -> Task]
    BY <1>0, <1>3, <2>1, TaskType DEF JobBegin, Waits
  <2>4. QED
    BY <1>2, <1>3, <2>2, <2>3 DEF JobBegin
<1>4. CASE JobPreflight(t) \/ JobPreflightLost(t)
  <2>1. task' \in [Tasks -> Task]
    BY <1>0, <1>4, TaskType, RecordTypes DEF JobPreflight, JobPreflightLost, Waits
  <2>2. CASE JobPreflight(t)
    BY <2>1, <2>2 DEF JobPreflight, Spawns, Reaped
  <2>3. CASE JobPreflightLost(t)
    BY <1>1, <2>1, <2>3 DEF JobPreflightLost
  <2>4. QED
    BY <1>4, <2>2, <2>3
<1>5. CASE JobChecked(t)
  <2>1. With(rows[d], "provisioning") \in Row /\ With(rows[d], "failed") \in Row
    BY <1>0, RecordTypes DEF Statuses
  <2>2. rows' \in [DeployIds -> Row]
    BY <1>0, <1>5, <2>1, UpsertType DEF JobChecked
  <2>3. task' \in [Tasks -> Task]
    BY <1>0, <1>5, <2>1, TaskType DEF JobChecked, Waits
  <2>4. QED
    BY <1>2, <1>5, <2>2, <2>3 DEF JobChecked
<1>6. CASE JobStart(t)
  <2>1. task' \in [Tasks -> Task]
    BY <1>0, <1>6, TaskType, RecordTypes DEF JobStart, Waits
  <2>2. SpecOf(obj) \in DeploySpec
    BY <1>0, RecordTypes
  <2>3. QED
    BY <1>0, <1>6, <2>1, <2>2 DEF JobStart, start_deploy, Tasks
<1>7. CASE JobStarted(t)
  <2>1. task' \in [Tasks -> Task]
    BY <1>0, <1>7, TaskType DEF JobStarted, Waits
  <2>2. QED
    BY <1>1, <1>7, <2>1 DEF JobStarted
<1>8. CASE JobStartLost(t)
  <2>1. With(rows[d], "failed") \in Row
    BY <1>0, RecordTypes DEF Statuses
  <2>2. rows' \in [DeployIds -> Row]
    BY <1>0, <1>8, <2>1, UpsertType DEF JobStartLost
  <2>3. task' \in [Tasks -> Task]
    BY <1>8, TaskType DEF JobStartLost
  <2>4. QED
    BY <1>2, <1>8, <2>2, <2>3 DEF JobStartLost
<1>9. CASE JobHealthy(t) \/ JobGivesUp(t)
  <2>1. With(obj, "healthy") \in Row /\ With(obj, "failed") \in Row
    BY <1>0, RecordTypes DEF Statuses
  <2>2. task' \in [Tasks -> Task]
    BY <1>0, <1>9, <2>1, TaskType DEF JobHealthy, JobGivesUp, Waits
  <2>3. QED
    BY <1>1, <1>9, <2>2 DEF JobHealthy, JobGivesUp
<1>10. CASE JobEndpoint(t) \/ JobEndpointLost(t)
  <2>1. \A e \in PortRange \cup {NoPort} :
          /\ [obj EXCEPT !.endpoint = e] \in Row
          /\ [obj EXCEPT !.endpoint = e, !.status = "failed"] \in Row
    BY <1>0 DEF Row, Statuses
  <2>2. \A e : Reported(d, e) => e \in PortRange \cup {NoPort}
    BY <1>0, ReportType
  <2>3. obj.endpoint \in PortRange \cup {NoPort}
    BY <1>0 DEF Row
  <2>4. task' \in [Tasks -> Task]
    BY <1>0, <1>10, <2>1, <2>2, <2>3, TaskType DEF JobEndpoint, JobEndpointLost, Waits
  <2>5. QED
    BY <1>1, <1>10, <2>4 DEF JobEndpoint, JobEndpointLost
<1>11. CASE JobWrite(t)
  <2>1. rows' \in [DeployIds -> Row]
    BY <1>0, <1>11, UpsertType DEF JobWrite
  <2>2. task' \in [Tasks -> Task]
    BY <1>11, TaskType DEF JobWrite
  <2>3. QED
    BY <1>2, <1>11, <2>1, <2>2 DEF JobWrite
<1>12. CASE JobRaises(t)
  <2>1. task' \in [Tasks -> Task]
    BY <1>12, TaskType DEF JobRaises
  <2>2. QED
    BY <1>1, <1>12, <2>1 DEF JobRaises
<1>13. QED
  BY <1>3, <1>4, <1>5, <1>6, <1>7, <1>8, <1>9, <1>10, <1>11, <1>12 DEF JobStep

\* The reconcile pass, a restart of the central and the end of its startup.
LEMMA TypeCentral ==
  ASSUME TypeOK, ScanBegin \/ ScanStep \/ CentralRestart \/ StartupDone
  PROVE  TypeOK'
<1> USE DEF TypeOK, AgentTypeOK, agentVars
<1>0. ASSUME NEW statuses, NEW local PROVE Listed(statuses, local) \in [DeployIds -> Row]
  BY RecordTypes DEF Listed
<1>1. CASE ScanBegin
  BY <1>0, <1>1 DEF ScanBegin
<1>2. ASSUME NEW d \in DeployIds, ScanAnswered(d) \/ ScanUnanswered(d) \/ ScanRaises(d) PROVE TypeOK'
  <2>1. Visited(d) \in [DeployIds -> Row] /\ [e \in DeployIds |-> Absent] \in [DeployIds -> Row]
    BY RecordTypes DEF Visited
  <2>2. QED
    BY <1>2, <2>1 DEF ScanAnswered, ScanUnanswered, ScanRaises, Spawns, Reaped
<1>3. ASSUME NEW d \in DeployIds, ScanWrite(d) PROVE TypeOK'
  <2>1. With(todo[d], "failed") \in Row
    BY RecordTypes DEF Statuses
  <2>2. rows' \in [DeployIds -> Row]
    BY <1>3, <2>1, UpsertType DEF ScanWrite
  <2>3. todo' \in [DeployIds -> Row]
    BY <1>3, RecordTypes DEF ScanWrite, Visited
  <2>4. QED
    BY <1>3, <2>2, <2>3 DEF ScanWrite
<1>4. CASE CentralRestart
  <2>1. task' \in [Tasks -> Task]
    BY <1>4, RecordTypes DEF CentralRestart
  <2>2. stopping' \subseteq stopping
    BY <1>4 DEF CentralRestart
  <2>3. restarts' \in 0..MaxRestarts
    BY <1>4, LifecycleAssumption DEF CentralRestart
  <2>4. QED
    BY <1>0, <1>4, <2>1, <2>2, <2>3 DEF CentralRestart
<1>5. CASE StartupDone
  BY <1>5 DEF StartupDone
<1>6. QED
  BY <1>1, <1>2, <1>3, <1>4, <1>5 DEF ScanStep

\* The agents and the model servers.
LEMMA TypeAgent ==
  ASSUME TypeOK, AgentStep, UNCHANGED centralVars
  PROVE  TypeOK'
<1> USE DEF TypeOK, AgentTypeOK, agentVars, centralVars
<1>1. ASSUME NEW l \in launching, Launch(l) PROVE TypeOK'
  <2>1. running' \in [DeployIds -> DeploySpec]
    BY <1>1, RecordTypes DEF Launch
  <2>2. stray' \subseteq [id : DeployIds, spec : DeploySpec]
    BY <1>1 DEF Launch
  <2>3. zombies' \subseteq DeployIds
    BY <1>1 DEF Launch, Reaped
  <2>4. QED
    BY <1>1, <2>1, <2>2, <2>3 DEF Launch
<1>2. ASSUME NEW l \in launching, LaunchFails(l) PROVE TypeOK'
  BY <1>2 DEF LaunchFails
<1>3. ASSUME NEW d \in DeployIds, ModelDies(d) \/ Spawns(d) PROVE TypeOK'
  BY <1>3, RecordTypes DEF ModelDies, Spawns, Reaped
<1>4. ASSUME NEW remote \in BOOLEAN, AgentRestart(remote) PROVE TypeOK'
  BY <1>4 DEF AgentRestart
<1>5. ASSUME NEW s \in stopping, stop_kill(s) \/ stop_forget(s) \/ stop_lost(s) PROVE TypeOK'
  <2>1. /\ running' \in [DeployIds -> DeploySpec]
        /\ specs' \in [DeployIds -> DeploySpec]
        /\ zombies' \subseteq DeployIds
    BY <1>5, RecordTypes DEF stop_kill, stop_forget, stop_lost, Reaped
  <2>2. stopping' \subseteq [id : DeployIds, by : Senders, next : {"kill", "forget"}]
    BY <1>5 DEF stop_kill, stop_forget, stop_lost
  <2>3. QED
    BY <1>5, <2>1, <2>2 DEF stop_kill, stop_forget, stop_lost
<1>6. QED
  BY <1>1, <1>2, <1>3, <1>4, <1>5 DEF AgentStep

LEMMA TypeStep == TypeOK /\ [Next]_vars => TypeOK'
<1> SUFFICES ASSUME TypeOK, [Next]_vars PROVE TypeOK'
  OBVIOUS
<1>1. CASE UserStep
  BY <1>1, TypeUser DEF UserStep
<1>2. CASE \E t \in Tasks : JobStep(t) \/ DestroyEnd(t)
  BY <1>2, TypeJob, TypeDestroy
<1>3. CASE ScanBegin \/ ScanStep \/ CentralRestart \/ StartupDone
  BY <1>3, TypeCentral
<1>4. CASE AgentStep /\ UNCHANGED centralVars
  BY <1>4, TypeAgent
<1>5. CASE UNCHANGED vars
  BY <1>5 DEF vars, centralVars, agentVars, TypeOK, AgentTypeOK
<1>6. QED
  BY <1>1, <1>2, <1>3, <1>4, <1>5 DEF Next

\* Whatever the users, the jobs, the reconcile pass, the agents and a crash of
\* the central do, in whatever order, every variable keeps its type: in
\* particular the port of a deploy is always one of the range.
THEOREM TypeCorrect == Spec => []TypeOK
BY TypeInit, TypeStep, PTL DEF Spec

(***************************************************************************)
(* Ports                                                                   *)
(*                                                                         *)
(* PortsUnique and OnePortPerDeploy are not inductive: a stale copy held   *)
(* by a job or by the reconcile pass may become the row again.  PortInv    *)
(* follows every copy.                                                     *)
(***************************************************************************)

\* An id that was never minted is on nobody's hands.
UnusedUnknown ==
  /\ Legacy \subseteq used
  /\ \A d \in DeployIds \ used :
       ~Exists(d) /\ ~Unvisited(d) /\ \A t \in Tasks : task[t].id # d

\* All copies of a deploy carry one port, and it is an allocated one.
CopiesAgree ==
  \A d \in DeployIds \ Legacy :
    \A x, y \in Copies(d) : x.port = y.port /\ x.port \in PortRange

\* What is about to be saved was read from a row that existed.
SavesRows ==
  /\ \A d \in hit : Unvisited(d)
  /\ \A t \in Tasks :
       task[t].pc \in {"preflight", "start", "wait", "endpoint", "write"}
         => task[t].obj.status # "absent"

\* No row, no port and no endpoint.
NoRowNoPort ==
  \A d \in DeployIds : ~Exists(d) => rows[d].port = NoPort /\ rows[d].endpoint = NoPort

PortInv == UnusedUnknown /\ CopiesAgree /\ SavesRows /\ NoRowNoPort /\ PortsUnique

\* A row may be saved over d: it carries d's port, or it is d's first.
Fits(d, row) ==
  /\ row.status # "absent"
  /\ d \notin Legacy =>
       \/ \E y \in Copies(d) : row.port = y.port
       \/ Copies(d) = {} /\ row.port \in PortRange

LEMMA InCopies ==
  ASSUME NEW d \in DeployIds
  PROVE  /\ Exists(d) => rows[d] \in Copies(d)
         /\ Unvisited(d) => todo[d] \in Copies(d)
         /\ \A t \in Tasks :
              task[t].id = d /\ task[t].obj.status # "absent" => task[t].obj \in Copies(d)
BY DEF Copies, Exists, Unvisited

\* Setting the status, or the endpoint, of a copy does not change its port.
LEMMA StatusKeepsPort ==
  ASSUME NEW row \in Row, NEW status \in Statuses
  PROVE  With(row, status).port = row.port /\ With(row, status).status # "absent"
BY DEF With, Row, Statuses

\* Every step of the system leaves the table alone, deletes one row, or saves
\* one that fits.
RowStep ==
  \/ UNCHANGED rows
  \/ \E d \in DeployIds : delete(d)
  \/ \E d \in DeployIds, row \in Row : Fits(d, row) /\ upsert(d, row)

LEMMA SavedCopyFits ==
  ASSUME TypeOK, NEW d \in DeployIds, NEW x \in Copies(d), NEW status \in Statuses
  PROVE  Fits(d, With(x, status)) /\ With(x, status) \in Row
<1>1. x \in Row
  BY DEF Copies, TypeOK, Task, IdleTask, Absent, Row, NoPort
<1>2. QED
  BY <1>1, StatusKeepsPort, RecordTypes DEF Fits

LEMMA StepsSaveFittingRows ==
  ASSUME TypeOK, PortInv, [Next]_vars
  PROVE  RowStep
<1> USE DEF PortInv
<1>1. ASSUME NEW t \in Tasks, NEW d \in DeployIds, create_deploy(t, d) PROVE RowStep
  <2> DEFINE row == [status |-> "pending", gen |-> 1,
                     port |-> first_free(taken_ports({})), endpoint |-> NoPort]
  <2>1. row.port \in PortRange /\ row \in Row
    BY <1>1, AllocationType, GensAssumption DEF create_deploy, Row, Statuses
  <2>2. Copies(d) = {}
    BY <1>1 DEF create_deploy, UnusedUnknown, Copies, Exists, Unvisited
  <2>3. Fits(d, row)
    BY <2>1, <2>2 DEF Fits
  <2>4. QED
    BY <1>1, <2>1, <2>3 DEF create_deploy, RowStep
<1>2. ASSUME NEW t \in Tasks, NEW d \in DeployIds, redeploy(t, d) PROVE RowStep
  <2> DEFINE row == [status |-> "redeploying", gen |-> edits + 1, port |-> PortFor(d),
                     endpoint |-> rows[d].endpoint]
  <2>1. PortFor(d) \in PortRange
    BY <1>2, AllocationType DEF redeploy, PortFor, in_range
  <2>2. row \in Row
    BY <1>2, <2>1 DEF redeploy, TypeOK, Row, Statuses
  <2>3. rows[d] \in Copies(d)
    BY <1>2, InCopies DEF redeploy, owned_deploy
  <2>4. d \notin Legacy => PortFor(d) = rows[d].port
    BY <2>3 DEF CopiesAgree, PortFor, in_range
  <2>5. Fits(d, row)
    BY <2>3, <2>4 DEF Fits
  <2>6. QED
    BY <1>2, <2>2, <2>5 DEF redeploy, RowStep
<1>3. ASSUME NEW t \in Tasks, NEW d \in DeployIds, destroy_deploy(t, d) PROVE RowStep
  BY <1>3, InCopies, SavedCopyFits DEF destroy_deploy, owned_deploy, RowStep, Statuses
<1>4. ASSUME NEW t \in Tasks, DestroyEnd(t) PROVE RowStep
  <2>1. task[t].id \in DeployIds
    BY <1>4, BusyTask DEF DestroyEnd, At, Idle
  <2>2. QED
    BY <1>4, <2>1 DEF DestroyEnd, RowStep
<1>5. ASSUME NEW t \in Tasks, JobBegin(t) \/ JobChecked(t) \/ JobStartLost(t)
      PROVE RowStep
  <2> DEFINE d == task[t].id
  <2>1. d \in DeployIds
    BY <1>5, BusyTask DEF JobBegin, JobChecked, JobStartLost, At, Idle
  <2>2. \/ UNCHANGED rows
        \/ Exists(d) /\ \E status \in Statuses : upsert(d, With(rows[d], status))
    BY <1>5 DEF JobBegin, JobChecked, JobStartLost, Statuses
  <2>3. QED
    BY <2>1, <2>2, InCopies, SavedCopyFits DEF RowStep
<1>6. ASSUME NEW t \in Tasks, JobWrite(t) PROVE RowStep
  <2> DEFINE d == task[t].id
             obj == task[t].obj
  <2>1. d \in DeployIds /\ obj \in Row /\ obj.status # "absent"
    BY <1>6, BusyTask DEF JobWrite, At, Idle, SavesRows
  <2>2. Fits(d, obj)
    BY <2>1, InCopies DEF Fits
  <2>3. QED
    BY <1>6, <2>1, <2>2 DEF JobWrite, RowStep
<1>7. ASSUME NEW t \in Tasks, JobStep(t), ~JobBegin(t), ~JobChecked(t), ~JobStartLost(t),
             ~JobWrite(t)
      PROVE RowStep
  BY <1>7 DEF JobStep, JobPreflight, JobPreflightLost, JobStart, JobStarted, JobHealthy,
              JobGivesUp, JobEndpoint, JobEndpointLost, JobRaises, RowStep
<1>8. ASSUME NEW d \in DeployIds, ScanWrite(d) PROVE RowStep
  <2>1. todo[d] \in Copies(d)
    BY <1>8, InCopies DEF ScanWrite, SavesRows
  <2>2. QED
    BY <1>8, <2>1, SavedCopyFits DEF ScanWrite, RowStep, Statuses
<1>9. ASSUME NEW d \in DeployIds, ScanAnswered(d) \/ ScanUnanswered(d) \/ ScanRaises(d)
      PROVE  RowStep
  BY <1>9 DEF ScanAnswered, ScanUnanswered, ScanRaises, RowStep
<1>10. CASE ScanBegin \/ CentralRestart \/ StartupDone
  BY <1>10 DEF ScanBegin, CentralRestart, StartupDone, RowStep
<1>11. CASE AgentStep /\ UNCHANGED centralVars
  BY <1>11 DEF centralVars, RowStep
<1>12. CASE UNCHANGED vars
  BY <1>12 DEF vars, centralVars, RowStep
<1>13. QED
  BY <1>1, <1>2, <1>3, <1>4, <1>5, <1>6, <1>7, <1>8, <1>9, <1>10, <1>11, <1>12
     DEF Next, UserStep, ScanStep

\* What a job holds after a step is a copy there was before it.
TaskCarries ==
  \A t \in Tasks :
    task'[t].obj.status # "absent" =>
      \E y \in Copies(task'[t].id) : task'[t].obj.port = y.port

\* So is what the reconcile pass holds.
TodoCarries ==
  \A d \in DeployIds : todo'[d].status # "absent" => todo'[d] \in {todo[d], rows[d]}

\* A task that a step does not move holds what it held.
LEMMA OtherTasksCarry ==
  ASSUME TypeOK, NEW t \in Tasks, task[t].obj.status # "absent"
  PROVE  task[t].id \in DeployIds /\ task[t].obj \in Copies(task[t].id)
<1>1. task[t] # IdleTask
  BY DEF IdleTask, Absent
<1>2. task[t].id \in DeployIds
  BY <1>1 DEF TypeOK, Task
<1>3. QED
  BY <1>2, InCopies

\* A slot that starts, ends, or moves on with a copy of its deploy.
LEMMA SlotCarries ==
  ASSUME TypeOK, NEW t \in Tasks,
         \/ Ends(t)
         \/ \E d \in DeployIds, pc \in Waits : Starts(t, d, pc)
         \/ /\ ~Idle(t)
            /\ \E pc \in Waits, obj \in Row :
                 /\ Moves(t, pc, obj)
                 /\ obj.status # "absent" =>
                      \E y \in Copies(task[t].id) : obj.port = y.port
  PROVE  TaskCarries
<1> DEFINE Carried(u) == task'[u].obj.status # "absent" =>
                           \E y \in Copies(task'[u].id) : task'[u].obj.port = y.port
<1>1. ASSUME NEW u \in Tasks, u # t PROVE Carried(u)
  <2>1. task'[u] = task[u]
    BY <1>1 DEF Ends, Starts, Moves, TypeOK
  <2>2. QED
    BY <2>1, OtherTasksCarry
<1>2. Carried(t)
  <2>1. CASE Ends(t)
    BY <2>1 DEF Ends, TypeOK, IdleTask, Absent
  <2>2. CASE \E d \in DeployIds, pc \in Waits : Starts(t, d, pc)
    BY <2>2 DEF Starts, TypeOK, Absent
  <2>3. ASSUME NEW pc \in Waits, NEW obj \in Row, Moves(t, pc, obj),
               obj.status # "absent" => \E y \in Copies(task[t].id) : obj.port = y.port
        PROVE  Carried(t)
    <3>1. task'[t] = [pc |-> pc, id |-> task[t].id, obj |-> obj]
      BY <2>3 DEF Moves, TypeOK
    <3>2. QED
      BY <2>3, <3>1
  <2>4. QED
    BY <2>1, <2>2, <2>3
<1>3. QED
  BY <1>1, <1>2 DEF TaskCarries

LEMMA UnchangedCarries ==
  ASSUME TypeOK, task' = task
  PROVE  TaskCarries
BY OtherTasksCarry DEF TaskCarries

LEMMA StepsCarryTasks ==
  ASSUME TypeOK, PortInv, [Next]_vars
  PROVE  TaskCarries
<1> USE DEF PortInv
<1>1. ASSUME NEW t \in Tasks, NEW d \in DeployIds,
             create_deploy(t, d) \/ redeploy(t, d) \/ destroy_deploy(t, d)
      PROVE  TaskCarries
  BY <1>1, SlotCarries DEF create_deploy, redeploy, destroy_deploy, Waits
<1>2. ASSUME NEW t \in Tasks, DestroyEnd(t) PROVE TaskCarries
  BY <1>2, SlotCarries DEF DestroyEnd
<1>3. ASSUME NEW t \in Tasks, JobStep(t) PROVE TaskCarries
  <2> DEFINE d == task[t].id
             obj == task[t].obj
  <2>0. ~Idle(t) /\ d \in DeployIds /\ obj \in Row /\ rows[d] \in Row
    BY <1>3, BusyTask
       DEF JobStep, JobBegin, JobPreflight, JobPreflightLost, JobChecked, JobStart,
           JobStarted, JobStartLost, JobHealthy, JobGivesUp, JobEndpoint,
           JobEndpointLost, JobRaises, JobWrite, At, Idle, TypeOK
  <2>1. CASE JobBegin(t) \/ JobChecked(t) \/ JobStarted(t)
    <3>1. \/ Ends(t)
          \/ /\ Exists(d)
             /\ \E pc \in Waits : \/ Moves(t, pc, rows[d])
                                 \/ \E status \in Statuses : Moves(t, pc, With(rows[d], status))
      BY <2>1 DEF JobBegin, JobChecked, JobStarted, Statuses, Waits
    <3>2. CASE Ends(t)
      BY <3>2, SlotCarries
    <3>3. ASSUME Exists(d), NEW pc \in Waits, NEW status \in Statuses,
                 Moves(t, pc, rows[d]) \/ Moves(t, pc, With(rows[d], status))
          PROVE  TaskCarries
      <4>1. /\ rows[d] \in Copies(d)
            /\ With(rows[d], status) \in Row
            /\ With(rows[d], status).port = rows[d].port
        BY <2>0, <3>3, InCopies, RecordTypes, StatusKeepsPort
      <4>2. QED
        BY <2>0, <3>3, <4>1, SlotCarries
    <3>4. QED
      BY <3>1, <3>2, <3>3 DEF Statuses
  <2>2. CASE JobPreflight(t) \/ JobPreflightLost(t) \/ JobStart(t)
    <3>1. \E pc \in Waits : Moves(t, pc, Absent)
      BY <2>2 DEF JobPreflight, JobPreflightLost, JobStart, Waits
    <3>2. QED
      BY <2>0, <3>1, SlotCarries, RecordTypes DEF Absent
  <2>3. CASE JobStartLost(t) \/ JobWrite(t) \/ JobRaises(t)
    BY <2>3, SlotCarries DEF JobStartLost, JobWrite, JobRaises
  <2>4. CASE JobHealthy(t) \/ JobGivesUp(t) \/ JobEndpoint(t) \/ JobEndpointLost(t)
    <3>1. obj.status # "absent"
      BY <2>4 DEF JobHealthy, JobGivesUp, JobEndpoint, JobEndpointLost, JobRaises, At, SavesRows
    <3>2. obj \in Copies(d)
      BY <2>0, <3>1, InCopies
    <3>3. PICK pc \in Waits, new \in Row : Moves(t, pc, new) /\ new.port = obj.port
      <4>1. /\ With(obj, "healthy") \in Row /\ With(obj, "healthy").port = obj.port
            /\ With(obj, "failed") \in Row /\ With(obj, "failed").port = obj.port
        BY <2>0, RecordTypes, StatusKeepsPort DEF Statuses
      <4>2. ASSUME NEW e \in PortRange \cup {NoPort}
            PROVE  /\ [obj EXCEPT !.endpoint = e] \in Row
                   /\ [obj EXCEPT !.endpoint = e].port = obj.port
                   /\ [obj EXCEPT !.endpoint = e, !.status = "failed"] \in Row
                   /\ [obj EXCEPT !.endpoint = e, !.status = "failed"].port = obj.port
        BY <2>0 DEF Row, Statuses
      <4>3. obj.endpoint \in PortRange \cup {NoPort}
        BY <2>0 DEF Row
      <4>4. \A e : Reported(d, e) => e \in PortRange \cup {NoPort}
        BY <2>0, ReportType
      <4>5. CASE JobHealthy(t) \/ JobGivesUp(t)
        BY <4>1, <4>5 DEF JobHealthy, JobGivesUp, Waits
      <4>6. CASE JobEndpoint(t) \/ JobEndpointLost(t)
        BY <4>2, <4>3, <4>4, <4>6 DEF JobEndpoint, JobEndpointLost, JobRaises, Waits
      <4>7. QED
        BY <2>4, <4>5, <4>6
    <3>4. QED
      BY <2>0, <3>2, <3>3, SlotCarries
  <2>5. QED
    BY <1>3, <2>1, <2>2, <2>3, <2>4 DEF JobStep
<1>4. CASE CentralRestart
  BY <1>4 DEF CentralRestart, TaskCarries, IdleTask, Absent
<1>5. CASE ScanBegin \/ ScanStep \/ StartupDone
  BY <1>5, UnchangedCarries
     DEF ScanBegin, ScanStep, ScanAnswered, ScanUnanswered, ScanRaises, ScanWrite, StartupDone
<1>6. CASE AgentStep /\ UNCHANGED centralVars
  BY <1>6, UnchangedCarries DEF centralVars
<1>7. CASE UNCHANGED vars
  BY <1>7, UnchangedCarries DEF vars, centralVars
<1>8. QED
  BY <1>1, <1>2, <1>3, <1>4, <1>5, <1>6, <1>7 DEF Next, UserStep

LEMMA StepsCarryTodo ==
  ASSUME TypeOK, [Next]_vars
  PROVE  TodoCarries
<1>0. ASSUME NEW statuses, NEW local, todo' = Listed(statuses, local) PROVE TodoCarries
  BY <1>0 DEF Listed, TodoCarries, Absent
<1>1. CASE UNCHANGED todo
  BY <1>1 DEF TodoCarries
<1>2. CASE ScanBegin \/ CentralRestart
  BY <1>0, <1>2 DEF ScanBegin, CentralRestart
<1>3. CASE ScanStep
  BY <1>3 DEF ScanStep, ScanAnswered, ScanUnanswered, ScanRaises, ScanWrite, Visited, TodoCarries,
              TypeOK, Absent
<1>4. CASE UserStep
  BY <1>1, <1>4 DEF UserStep, create_deploy, redeploy, destroy_deploy, scanVars
<1>5. ASSUME NEW t \in Tasks, JobStep(t) \/ DestroyEnd(t) PROVE TodoCarries
  BY <1>1, <1>5
     DEF JobStep, JobBegin, JobPreflight, JobPreflightLost, JobChecked, JobStart,
         JobStarted, JobStartLost, JobHealthy, JobGivesUp, JobEndpoint, JobEndpointLost,
         JobWrite, JobRaises, DestroyEnd, scanVars
<1>6. CASE StartupDone \/ (AgentStep /\ UNCHANGED centralVars) \/ UNCHANGED vars
  BY <1>1, <1>6 DEF StartupDone, centralVars, vars
<1>7. QED
  BY <1>2, <1>3, <1>4, <1>5, <1>6 DEF Next

LEMMA PortInit == Init => PortInv
<1> SUFFICES ASSUME Init PROVE PortInv
  OBVIOUS
<1>1. UnusedUnknown
  BY LifecycleAssumption DEF Init, UnusedUnknown, Exists, Unvisited, Absent, IdleTask
<1>2. ASSUME NEW d \in DeployIds \ Legacy PROVE Copies(d) = {}
  <2>1. rows[d] = Absent /\ todo[d] = Absent
    BY DEF Init
  <2>2. \A t \in Tasks : task[t].id # d
    BY LifecycleAssumption DEF Init, IdleTask
  <2>3. QED
    BY <2>1, <2>2 DEF Copies, Absent
<1>3. CopiesAgree
  BY <1>2 DEF CopiesAgree
<1>4. SavesRows
  BY DEF Init, SavesRows, IdleTask
<1>5. NoRowNoPort
  BY DEF Init, NoRowNoPort, Exists, Absent
<1>6. PortsUnique
  BY PortFacts DEF Init, PortsUnique, Exists, Absent, in_range
<1>7. QED
  BY <1>1, <1>3, <1>4, <1>5, <1>6 DEF PortInv

LEMMA RowsStepUnique ==
  ASSUME TypeOK, PortInv, RowStep
  PROVE  PortsUnique' /\ NoRowNoPort'
<1> USE DEF PortInv, PortsUnique, NoRowNoPort, Exists, in_range, TypeOK
<1>1. CASE UNCHANGED rows
  BY <1>1
<1>2. ASSUME NEW d \in DeployIds, delete(d) PROVE PortsUnique' /\ NoRowNoPort'
  BY <1>2 DEF delete, Absent
<1>3. ASSUME NEW d \in DeployIds, NEW row \in Row, Fits(d, row), upsert(d, row)
      PROVE  PortsUnique' /\ NoRowNoPort'
  BY <1>3, PortFacts DEF upsert, Fits, Conflicts
<1>4. QED
  BY <1>1, <1>2, <1>3 DEF RowStep

LEMMA CopiesStayAgreed ==
  ASSUME TypeOK, PortInv, RowStep, TaskCarries, TodoCarries
  PROVE  CopiesAgree'
<1> SUFFICES ASSUME NEW d \in DeployIds \ Legacy, NEW x \in Copies(d)', NEW y \in Copies(d)'
             PROVE  x.port = y.port /\ x.port \in PortRange
  BY DEF CopiesAgree
<1>1. ASSUME NEW z \in Copies(d)', z # rows'[d]
      PROVE  \E w \in Copies(d) : z.port = w.port
  <2>1. CASE z = todo'[d]
    BY <1>1, <2>1, InCopies DEF Copies, TodoCarries, Exists, Unvisited
  <2>2. ASSUME NEW t \in Tasks, task'[t].id = d, z = task'[t].obj
        PROVE  \E w \in Copies(d) : z.port = w.port
    BY <1>1, <2>2 DEF Copies, TaskCarries
  <2>3. QED
    BY <1>1, <2>1, <2>2 DEF Copies
<1>2. rows'[d].status = "absent" \/ rows'[d] = rows[d] \/ Fits(d, rows'[d])
  BY DEF RowStep, delete, upsert, Absent, TypeOK
<1>3. CASE \A z \in Copies(d)' : \E w \in Copies(d) : z.port = w.port
  BY <1>3 DEF PortInv, CopiesAgree
<1>4. CASE Copies(d) = {} /\ rows'[d].port \in PortRange
  BY <1>1, <1>4
<1>5. CASE rows'[d] \in Copies(d)'
  <2>1. rows'[d].status # "absent"
    BY <1>5 DEF Copies
  <2>2. CASE rows'[d] = rows[d]
    BY <1>1, <1>3, <2>1, <2>2, InCopies DEF Exists
  <2>3. CASE Fits(d, rows'[d])
    BY <1>1, <1>3, <1>4, <2>3 DEF Fits
  <2>4. QED
    BY <1>2, <2>1, <2>2, <2>3
<1>6. CASE rows'[d] \notin Copies(d)'
  BY <1>1, <1>3, <1>6
<1>7. QED
  BY <1>5, <1>6

LEMMA PortStep == TypeOK /\ PortInv /\ [Next]_vars => PortInv'
<1> SUFFICES ASSUME TypeOK, PortInv, [Next]_vars PROVE PortInv'
  OBVIOUS
<1>1. RowStep /\ TaskCarries /\ TodoCarries
  BY StepsSaveFittingRows, StepsCarryTasks, StepsCarryTodo
<1>2. CopiesAgree' /\ PortsUnique' /\ NoRowNoPort'
  BY <1>1, CopiesStayAgreed, RowsStepUnique
<1>3. UnusedUnknown'
  <2> USE DEF UnusedUnknown, PortInv, Exists, Unvisited, TypeOK
  <2>1. CASE UserStep
    BY <2>1 DEF UserStep, create_deploy, redeploy, destroy_deploy, scanVars, upsert, Starts,
                owned_deploy
  <2>2. ASSUME NEW t \in Tasks, JobStep(t) \/ DestroyEnd(t) PROVE UnusedUnknown'
    <3>1. task[t].id \in used /\ UNCHANGED <<used, scanVars>>
      BY <2>2, BusyTask
         DEF JobStep, JobBegin, JobPreflight, JobPreflightLost, JobChecked, JobStart,
             JobStarted, JobStartLost, JobHealthy, JobGivesUp, JobEndpoint, JobEndpointLost,
             JobWrite, JobRaises, DestroyEnd, At, Idle
    <3>2. \A d \in DeployIds : rows'[d] # rows[d] => d = task[t].id
      BY <2>2
         DEF JobStep, JobBegin, JobPreflight, JobPreflightLost, JobChecked, JobStart,
             JobStarted, JobStartLost, JobHealthy, JobGivesUp, JobEndpoint, JobEndpointLost,
             JobWrite, JobRaises, DestroyEnd, upsert, delete
    <3>3. \A u \in Tasks : task'[u].id \in {task[u].id, task[t].id, NoDeploy}
      BY <2>2, SlotEndsOrMoves DEF Moves, Ends, IdleTask
    <3>4. QED
      BY <3>1, <3>2, <3>3, LifecycleAssumption DEF scanVars
  <2>3. CASE ScanBegin \/ ScanStep \/ StartupDone
    <3>1. UNCHANGED <<used, task>>
      BY <2>3 DEF ScanBegin, ScanStep, ScanAnswered, ScanUnanswered, ScanRaises, ScanWrite, StartupDone
    <3>2. \A d \in DeployIds : rows'[d] # rows[d] => Unvisited(d)
      BY <2>3
         DEF ScanBegin, ScanStep, ScanAnswered, ScanUnanswered, ScanRaises, ScanWrite, StartupDone,
             SavesRows, upsert
    <3>3. QED
      BY <3>1, <3>2, StepsCarryTodo DEF TodoCarries
  <2>4. CASE CentralRestart
    BY <2>4, LifecycleAssumption DEF CentralRestart, Listed, IdleTask, Absent
  <2>5. CASE (AgentStep /\ UNCHANGED centralVars) \/ UNCHANGED vars
    BY <2>5 DEF centralVars, vars
  <2>6. QED
    BY <2>1, <2>2, <2>3, <2>4, <2>5 DEF Next
<1>4. SavesRows'
  <2> USE DEF SavesRows, PortInv, TypeOK
  <2>1. CASE UserStep
    BY <2>1 DEF UserStep, create_deploy, redeploy, destroy_deploy, scanVars, Starts, Unvisited
  <2>2. ASSUME NEW t \in Tasks, JobStep(t) \/ DestroyEnd(t) PROVE SavesRows'
    <3>1. UNCHANGED scanVars
      BY <2>2
         DEF JobStep, JobBegin, JobPreflight, JobPreflightLost, JobChecked, JobStart,
             JobStarted, JobStartLost, JobHealthy, JobGivesUp, JobEndpoint, JobEndpointLost,
             JobWrite, JobRaises, DestroyEnd
    <3>2. \A u \in Tasks : u # t => task'[u] = task[u]
      BY <2>2, SlotEndsOrMoves DEF Moves, Ends
    <3>3. task'[t].pc \in {"preflight", "start", "wait", "endpoint", "write"}
            => task'[t].obj.status # "absent"
      <4>1. ~Idle(t) /\ task[t].id \in DeployIds /\ task[t].obj \in Row
        BY <2>2, BusyTask
           DEF JobStep, JobBegin, JobPreflight, JobPreflightLost, JobChecked, JobStart,
               JobStarted, JobStartLost, JobHealthy, JobGivesUp, JobEndpoint, JobEndpointLost,
               JobWrite, JobRaises, DestroyEnd, At, Idle
      <4>2. \A status \in Statuses :
              /\ With(rows[task[t].id], status).status # "absent"
              /\ With(task[t].obj, status).status # "absent"
        BY <4>1, StatusKeepsPort
      <4>3. \A e : [task[t].obj EXCEPT !.endpoint = e, !.status = "failed"].status # "absent"
        BY <4>1 DEF Row
      <4>4. \A e : [task[t].obj EXCEPT !.endpoint = e].status = task[t].obj.status
        BY <4>1 DEF Row
      <4>5. CASE DestroyEnd(t) \/ JobPreflight(t) \/ JobPreflightLost(t) \/ JobStart(t)
                 \/ JobStartLost(t) \/ JobWrite(t) \/ JobRaises(t)
        BY <4>5
           DEF DestroyEnd, JobPreflight, JobPreflightLost, JobStart, JobStartLost, JobWrite,
               JobRaises, Moves, Ends, IdleTask
      <4>6. CASE JobBegin(t) \/ JobChecked(t) \/ JobStarted(t)
        BY <4>2, <4>6
           DEF JobBegin, JobChecked, JobStarted, Moves, Ends, IdleTask, Statuses, Exists
      <4>7. CASE JobHealthy(t) \/ JobGivesUp(t)
        BY <4>2, <4>7 DEF JobHealthy, JobGivesUp, Moves, Statuses
      <4>8. CASE JobEndpoint(t) \/ JobEndpointLost(t)
        <5>1. task[t].obj.status # "absent"
          BY <4>8 DEF JobEndpoint, JobEndpointLost, JobRaises, At
        <5>2. ASSUME NEW e, \/ Moves(t, "write", [task[t].obj EXCEPT !.endpoint = e])
                            \/ Moves(t, "write", [task[t].obj EXCEPT !.endpoint = e,
                                                                    !.status = "failed"])
              PROVE  task'[t].obj.status # "absent"
          <6> DEFINE moved == [task[t].obj EXCEPT !.endpoint = e]
                     failed == [task[t].obj EXCEPT !.endpoint = e, !.status = "failed"]
          <6>1. moved.status # "absent" /\ failed.status # "absent"
            BY <4>3, <4>4, <5>1
          <6> HIDE DEF moved, failed
          <6>2. task'[t].obj \in {moved, failed}
            <7>1. Moves(t, "write", moved) \/ Moves(t, "write", failed)
              BY <5>2 DEF moved, failed
            <7>2. QED
              BY <7>1 DEF Moves
          <6>3. QED
            BY <6>1, <6>2
        <5>3. CASE JobEndpoint(t)
          BY <5>2, <5>3 DEF JobEndpoint
        <5>4. CASE JobEndpointLost(t)
          BY <5>2, <5>4 DEF JobEndpointLost
        <5>5. QED
          BY <4>8, <5>3, <5>4
      <4>9. QED
        BY <2>2, <4>5, <4>6, <4>7, <4>8 DEF JobStep
    <3>4. QED
      BY <3>1, <3>2, <3>3 DEF scanVars, Unvisited
  <2>3. CASE ScanBegin \/ ScanStep \/ StartupDone
    BY <2>3 DEF ScanBegin, ScanStep, ScanAnswered, ScanUnanswered, ScanRaises, ScanWrite, StartupDone,
                ScanIdle, Visited, Unvisited
  <2>4. CASE CentralRestart
    BY <2>4 DEF CentralRestart, IdleTask
  <2>5. CASE (AgentStep /\ UNCHANGED centralVars) \/ UNCHANGED vars
    BY <2>5 DEF centralVars, vars, Unvisited
  <2>6. QED
    BY <2>1, <2>2, <2>3, <2>4, <2>5 DEF Next
<1>5. QED
  BY <1>2, <1>3, <1>4 DEF PortInv

LEMMA PortInvariant == Spec => []PortInv
BY PortInit, PortStep, TypeCorrect, PTL DEF Spec

\* Two deploys never hold one port, through every interleaving of creations,
\* redeploys, destroys, jobs, reconcile passes and restarts, although stale
\* rows are saved again (central/db.py _upsert under its UNIQUE index).
THEOREM PortsStayUnique == Spec => []PortsUnique
<1>1. PortInv => PortsUnique
  BY DEF PortInv
<1>2. QED
  BY <1>1, PortInvariant, PTL

\* A deploy keeps the port of its first row for as long as anyone can save a
\* copy of it: no race moves the URL people have copied.
THEOREM PortIsKept == Spec => []OnePortPerDeploy
<1>1. PortInv => OnePortPerDeploy
  BY DEF PortInv, CopiesAgree, OnePortPerDeploy
<1>2. QED
  BY <1>1, PortInvariant, PTL

(***************************************************************************)
(* The deploys table implements the registry of ports                      *)
(***************************************************************************)

Held == [d \in DeployIds \ Legacy |-> rows[d].port]

LEMMA RegistryInit == Init => Registry!Init
BY DEF Init, Registry!Init, Absent, NoPort

LEMMA RegistryStep ==
  ASSUME TypeOK, PortInv, PortInv', RowStep
  PROVE  [Registry!Next]_Held
<1> USE DEF PortInv, TypeOK
<1>1. CASE UNCHANGED rows
  BY <1>1 DEF Held
<1>2. ASSUME NEW d \in DeployIds, delete(d) PROVE [Registry!Next]_Held
  <2>1. CASE d \in Legacy \/ rows[d].port = NoPort
    <3>1. \A e \in DeployIds \ Legacy : rows'[e].port = rows[e].port
      BY <1>2, <2>1 DEF delete, Absent
    <3>2. QED
      BY <3>1 DEF Held
  <2>2. CASE d \notin Legacy /\ rows[d].port # NoPort
    <3>1. Held' = [Held EXCEPT ![d] = 0]
      BY <1>2, <2>2 DEF Held, delete, Absent, NoPort
    <3>2. Registry!Free(d)
      BY <2>2, <3>1 DEF Registry!Free, Held, NoPort
    <3>3. QED
      BY <2>2, <3>2 DEF Registry!Next
  <2>3. QED
    BY <2>1, <2>2
<1>3. ASSUME NEW d \in DeployIds, NEW row \in Row, Fits(d, row), upsert(d, row)
      PROVE  [Registry!Next]_Held
  <2>1. CASE \A e \in DeployIds \ Legacy : rows'[e].port = rows[e].port
    BY <2>1 DEF Held
  <2>2. CASE \E e \in DeployIds \ Legacy : rows'[e].port # rows[e].port
    <3>1. d \notin Legacy /\ ~Conflicts(d, row) /\ rows' = [rows EXCEPT ![d] = row]
          /\ row.port # rows[d].port
      BY <1>3, <2>2 DEF upsert
    <3>2. ~Exists(d)
      BY <1>3, <3>1, InCopies DEF Fits, CopiesAgree
    <3>3. rows[d].port = NoPort
      BY <3>2 DEF NoRowNoPort
    <3>4. row.port \in PortRange
      BY <1>3, <3>1 DEF Fits, CopiesAgree
    <3>5. \A e \in DeployIds : rows[e].port # row.port
      BY <3>1, <3>3, <3>4, PortFacts DEF Conflicts, NoRowNoPort
    <3>6. Held' = [Held EXCEPT ![d] = row.port]
      BY <3>1 DEF Held
    <3>7. Registry!Take(d, row.port)
      BY <3>1, <3>3, <3>5, <3>6 DEF Registry!Take, Held, NoPort
    <3>8. QED
      BY <3>1, <3>4, <3>7 DEF Registry!Next
  <2>3. QED
    BY <2>1, <2>2
<1>4. QED
  BY <1>1, <1>2, <1>3 DEF RowStep

\* Every behaviour of the deploys table, crashes and stale writes included, is
\* one of the port registry: a port is given only when free, and a deploy gets
\* another one only by way of having none.
THEOREM ImplementsRegistry == Spec => RegistrySpec
<1>1. TypeOK /\ PortInv /\ PortInv' /\ [Next]_vars => [Registry!Next]_Held
  BY StepsSaveFittingRows, RegistryStep
<1>2. QED
  BY <1>1, RegistryInit, PortInvariant, TypeCorrect, PTL
     DEF Spec, RegistrySpec, Registry!Spec, Held

(***************************************************************************)
(* A destroyed deploy stays destroyed                                      *)
(***************************************************************************)

LEMMA GoneStep ==
  ASSUME TypeOK, PortInv, [Next]_vars, NEW d \in DeployIds, Gone(d)
  PROVE  Gone(d)'
<1> USE DEF Gone, TypeOK, Exists, Unvisited
\* It is enough that the step works on other deploys and reads no row of d.
<1>1. ASSUME used \subseteq used', rows'[d] = rows[d], d \notin hit',
             todo'[d].status = "absent",
             \A t \in Tasks : task'[t] = task[t] \/ task'[t].id # d \/ task'[t] = IdleTask
      PROVE  Gone(d)'
  BY <1>1 DEF OnTask, Idle, IdleTask
<1>2. ASSUME NEW t \in Tasks, NEW e \in DeployIds,
             create_deploy(t, e) \/ redeploy(t, e) \/ destroy_deploy(t, e)
      PROVE  Gone(d)'
  <2>1. e # d
    BY <1>2 DEF create_deploy, redeploy, destroy_deploy, owned_deploy
  <2>2. QED
    BY <1>1, <1>2, <2>1
       DEF create_deploy, redeploy, destroy_deploy, upsert, Starts, scanVars
<1>3. ASSUME NEW t \in Tasks, JobStep(t) \/ DestroyEnd(t) PROVE Gone(d)'
  <2>1. ~Idle(t) /\ UNCHANGED <<used, todo, hit>>
    BY <1>3
       DEF JobStep, JobBegin, JobPreflight, JobPreflightLost, JobChecked, JobStart,
           JobStarted, JobStartLost, JobHealthy, JobGivesUp, JobEndpoint, JobEndpointLost,
           JobWrite, JobRaises, DestroyEnd, At, Idle, scanVars
  <2>2. task[t].id # d
    BY <2>1 DEF OnTask
  <2>3. rows'[d] = rows[d]
    BY <1>3, <2>2
       DEF JobStep, JobBegin, JobPreflight, JobPreflightLost, JobChecked, JobStart,
           JobStarted, JobStartLost, JobHealthy, JobGivesUp, JobEndpoint, JobEndpointLost,
           JobWrite, JobRaises, DestroyEnd, upsert, delete
  <2>4. \A u \in Tasks : task'[u] = task[u] \/ task'[u].id # d \/ task'[u] = IdleTask
    BY <1>3, <2>2, SlotEndsOrMoves DEF Moves, Ends
  <2>5. QED
    BY <1>1, <2>1, <2>3, <2>4
<1>4. CASE ScanBegin \/ ScanStep \/ StartupDone
  <2>1. UNCHANGED <<used, task>> /\ rows'[d] = rows[d] /\ d \notin hit'
    BY <1>4 DEF ScanBegin, ScanStep, ScanAnswered, ScanUnanswered, ScanRaises, ScanWrite, StartupDone,
                ScanIdle, upsert
  <2>2. todo'[d].status = "absent"
    BY <1>4, StepsCarryTodo DEF TodoCarries
  <2>3. QED
    BY <1>1, <2>1, <2>2
<1>5. CASE CentralRestart
  BY <1>1, <1>5 DEF CentralRestart, Listed, Absent
<1>6. CASE (AgentStep /\ UNCHANGED centralVars) \/ UNCHANGED vars
  BY <1>1, <1>6 DEF centralVars, vars
<1>7. QED
  BY <1>2, <1>3, <1>4, <1>5, <1>6 DEF Next, UserStep

\* Once no job, DELETE handler or reconcile pass holds a destroyed deploy, no
\* step of the system ever brings its row back: the ghosts the program does
\* show come from copies that were already in flight.
THEOREM DestroyedForGood == Spec => GoneStaysGone
<1>1. TypeOK /\ PortInv /\ [Next]_vars
        => [\A d \in DeployIds : Gone(d) => Gone(d)']_vars
  BY GoneStep
<1>2. QED
  BY <1>1, TypeCorrect, PortInvariant, PTL DEF Spec, GoneStaysGone
=============================================================================
