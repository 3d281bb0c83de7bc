------------------------- MODULE DeployCalm_proofs -------------------------
(***************************************************************************)
(* Proofs about DeployLifecycle with a user who lets every operation of a  *)
(* deploy settle before the next one (~Overlap), for every set of deploys, *)
(* runtimes, ports and restarts: what such a user may rely on.             *)
(***************************************************************************)
EXTENDS DeployLifecycle_proofs

(***************************************************************************)
(* One operation at a time                                                 *)
(***************************************************************************)

\* A deploy has one task at most, and its row while it has one; a job and a
\* stop of one deploy are never under way together.
AloneInv ==
  /\ \A t, u \in Tasks : ~Idle(t) /\ task[t].id = task[u].id => t = u
  /\ \A t \in Tasks : ~Idle(t) => Exists(task[t].id)
  /\ \A t \in Tasks, s \in stopping : ~Idle(t) /\ s.id = task[t].id => At(t, "stop")
  /\ \A s \in stopping : s.id \in used

\* What a step of a job, or the end of a DELETE, does to its slot.
LEMMA SlotGoes ==
  ASSUME TypeOK, NEW t \in Tasks, JobStep(t) \/ DestroyEnd(t)
  PROVE  /\ ~Idle(t) /\ task[t].id \in DeployIds
         /\ \A u \in Tasks : u # t => task'[u] = task[u]
         /\ \/ task'[t] = IdleTask
            \/ /\ JobStep(t) /\ task'[t].id = task[t].id
               /\ task'[t].pc \in Waits \ {"begin", "stop"}
         /\ JobStep(t) => ~At(t, "stop")
         /\ \A d \in DeployIds : d # task[t].id => rows'[d] = rows[d]
         /\ UNCHANGED <<used, todo, hit, running, stray, stopping>>
<1>1. ~Idle(t) /\ task[t].id \in DeployIds /\ (JobStep(t) => ~At(t, "stop"))
  BY BusyTask
     DEF JobStep, JobBegin, JobPreflight, JobPreflightLost, JobChecked, JobStart,
         JobStarted, JobStartLost, JobHealthy, JobGivesUp, JobEndpoint, JobEndpointLost, JobRaises,
         JobWrite, DestroyEnd, At, Idle
<1>2. \/ Ends(t)
      \/ JobStep(t) /\ \E pc \in Waits \ {"begin", "stop"} : \E obj : Moves(t, pc, obj)
  BY DEF JobStep, JobBegin, JobPreflight, JobPreflightLost, JobChecked, JobStart,
         JobStarted, JobStartLost, JobHealthy, JobGivesUp, JobEndpoint, JobEndpointLost, JobRaises,
         JobWrite, DestroyEnd, Waits
<1>3. UNCHANGED <<used, todo, hit, running, stray, stopping>>
  BY DEF JobStep, JobBegin, JobPreflight, JobPreflightLost, JobChecked, JobStart,
         JobStarted, JobStartLost, JobHealthy, JobGivesUp, JobEndpoint, JobEndpointLost, JobRaises,
         JobWrite, DestroyEnd, scanVars, agentVars, Spawns, start_deploy
<1>4. \A d \in DeployIds : d # task[t].id => rows'[d] = rows[d]
  BY DEF TypeOK, JobStep, JobBegin, JobPreflight, JobPreflightLost, JobChecked, JobStart,
         JobStarted, JobStartLost, JobHealthy, JobGivesUp, JobEndpoint, JobEndpointLost, JobRaises,
         JobWrite, DestroyEnd, upsert, delete
<1>5. task \in [Tasks -> Task]
  BY DEF TypeOK
<1>6. \A u \in Tasks : u # t => task'[u] = task[u]
  BY <1>2, <1>5 DEF Ends, Moves
<1>7. \/ task'[t] = IdleTask
      \/ /\ JobStep(t) /\ task'[t].id = task[t].id
         /\ task'[t].pc \in Waits \ {"begin", "stop"}
  BY <1>2, <1>5 DEF Ends, Moves
<1> QED BY <1>1, <1>3, <1>4, <1>6, <1>7

\* Only the end of a DELETE takes a row away.
LEMMA RowsStay ==
  ASSUME TypeOK, PortInv, [Next]_vars, NEW d \in DeployIds, Exists(d),
         \A t \in Tasks : ~(DestroyEnd(t) /\ task[t].id = d)
  PROVE  Exists(d)'
<1>1. rows \in [DeployIds -> Row]
  BY DEF TypeOK
<1>2. ASSUME NEW e \in DeployIds, NEW row, row.status # "absent", upsert(e, row)
      PROVE  Exists(d)'
  BY <1>1, <1>2 DEF upsert, Exists
<1>3. CASE UNCHANGED rows
  BY <1>3 DEF Exists
<1>4. \A e \in DeployIds, status \in Statuses :
        With(rows[e], status).status # "absent" /\ With(todo[e], status).status # "absent"
  BY StatusKeepsPort DEF TypeOK
<1>5. CASE UserStep
  BY <1>2, <1>4, <1>5 DEF UserStep, create_deploy, redeploy, destroy_deploy, Statuses
<1>6. ASSUME NEW t \in Tasks, DestroyEnd(t) PROVE Exists(d)'
  BY <1>1, <1>6 DEF DestroyEnd, delete, Exists
<1>7. ASSUME NEW t \in Tasks, JobStep(t) PROVE Exists(d)'
  <2> DEFINE e == task[t].id
  <2>1. e \in DeployIds
    BY <1>7, SlotGoes
  <2>2. CASE JobBegin(t) \/ JobChecked(t) \/ JobStartLost(t)
    BY <1>2, <1>3, <1>4, <2>1, <2>2 DEF JobBegin, JobChecked, JobStartLost, Statuses
  <2>3. CASE JobWrite(t)
    BY <1>2, <2>1, <2>3 DEF JobWrite, PortInv, SavesRows, At
  <2> QED BY <1>3, <1>7, <2>2, <2>3
          DEF JobStep, JobPreflight, JobPreflightLost, JobStart, JobStarted, JobHealthy,
              JobGivesUp, JobEndpoint, JobEndpointLost, JobRaises
<1>8. CASE ScanBegin \/ ScanStep \/ CentralRestart \/ StartupDone
  BY <1>2, <1>3, <1>4, <1>8
     DEF ScanBegin, ScanStep, ScanAnswered, ScanUnanswered, ScanRaises, ScanWrite, CentralRestart,
         StartupDone, Statuses
<1>9. CASE (AgentStep /\ UNCHANGED centralVars) \/ UNCHANGED vars
  BY <1>3, <1>9 DEF centralVars, vars
<1> QED BY <1>5, <1>6, <1>7, <1>8, <1>9 DEF Next

\* A stop that is under way was sent by a DELETE, or was under way before.
StopsStay == \A s \in stopping' : \E r \in stopping : r.id = s.id /\ r.by = s.by

LEMMA AgentStops ==
  ASSUME TypeOK, AgentStep
  PROVE  StopsStay
BY DEF AgentStep, Launch, LaunchFails, stop_kill, stop_forget, stop_lost, ModelDies, Spawns,
       AgentRestart, StopsStay, TypeOK, AgentTypeOK

\* The user starts a task of a deploy that has no other.
Started(t, d) ==
  /\ \A u \in Tasks : ~Idle(u) => task[u].id # d
  /\ \A s \in stopping : s.id # d
  /\ \A u \in Tasks : u # t => task'[u] = task[u]
  /\ task'[t].id = d /\ task'[t].obj = Absent
  /\ \/ task'[t].pc = "begin" /\ UNCHANGED <<agentVars>>
     \/ /\ task'[t].pc = "stop"
        /\ stopping' = stopping \cup {[id |-> d, by |-> t, next |-> "kill"]}
        /\ UNCHANGED <<running, stray, zombies, launching, specs>>
  /\ Exists(d)' /\ d \in used' /\ used \subseteq used'
  /\ \A e \in DeployIds : e # d => rows'[e] = rows[e]
  /\ UNCHANGED <<todo, hit>>

LEMMA UserStarts ==
  ASSUME ~Overlap, TypeOK, PortInv, AloneInv, NEW t \in Tasks, NEW d \in DeployIds,
         create_deploy(t, d) \/ redeploy(t, d) \/ destroy_deploy(t, d)
  PROVE  Idle(t) /\ Started(t, d)
<1>1. Idle(t) /\ UNCHANGED <<todo, hit>>
  BY DEF create_deploy, redeploy, destroy_deploy, scanVars
<1>2. (\A u \in Tasks : ~Idle(u) => task[u].id # d) /\ \A s \in stopping : s.id # d
  <2>1. CASE create_deploy(t, d)
    BY <2>1 DEF create_deploy, PortInv, UnusedUnknown, AloneInv
  <2>2. CASE redeploy(t, d) \/ destroy_deploy(t, d)
    BY <2>2 DEF redeploy, destroy_deploy, MayAct, OnTask
  <2> QED BY <2>1, <2>2
<1>3. \E pc \in {"begin", "stop"} :
        /\ Starts(t, d, pc)
        /\ \/ pc = "begin" /\ UNCHANGED <<agentVars>>
           \/ /\ pc = "stop"
              /\ stopping' = stopping \cup {[id |-> d, by |-> t, next |-> "kill"]}
              /\ UNCHANGED <<running, stray, zombies, launching, specs>>
  BY DEF create_deploy, redeploy, destroy_deploy, stop_deploy
<1>4. /\ \A u \in Tasks : u # t => task'[u] = task[u]
      /\ task'[t].id = d /\ task'[t].obj = Absent
      /\ \/ task'[t].pc = "begin" /\ UNCHANGED <<agentVars>>
         \/ /\ task'[t].pc = "stop"
            /\ stopping' = stopping \cup {[id |-> d, by |-> t, next |-> "kill"]}
            /\ UNCHANGED <<running, stray, zombies, launching, specs>>
  BY <1>3 DEF Starts, TypeOK
<1>5. (\A e \in DeployIds : e # d => rows'[e] = rows[e]) /\ used \subseteq used'
  BY DEF create_deploy, redeploy, destroy_deploy, upsert, TypeOK
<1>6. d \in used'
  BY DEF create_deploy, redeploy, destroy_deploy, owned_deploy, PortInv, UnusedUnknown
<1>7. Exists(d)'
  <2>1. CASE create_deploy(t, d)
    <3> DEFINE port == first_free(taken_ports({}))
               row == [status |-> "pending", gen |-> 1, port |-> port, endpoint |-> NoPort]
    <3>1. port \in PortRange \ taken_ports({})
      BY <2>1, FirstFree DEF create_deploy
    <3>2. \A e \in DeployIds : Exists(e) => rows[e].port # port
      BY <3>1 DEF taken_ports, deploy_port, in_range
    <3>3. row.port = port /\ row.status = "pending"
      OBVIOUS
    <3> HIDE DEF port
    <3>4. ~Conflicts(d, row)
      BY <3>2, <3>3 DEF Conflicts
    <3>5. rows' = [rows EXCEPT ![d] = row]
      BY <2>1, <3>4 DEF create_deploy, upsert, port
    <3> QED BY <3>3, <3>5 DEF TypeOK, Exists
  <2>2. CASE redeploy(t, d) \/ destroy_deploy(t, d)
    <3>1. Exists(d) /\ \A u \in Tasks : ~(DestroyEnd(u) /\ task[u].id = d)
      BY <1>2, <2>2 DEF redeploy, destroy_deploy, owned_deploy, DestroyEnd, At, Idle
    <3>2. Next
      BY DEF Next, UserStep
    <3> QED BY <3>1, <3>2, RowsStay
  <2> QED BY <2>1, <2>2
<1> QED BY <1>1, <1>2, <1>4, <1>5, <1>6, <1>7 DEF Started

LEMMA AloneInit == Init => AloneInv
BY DEF Init, AloneInv, Idle, IdleTask

LEMMA AloneStep == ~Overlap /\ TypeOK /\ PortInv /\ AloneInv /\ [Next]_vars => AloneInv'
<1> SUFFICES ASSUME ~Overlap, TypeOK, PortInv, AloneInv, [Next]_vars PROVE AloneInv'
  OBVIOUS
<1>1. ASSUME NEW t \in Tasks, NEW d \in DeployIds,
             create_deploy(t, d) \/ redeploy(t, d) \/ destroy_deploy(t, d)
      PROVE  AloneInv'
  <2>1. Idle(t) /\ Started(t, d)
    BY <1>1, UserStarts
  <2>2. \A u \in Tasks : ~Idle(u) => task[u].id \in DeployIds
    BY BusyTask
  <2>3. \A u \in Tasks : u # t => (~Idle(u)' <=> ~Idle(u)) /\ (At(u, "stop")' <=> At(u, "stop"))
                                 /\ task'[u].id = task[u].id
    BY <2>1 DEF Started, Idle, At
  <2>4. \A u \in Tasks : u # t /\ ~Idle(u) => task[u].id # d
    BY <2>1 DEF Started
  <2>5. ASSUME NEW u \in Tasks, NEW v \in Tasks, ~Idle(u)', task'[u].id = task'[v].id
        PROVE  u = v
    <3>1. task'[t].id = d
      BY <2>1 DEF Started
    <3>2. v # t /\ Idle(v) => task[v].id # d
      BY LifecycleAssumption DEF TypeOK, Task, Idle, IdleTask, Waits
    <3> QED BY <2>3, <2>4, <2>5, <3>1, <3>2 DEF AloneInv
  <2>6. ASSUME NEW u \in Tasks, ~Idle(u)' PROVE rows'[task'[u].id].status # "absent"
    BY <2>1, <2>2, <2>3, <2>4, <2>6 DEF AloneInv, Started, Exists
  <2>7. ASSUME NEW u \in Tasks, NEW s \in stopping', ~Idle(u)', s.id = task'[u].id
        PROVE  At(u, "stop")'
    <3>1. CASE u = t
      BY <2>1, <2>7, <3>1 DEF Started, At, agentVars
    <3>2. CASE u # t
      BY <2>1, <2>3, <2>4, <2>7, <3>2 DEF AloneInv, Started, agentVars
    <3> QED BY <3>1, <3>2
  <2>8. \A s \in stopping' : s.id \in used'
    BY <2>1 DEF AloneInv, Started, agentVars
  <2> QED BY <2>5, <2>6, <2>7, <2>8 DEF AloneInv, Exists
<1>2. ASSUME NEW t \in Tasks, JobStep(t) \/ DestroyEnd(t) PROVE AloneInv'
  <2>1. /\ ~Idle(t) /\ \A u \in Tasks : u # t => task'[u] = task[u]
        /\ task'[t] = IdleTask \/ (/\ JobStep(t) /\ task'[t].id = task[t].id
                                   /\ task'[t].pc \in Waits \ {"begin", "stop"})
        /\ JobStep(t) => ~At(t, "stop")
        /\ UNCHANGED <<used, stopping>>
    BY <1>2, SlotGoes
  <2>2. \A u \in Tasks : ~Idle(u)' => ~Idle(u) /\ task'[u].id = task[u].id
    BY <2>1 DEF Idle, IdleTask
  <2>3. ASSUME NEW u \in Tasks, ~Idle(u)' PROVE rows'[task'[u].id].status # "absent"
    <3>1. PICK d \in DeployIds : d = task[u].id /\ Exists(d)
      BY <2>2, <2>3, BusyTask DEF AloneInv
    <3>2. \A v \in Tasks : ~(DestroyEnd(v) /\ task[v].id = d)
      <4> SUFFICES ASSUME NEW v \in Tasks, DestroyEnd(v), task[v].id = d
                   PROVE  FALSE
        OBVIOUS
      <4>1. v = u
        BY <2>2, <2>3, <3>1 DEF AloneInv
      <4>2. task'[v] = IdleTask
        BY DEF DestroyEnd, Ends, TypeOK
      <4> QED BY <2>3, <4>1, <4>2 DEF Idle, IdleTask
    <3>3. Exists(d)'
      BY <3>1, <3>2, RowsStay
    <3> QED BY <2>2, <2>3, <3>1, <3>3 DEF Exists
  <2>4. ASSUME NEW u \in Tasks, NEW s \in stopping', ~Idle(u)', s.id = task'[u].id
        PROVE  At(u, "stop")'
    <3>1. ~Idle(u) /\ s \in stopping /\ s.id = task[u].id
      BY <2>1, <2>2, <2>4
    <3>2. At(u, "stop")
      BY <3>1 DEF AloneInv
    <3>3. u # t
      BY <1>2, <2>1, <2>4, <3>2 DEF Idle, IdleTask
    <3> QED BY <2>1, <3>2, <3>3 DEF At
  <2>5. \A u, v \in Tasks : ~Idle(u)' /\ task'[u].id = task'[v].id => u = v
    <3> SUFFICES ASSUME NEW u \in Tasks, NEW v \in Tasks, ~Idle(u)', task'[u].id = task'[v].id
                 PROVE  u = v
      OBVIOUS
    <3>1. ~Idle(u) /\ task'[u].id = task[u].id /\ task[u].id \in DeployIds
      BY <2>2, BusyTask
    <3>2. task'[v] # IdleTask
      <4>1. IdleTask.id \notin DeployIds
        BY LifecycleAssumption DEF IdleTask
      <4>2. task'[v].id \in DeployIds
        BY <3>1
      <4> QED BY <4>1, <4>2
    <3>3. task'[v].id = task[v].id
      BY <2>1, <3>2
    <3> QED BY <3>1, <3>3 DEF AloneInv
  <2>6. \A s \in stopping' : s.id \in used'
    BY <2>1 DEF AloneInv
  <2> QED BY <2>3, <2>4, <2>5, <2>6 DEF AloneInv, Exists
<1>3. ASSUME UNCHANGED <<task, used>>, StopsStay, \A t \in Tasks : ~DestroyEnd(t)
      PROVE  AloneInv'
  <2>1. ASSUME NEW t \in Tasks, ~Idle(t) PROVE Exists(task[t].id)'
    <3>1. task[t].id \in DeployIds /\ Exists(task[t].id)
      BY <2>1, BusyTask DEF AloneInv
    <3> QED BY <1>3, <3>1, RowsStay
  <2> QED BY <1>3, <2>1 DEF AloneInv, StopsStay, Idle, At
<1>4. CASE ScanBegin \/ ScanStep \/ StartupDone \/ UNCHANGED vars
  <2>1. UNCHANGED <<task, used, stopping>>
    BY <1>4 DEF ScanBegin, ScanStep, ScanAnswered, ScanUnanswered, ScanRaises, ScanWrite, StartupDone,
                agentVars, Spawns, vars, centralVars
  <2>2. \A t \in Tasks : ~DestroyEnd(t)
    <3> SUFFICES ASSUME NEW t \in Tasks, DestroyEnd(t) PROVE FALSE
      OBVIOUS
    <3>1. task'[t] = IdleTask /\ ~Idle(t)
      BY DEF DestroyEnd, Ends, At, Idle, TypeOK
    <3> QED BY <2>1, <3>1 DEF Idle, IdleTask
  <2> QED BY <1>3, <2>1, <2>2 DEF StopsStay
<1>5. CASE CentralRestart
  <2>1. \A t \in Tasks : Idle(t)'
    BY <1>5 DEF CentralRestart, Idle, IdleTask
  <2>2. UNCHANGED used /\ stopping' \subseteq stopping
    BY <1>5 DEF CentralRestart
  <2> QED BY <2>1, <2>2 DEF AloneInv
<1>6. CASE AgentStep /\ UNCHANGED centralVars
  <2>1. UNCHANGED <<task, used>> /\ StopsStay
    BY <1>6, AgentStops DEF centralVars
  <2>2. \A t \in Tasks : ~DestroyEnd(t)
    <3> SUFFICES ASSUME NEW t \in Tasks, DestroyEnd(t) PROVE FALSE
      OBVIOUS
    <3>1. task'[t] = IdleTask /\ ~Idle(t)
      BY DEF DestroyEnd, Ends, At, Idle, TypeOK
    <3> QED BY <2>1, <3>1 DEF Idle, IdleTask
  <2> QED BY <1>3, <2>1, <2>2
<1> QED BY <1>1, <1>2, <1>4, <1>5, <1>6 DEF Next, UserStep

(***************************************************************************)
(* Endpoints                                                               *)
(***************************************************************************)

\* While a job waits for its model, the agent remembers the port of the row.
EndInv ==
  /\ EndpointIsOwn
  /\ \A t \in Tasks :
       task[t].pc \in {"started", "wait", "endpoint"} /\ task[t].id \notin Legacy
         => specs[task[t].id].port = rows[task[t].id].port

OwnEnd(x) == x.endpoint \in {NoPort, x.port}

LEMMA CopyIs ==
  ASSUME TypeOK, PortInv, EndpointIsOwn, NEW d \in DeployIds \ Legacy, NEW x \in Copies(d)
  PROVE  /\ x \in Row /\ OwnEnd(x) /\ x.port \in PortRange
         /\ Exists(d) => x.port = rows[d].port
<1>1. x \in Row
  BY DEF Copies, TypeOK, Task, IdleTask, Absent, Row, NoPort
<1>2. OwnEnd(x) /\ x.port \in PortRange /\ (Exists(d) => x.port = rows[d].port)
  BY InCopies DEF EndpointIsOwn, OwnEnd, PortInv, CopiesAgree
<1> QED BY <1>1, <1>2

LEMMA WithKeeps ==
  ASSUME NEW x \in Row, NEW status \in Statuses
  PROVE  OwnEnd(x) => OwnEnd(With(x, status))
BY DEF OwnEnd, With, Row

LEMMA RowPortStays ==
  ASSUME TypeOK, PortInv, [Next]_vars, NEW d \in DeployIds \ Legacy, Exists(d), Exists(d)'
  PROVE  rows'[d].port = rows[d].port
<1>1. RowStep /\ rows[d] \in Copies(d) /\ rows \in [DeployIds -> Row]
  BY StepsSaveFittingRows, InCopies DEF TypeOK
<1>2. CASE UNCHANGED rows
  BY <1>2
<1>3. ASSUME NEW e \in DeployIds, delete(e) PROVE rows'[d].port = rows[d].port
  BY <1>1, <1>3 DEF delete, Exists, Absent
<1>4. ASSUME NEW e \in DeployIds, NEW row \in Row, Fits(e, row), upsert(e, row)
      PROVE  rows'[d].port = rows[d].port
  <2>1. e # d => rows'[d] = rows[d]
    BY <1>1, <1>4 DEF upsert
  <2>2. e = d => rows'[d] \in {rows[d], row}
    BY <1>1, <1>4 DEF upsert
  <2>3. e = d => row.port = rows[d].port
    BY <1>1, <1>4 DEF Fits, PortInv, CopiesAgree
  <2> QED BY <2>1, <2>2, <2>3
<1> QED BY <1>1, <1>2, <1>3, <1>4 DEF RowStep

\* The rows that are saved point at their own port.
LEMMA EndRows ==
  ASSUME TypeOK, PortInv, EndInv, [Next]_vars, NEW d \in DeployIds \ Legacy, Exists(d)'
  PROVE  OwnEnd(rows'[d])
<1>1. rows \in [DeployIds -> Row] /\ todo \in [DeployIds -> Row]
  BY DEF TypeOK
<1>2. \A x \in Copies(d) : OwnEnd(x) /\ \A status \in Statuses : OwnEnd(With(x, status))
  BY CopyIs, WithKeeps DEF EndInv
<1>3. CASE rows'[d] = rows[d]
  BY <1>2, <1>3, InCopies DEF Exists
<1>4. ASSUME NEW row, OwnEnd(row), upsert(d, row) PROVE OwnEnd(rows'[d])
  BY <1>1, <1>3, <1>4 DEF upsert
<1>5. ASSUME Exists(d), NEW status \in Statuses, upsert(d, With(rows[d], status))
      PROVE  OwnEnd(rows'[d])
  BY <1>2, <1>4, <1>5, InCopies
<1>6. ASSUME NEW e \in DeployIds, NEW row, e # d, upsert(e, row) \/ delete(e)
      PROVE  OwnEnd(rows'[d])
  BY <1>1, <1>3, <1>6 DEF upsert, delete
<1>7. ASSUME NEW t \in Tasks, NEW e \in DeployIds,
             create_deploy(t, e) \/ redeploy(t, e) \/ destroy_deploy(t, e)
      PROVE  OwnEnd(rows'[d])
  <2>1. CASE e # d
    BY <1>6, <1>7, <2>1 DEF create_deploy, redeploy, destroy_deploy
  <2>2. CASE e = d /\ create_deploy(t, d)
    <3> DEFINE row == [status |-> "pending", gen |-> 1,
                       port |-> first_free(taken_ports({})), endpoint |-> NoPort]
    <3>1. OwnEnd(row) /\ upsert(d, row)
      BY <2>2 DEF create_deploy, OwnEnd
    <3> QED BY <1>4, <3>1
  <2>3. CASE e = d /\ redeploy(t, d)
    <3> DEFINE row == [status |-> "redeploying", gen |-> edits + 1,
                       port |-> PortFor(d), endpoint |-> rows[d].endpoint]
    <3>1. rows[d] \in Copies(d)
      BY <2>3, InCopies DEF redeploy, owned_deploy
    <3>2. rows[d].port \in PortRange /\ OwnEnd(rows[d])
      BY <3>1, CopyIs DEF EndInv
    <3>3. PortFor(d) = rows[d].port
      BY <3>2 DEF PortFor, in_range
    <3>4. OwnEnd(row) /\ upsert(d, row)
      BY <2>3, <3>2, <3>3 DEF redeploy, OwnEnd
    <3> QED BY <1>4, <3>4
  <2>4. CASE e = d /\ destroy_deploy(t, d)
    BY <1>5, <2>4 DEF destroy_deploy, owned_deploy, Statuses
  <2> QED BY <1>7, <2>1, <2>2, <2>3, <2>4
<1>8. ASSUME NEW t \in Tasks, DestroyEnd(t) \/ JobStep(t) PROVE OwnEnd(rows'[d])
  <2>1. CASE task[t].id # d
    BY <1>3, <1>8, <2>1, SlotGoes
  <2>2. CASE task[t].id = d /\ DestroyEnd(t)
    BY <1>1, <1>3, <2>2 DEF DestroyEnd, delete, Exists, Absent
  <2>3. CASE task[t].id = d /\ (JobBegin(t) \/ JobChecked(t) \/ JobStartLost(t))
    <3>1. \/ UNCHANGED rows
          \/ Exists(d) /\ \E status \in Statuses : upsert(d, With(rows[d], status))
      BY <2>3 DEF JobBegin, JobChecked, JobStartLost, Statuses
    <3> QED BY <1>3, <1>5, <3>1
  <2>4. CASE task[t].id = d /\ JobWrite(t)
    <3>1. task[t].obj \in Copies(d) /\ upsert(d, task[t].obj)
      BY <2>4, InCopies DEF JobWrite, PortInv, SavesRows, At
    <3> QED BY <1>2, <1>4, <3>1 DEF Statuses
  <2>5. CASE UNCHANGED rows
    BY <1>3, <2>5
  <2> QED BY <1>8, <2>1, <2>2, <2>3, <2>4, <2>5
          DEF JobStep, JobPreflight, JobPreflightLost, JobStart, JobStarted, JobHealthy,
              JobGivesUp, JobEndpoint, JobEndpointLost, JobRaises
<1>9. ASSUME NEW e \in DeployIds, ScanWrite(e) PROVE OwnEnd(rows'[d])
  <2>1. CASE e # d
    BY <1>6, <1>9, <2>1 DEF ScanWrite
  <2>2. CASE e = d
    <3>1. todo[d] \in Copies(d) /\ upsert(d, With(todo[d], "failed"))
      BY <1>9, <2>2, InCopies DEF ScanWrite, PortInv, SavesRows
    <3> QED BY <1>2, <1>4, <3>1 DEF Statuses
  <2> QED BY <2>1, <2>2
<1>10. ASSUME UNCHANGED rows PROVE OwnEnd(rows'[d])
  BY <1>3, <1>10
<1>11. CASE ScanBegin \/ CentralRestart \/ StartupDone \/ UNCHANGED vars
            \/ (AgentStep /\ UNCHANGED centralVars)
            \/ \E e \in DeployIds : ScanAnswered(e) \/ ScanUnanswered(e) \/ ScanRaises(e)
  BY <1>10, <1>11
     DEF ScanBegin, CentralRestart, StartupDone, vars, centralVars, ScanAnswered, ScanUnanswered,
         ScanRaises
<1> QED BY <1>7, <1>8, <1>9, <1>11 DEF Next, UserStep, ScanStep

\* So do the objects the jobs carry.
LEMMA EndTasks ==
  ASSUME TypeOK, PortInv, AloneInv, EndInv, NEW t \in Tasks, JobStep(t),
         task[t].id \notin Legacy, task'[t].obj.status # "absent"
  PROVE  OwnEnd(task'[t].obj)
<1> DEFINE d == task[t].id
           obj == task[t].obj
<1>1. d \in DeployIds \ Legacy /\ Exists(d) /\ task \in [Tasks -> Task]
  BY SlotGoes DEF AloneInv, TypeOK
<1>2. \A x \in Copies(d) : /\ x \in Row /\ OwnEnd(x) /\ x.port = rows[d].port
                           /\ \A status \in Statuses : OwnEnd(With(x, status))
  BY <1>1, CopyIs, WithKeeps DEF EndInv
<1>3. rows[d] \in Copies(d)
  BY <1>1, InCopies
<1>4. ASSUME NEW pc, NEW x, Moves(t, pc, x) PROVE task'[t].obj = x
  BY <1>1, <1>4 DEF Moves
<1>5. ASSUME Ends(t) PROVE FALSE
  BY <1>1, <1>5 DEF Ends, IdleTask, Absent
<1>6. CASE JobBegin(t) \/ JobChecked(t) \/ JobStarted(t)
  <2>1. \E pc : \/ Moves(t, pc, rows[d])
               \/ \E status \in Statuses : Moves(t, pc, With(rows[d], status))
    BY <1>5, <1>6 DEF JobBegin, JobChecked, JobStarted, Statuses
  <2> QED BY <1>2, <1>3, <1>4, <2>1
<1>7. CASE JobPreflight(t) \/ JobPreflightLost(t) \/ JobStart(t)
  BY <1>4, <1>7 DEF JobPreflight, JobPreflightLost, JobStart, Absent
<1>8. CASE JobStartLost(t) \/ JobWrite(t) \/ JobRaises(t)
  BY <1>5, <1>8 DEF JobStartLost, JobWrite, JobRaises
<1>9. CASE JobHealthy(t) \/ JobGivesUp(t) \/ JobEndpoint(t) \/ JobEndpointLost(t)
  <2>1. obj \in Copies(d)
    BY <1>1, <1>9, InCopies
       DEF JobHealthy, JobGivesUp, JobEndpoint, JobEndpointLost, At, PortInv, SavesRows
  <2>2. obj \in Row /\ OwnEnd(obj) /\ obj.port = rows[d].port /\ obj.port \in PortRange
    BY <1>1, <1>2, <2>1, CopyIs DEF EndInv
  <2>3. CASE JobHealthy(t) \/ JobGivesUp(t)
    BY <1>2, <1>4, <2>1, <2>3 DEF JobHealthy, JobGivesUp, Statuses
  <2>4. ASSUME JobEndpoint(t) \/ JobEndpointLost(t) PROVE OwnEnd(task'[t].obj)
    <3>1. specs[d].port = obj.port
      BY <1>1, <2>2, <2>4 DEF JobEndpoint, JobEndpointLost, At, EndInv
    <3>2. \A e : Reported(d, e) => e \in {NoPort, obj.port}
      BY <2>2, <3>1 DEF Reported, EndpointOf, deploy_port, in_range
    <3>3. \A e \in {NoPort, obj.port} :
            /\ OwnEnd([obj EXCEPT !.endpoint = e])
            /\ OwnEnd([obj EXCEPT !.endpoint = e, !.status = "failed"])
      BY <2>2 DEF OwnEnd, Row
    <3>4. obj.endpoint \in {NoPort, obj.port}
      BY <2>2 DEF OwnEnd
    <3>5. \E e \in {NoPort, obj.port} :
            \/ Moves(t, "write", [obj EXCEPT !.endpoint = e])
            \/ Moves(t, "write", [obj EXCEPT !.endpoint = e, !.status = "failed"])
      BY <2>4, <3>2, <3>4 DEF JobEndpoint, JobEndpointLost
    <3> QED BY <1>4, <3>3, <3>5
  <2> QED BY <1>9, <2>3, <2>4
<1> QED BY <1>6, <1>7, <1>8, <1>9 DEF JobStep

LEMMA EndInit == Init => EndInv
<1> SUFFICES ASSUME Init PROVE EndInv
  OBVIOUS
<1>1. ASSUME NEW d \in DeployIds \ Legacy PROVE Copies(d) = {}
  <2>1. rows[d] = Absent /\ todo[d] = Absent
    BY DEF Init
  <2>2. \A t \in Tasks : task[t].id # d
    BY LifecycleAssumption DEF Init, IdleTask
  <2> QED BY <2>1, <2>2 DEF Copies, Absent
<1>2. \A t \in Tasks : task[t].pc = "idle"
  BY DEF Init, IdleTask
<1> QED BY <1>1, <1>2 DEF EndInv, EndpointIsOwn

\* The specs of the agents change when a job starts its deploy, and when a stop
\* is carried out.
LEMMA SpecsStay ==
  ASSUME TypeOK, [Next]_vars, NEW d \in DeployIds,
         \A t \in Tasks : ~(JobStart(t) /\ task[t].id = d),
         \A s \in stopping : s.id # d
  PROVE  specs'[d] = specs[d]
<1>1. specs \in [DeployIds -> DeploySpec]
  BY DEF TypeOK, AgentTypeOK
<1>2. CASE UserStep
  BY <1>2 DEF UserStep, create_deploy, redeploy, destroy_deploy, stop_deploy, agentVars
<1>3. ASSUME NEW t \in Tasks, JobStep(t) \/ DestroyEnd(t) PROVE specs'[d] = specs[d]
  <2>1. CASE JobStart(t)
    BY <1>1, <2>1 DEF JobStart, start_deploy
  <2> QED BY <1>3, <2>1
          DEF JobStep, JobBegin, JobPreflight, JobPreflightLost, JobChecked, JobStarted,
              JobStartLost, JobHealthy, JobGivesUp, JobEndpoint, JobEndpointLost, JobRaises, JobWrite,
              DestroyEnd, agentVars, Spawns
<1>4. CASE ScanBegin \/ ScanStep \/ CentralRestart \/ StartupDone \/ UNCHANGED vars
  BY <1>4 DEF ScanBegin, ScanStep, ScanAnswered, ScanUnanswered, ScanRaises, ScanWrite, CentralRestart,
              StartupDone, Spawns, agentVars, vars
<1>5. CASE AgentStep
  BY <1>1, <1>5 DEF AgentStep, Launch, LaunchFails, stop_kill, stop_forget, stop_lost,
                    ModelDies, Spawns, AgentRestart
<1> QED BY <1>2, <1>3, <1>4, <1>5 DEF Next

LEMMA EndStep ==
  ~Overlap /\ TypeOK /\ PortInv /\ AloneInv /\ AloneInv' /\ EndInv /\ [Next]_vars => EndInv'
<1> SUFFICES ASSUME ~Overlap, TypeOK, PortInv, AloneInv, AloneInv', EndInv, [Next]_vars
             PROVE  EndInv'
  OBVIOUS
<1>1. /\ task \in [Tasks -> Task] /\ TodoCarries
      /\ \A u \in Tasks : ~Idle(u) => task[u].id \in DeployIds
  BY StepsCarryTodo, BusyTask DEF TypeOK
\* A slot that is not that of a job going on holds what it held, or nothing.
<1>2. ASSUME NEW u \in Tasks
      PROVE  \/ JobStep(u)
             \/ task'[u] = task[u]
             \/ task'[u].obj = Absent /\ task'[u].pc \in {"idle", "begin", "stop"}
  <2>1. ASSUME NEW t \in Tasks, NEW d \in DeployIds,
               create_deploy(t, d) \/ redeploy(t, d) \/ destroy_deploy(t, d)
        PROVE  \/ task'[u] = task[u]
               \/ task'[u].obj = Absent /\ task'[u].pc \in {"idle", "begin", "stop"}
    BY <2>1, UserStarts DEF Started
  <2>2. ASSUME NEW t \in Tasks, JobStep(t) \/ DestroyEnd(t), ~JobStep(u)
        PROVE  task'[u] = task[u] \/ task'[u] = IdleTask
    BY <2>2, SlotGoes
  <2>3. CASE ScanBegin \/ ScanStep \/ StartupDone \/ (AgentStep /\ UNCHANGED centralVars)
             \/ UNCHANGED vars
    BY <2>3 DEF ScanBegin, ScanStep, ScanAnswered, ScanUnanswered, ScanRaises, ScanWrite, StartupDone,
                centralVars, vars
  <2>4. CASE CentralRestart
    BY <2>4 DEF CentralRestart, IdleTask
  <2>5. IdleTask.obj = Absent /\ IdleTask.pc = "idle"
    BY DEF IdleTask
  <2> QED BY <2>1, <2>2, <2>3, <2>4, <2>5 DEF Next, UserStep
<1>3. ASSUME NEW d \in DeployIds \ Legacy, NEW x \in Copies(d)'
      PROVE  OwnEnd(x)
  <2>1. x.status # "absent"
    BY DEF Copies
  <2>2. CASE x = rows'[d]
    BY <2>1, <2>2, EndRows DEF Exists
  <2>3. CASE x = todo'[d]
    <3>1. x \in Copies(d)
      BY <1>1, <2>1, <2>3, InCopies DEF TodoCarries, Exists, Unvisited
    <3> QED BY <3>1, CopyIs DEF EndInv
  <2>4. ASSUME NEW t \in Tasks, task'[t].id = d, x = task'[t].obj PROVE OwnEnd(x)
    <3>1. CASE task'[t] = task[t]
      BY <2>1, <2>4, <3>1, InCopies, CopyIs DEF EndInv
    <3>2. CASE JobStep(t)
      <4>1. task[t].id = d
        BY <2>1, <2>4, <3>2, SlotGoes DEF IdleTask, Absent
      <4> QED BY <2>1, <2>4, <3>2, <4>1, EndTasks
    <3>3. CASE task'[t].obj = Absent
      BY <2>1, <2>4, <3>3 DEF Absent
    <3> QED BY <1>2, <3>1, <3>2, <3>3
  <2> QED BY <2>2, <2>3, <2>4 DEF Copies
<1>4. ASSUME NEW t \in Tasks, NEW d, d = task'[t].id, d \notin Legacy,
             task'[t].pc \in {"started", "wait", "endpoint"}
      PROVE  specs'[d].port = rows'[d].port
  <2>1. ~Idle(t) /\ task[t].id = d
    BY <1>2, <1>4, SlotGoes DEF Idle, IdleTask
  <2>2. d \in DeployIds \ Legacy /\ Exists(d)
    BY <1>1, <1>4, <2>1 DEF AloneInv
  <2>3. Exists(d)'
    BY <1>4 DEF AloneInv, Idle, Exists
  <2>4. rows'[d].port = rows[d].port
    BY <2>2, <2>3, RowPortStays
  <2>5. ~At(t, "stop")
    BY <1>2, <1>4, SlotGoes DEF At
  <2>6. \A s \in stopping : s.id # d
    BY <2>1, <2>5 DEF AloneInv
  <2>7. CASE JobStart(t)
    <3>1. task[t].obj \in Copies(d)
      BY <2>1, <2>2, <2>7, InCopies DEF JobStart, At, PortInv, SavesRows
    <3>2. task[t].obj.port = rows[d].port
      BY <2>2, <3>1, CopyIs DEF EndInv
    <3>3. specs'[d].port = task[t].obj.port
      BY <2>1, <2>2, <2>7 DEF JobStart, start_deploy, SpecOf, TypeOK, AgentTypeOK
    <3> QED BY <2>4, <3>2, <3>3
  <2>8. CASE ~JobStart(t)
    <3>1. \A u \in Tasks : ~(JobStart(u) /\ task[u].id = d)
      BY <2>1, <2>8 DEF AloneInv
    <3>2. specs'[d] = specs[d]
      BY <2>2, <2>6, <3>1, SpecsStay
    <3>3. task[t].pc \in {"started", "wait", "endpoint"}
      <4>1. CASE task'[t] = task[t]
        BY <1>4, <4>1
      <4>2. CASE JobStarted(t) \/ JobHealthy(t)
        BY <4>2 DEF JobStarted, JobHealthy, At
      <4>3. CASE Ends(t) \/ \E pc, obj : Moves(t, pc, obj) /\ pc \notin {"started", "wait", "endpoint"}
        BY <1>1, <1>4, <4>3 DEF Ends, Moves, IdleTask
      <4>4. CASE JobStep(t)
        <5>1. CASE JobEndpoint(t) \/ JobEndpointLost(t)
          BY <5>1 DEF JobEndpoint, JobEndpointLost, At
        <5> QED BY <2>8, <4>2, <4>3, <4>4, <5>1
                DEF JobStep, JobBegin, JobPreflight, JobPreflightLost, JobChecked,
                    JobStartLost, JobGivesUp, JobRaises, JobWrite
      <4> QED BY <1>2, <1>4, <4>1, <4>4
    <3>4. specs[d].port = rows[d].port
      BY <1>4, <2>1, <3>3 DEF EndInv
    <3> QED BY <2>4, <3>2, <3>4
  <2> QED BY <2>7, <2>8
<1> QED BY <1>3, <1>4 DEF EndInv, EndpointIsOwn, OwnEnd

\* Chats of a deploy go to its own port, and to no other: for a user who lets
\* every operation settle, the agent has not forgotten the spec while a job
\* asks it for the address, whatever calls fail and whoever restarts
\* (app._deploy_job, agent.deploy_stop).
THEOREM EndpointsAreOwn == ASSUME ~Overlap PROVE Spec => []EndpointIsOwn
<1>1. TypeOK /\ PortInv /\ AloneInv /\ EndInv /\ [Next]_vars => (AloneInv /\ EndInv)'
  BY AloneStep, EndStep
<1>2. EndInv => EndpointIsOwn
  BY DEF EndInv
<1> QED BY <1>1, <1>2, AloneInit, EndInit, TypeCorrect, PortInvariant, PTL DEF Spec

(***************************************************************************)
(* No leak                                                                 *)
(***************************************************************************)

LaunchesOf(d) == {l \in launching : l.id = d}
StopsOf(d) == {s \in stopping : s.id = d}
StraysOf(d) == {s \in stray : s.id = d}
KillOf(d, t) == [id |-> d, by |-> t, next |-> "kill"]
Launched == {"started", "wait", "endpoint", "write"}

\* NoLeak is not inductive: it takes that what may still start a model has its
\* row, and that a start finds no model of the deploy to orphan.  Where a DELETE
\* waits for the agent, the stop is still to come or the model is gone.
LeakOf(d) ==
  /\ LaunchesOf(d) # {} \/ StopsOf(d) # {} \/ IsRunning(d) => Exists(d)
  /\ LaunchesOf(d) # {} => StopsOf(d) = {}
  /\ \A l, m \in LaunchesOf(d) : l = m
  /\ d \notin Legacy =>
       /\ StraysOf(d) = {}
       /\ \A l \in LaunchesOf(d) : ~IsRunning(d) /\ l.spec.port = rows[d].port
       /\ IsRunning(d) => running[d].port = rows[d].port
  /\ \A t \in Tasks : task[t].id = d =>
       /\ LaunchesOf(d) # {} => task[t].pc \in Launched
       /\ d \notin Legacy /\ task[t].pc \in {"passed", "start"} => ~IsRunning(d)
       /\ At(t, "stop") =>
            /\ \A s \in StopsOf(d) : s.by = t
            /\ KillOf(d, t) \in stopping \/ ~IsRunning(d)
LeakInv == \A d \in DeployIds : LeakOf(d)

\* A task may move like this whatever runs.
Onward(p, q) ==
  \/ q = p
  \/ q \in Waits \ {"passed", "start", "stop"} /\ (p \in Launched => q \in Launched)
  \/ p = "passed" /\ q = "start"

\* Nothing of d is started, and what stands for it stays.
Quieter(d) ==
  /\ Exists(d) => Exists(d)'
  /\ running'[d] \in {running[d], NoSpec}
  /\ \A l \in launching' : l.id = d => l \in launching
  /\ \A s \in stray' : s.id = d => s \in stray
  /\ \A s \in stopping' : s.id = d => \E r \in stopping : r.id = d /\ r.by = s.by
  /\ \A t \in Tasks : task'[t].id = d =>
       /\ task[t].id = d /\ Onward(task[t].pc, task'[t].pc)
       /\ task'[t].pc = "stop" /\ KillOf(d, t) \in stopping =>
            KillOf(d, t) \in stopping' \/ running'[d] = NoSpec

LEMMA QuieterIsSafe ==
  ASSUME TypeOK, PortInv, [Next]_vars, NEW d \in DeployIds, LeakOf(d), Quieter(d)
  PROVE  LeakOf(d)'
<1>1. Exists(d) => Exists(d)' /\ (d \notin Legacy => rows'[d].port = rows[d].port)
  BY RowPortStays DEF Quieter
<1>2. /\ LaunchesOf(d)' \subseteq LaunchesOf(d) /\ StraysOf(d)' \subseteq StraysOf(d)
      /\ \A s \in StopsOf(d)' : \E r \in StopsOf(d) : r.by = s.by
      /\ IsRunning(d)' => IsRunning(d) /\ running'[d] = running[d]
  BY DEF Quieter, LaunchesOf, StraysOf, StopsOf, IsRunning
<1>3. (LaunchesOf(d) # {} \/ StopsOf(d) # {} \/ IsRunning(d) => Exists(d))'
  BY <1>1, <1>2 DEF LeakOf
<1>4. (LaunchesOf(d) # {} => StopsOf(d) = {})' /\ (\A l, m \in LaunchesOf(d) : l = m)'
  BY <1>2 DEF LeakOf
<1>5. ASSUME d \notin Legacy
      PROVE  (/\ StraysOf(d) = {}
              /\ \A l \in LaunchesOf(d) : ~IsRunning(d) /\ l.spec.port = rows[d].port
              /\ IsRunning(d) => running[d].port = rows[d].port)'
  BY <1>1, <1>2, <1>5 DEF LeakOf
<1>6. ASSUME NEW t \in Tasks, task'[t].id = d
      PROVE  (/\ LaunchesOf(d) # {} => task[t].pc \in Launched
              /\ d \notin Legacy /\ task[t].pc \in {"passed", "start"} => ~IsRunning(d)
              /\ At(t, "stop") =>
                   /\ \A s \in StopsOf(d) : s.by = t
                   /\ KillOf(d, t) \in stopping \/ ~IsRunning(d))'
  <2>1. task[t].id = d /\ Onward(task[t].pc, task'[t].pc)
    BY <1>6 DEF Quieter
  <2>2. LaunchesOf(d)' # {} => task'[t].pc \in Launched
    BY <1>2, <2>1 DEF LeakOf, Onward, Launched
  <2>3. d \notin Legacy /\ task'[t].pc \in {"passed", "start"} => ~IsRunning(d)'
    BY <1>2, <2>1 DEF LeakOf, Onward
  <2>4. ASSUME task'[t].pc = "stop"
        PROVE  /\ \A s \in StopsOf(d)' : s.by = t
               /\ KillOf(d, t) \in stopping' \/ ~IsRunning(d)'
    <3>1. task[t].pc = "stop"
      BY <2>1, <2>4 DEF Onward
    <3>2. /\ \A s \in StopsOf(d) : s.by = t
          /\ KillOf(d, t) \in stopping \/ ~IsRunning(d)
      BY <2>1, <3>1 DEF LeakOf, At
    <3>3. KillOf(d, t) \in stopping => KillOf(d, t) \in stopping' \/ running'[d] = NoSpec
      BY <1>6, <2>4 DEF Quieter
    <3> QED BY <1>2, <3>2, <3>3 DEF IsRunning
  <2>5. At(t, "stop")' <=> task'[t].pc = "stop"
    BY DEF At
  <2>6. (KillOf(d, t) \in stopping \/ ~IsRunning(d))'
          <=> KillOf(d, t) \in stopping' \/ ~IsRunning(d)'
    BY DEF KillOf
  <2> QED BY <2>2, <2>3, <2>4, <2>5, <2>6
<1> QED BY <1>3, <1>4, <1>5, <1>6 DEF LeakOf

LEMMA LeakInit == Init => LeakInv
<1> SUFFICES ASSUME Init, NEW d \in DeployIds PROVE LeakOf(d)
  BY DEF LeakInv
<1>1. LaunchesOf(d) = {} /\ StopsOf(d) = {} /\ StraysOf(d) = {}
  BY DEF Init, LaunchesOf, StopsOf, StraysOf
<1>2. \A t \in Tasks : task[t].pc = "idle"
  BY DEF Init, IdleTask
<1>3. IsRunning(d) <=> d \in Legacy
  BY DEF Init, IsRunning, NoSpec
<1>4. d \in Legacy => Exists(d)
  BY DEF Init, Exists
<1> QED BY <1>1, <1>2, <1>3, <1>4 DEF LeakOf, At

\* The user starts a task.
LEMMA LeakUser ==
  ASSUME ~Overlap, TypeOK, PortInv, AloneInv, LeakInv, [Next]_vars,
         NEW t \in Tasks, NEW e \in DeployIds,
         create_deploy(t, e) \/ redeploy(t, e) \/ destroy_deploy(t, e),
         NEW d \in DeployIds
  PROVE  LeakOf(d)'
<1>1. Idle(t) /\ Started(t, e) /\ LeakOf(d) /\ LeakOf(e)
  BY UserStarts DEF LeakInv
<1>2. UNCHANGED <<running, stray, launching>>
  BY <1>1 DEF Started, agentVars
<1>3. CASE e # d
  <2>1. Exists(d) => Exists(d)'
    BY <1>1, <1>3 DEF Started, Exists
  <2>2. stopping \subseteq stopping' /\ \A s \in stopping' : s.id = d => s \in stopping
    BY <1>1, <1>3 DEF Started, agentVars
  <2>3. \A u \in Tasks : task'[u].id = d => task'[u] = task[u]
    BY <1>1, <1>3 DEF Started
  <2>4. Quieter(d)
    BY <1>2, <2>1, <2>2, <2>3 DEF Quieter, Onward
  <2> QED BY <1>1, <2>4, QuieterIsSafe
<1>4. CASE e = d
  <2>1. LaunchesOf(d) = {} /\ StopsOf(d) = {}
    <3>1. CASE create_deploy(t, d)
      BY <1>1, <3>1 DEF LeakOf, create_deploy, PortInv, UnusedUnknown
    <3>2. CASE redeploy(t, d) \/ destroy_deploy(t, d)
      BY <3>2 DEF redeploy, destroy_deploy, MayAct, LaunchesOf, StopsOf
    <3> QED BY <1>4, <3>1, <3>2
  <2>2. LaunchesOf(d)' = {} /\ StraysOf(d)' = StraysOf(d) /\ (IsRunning(d)' <=> IsRunning(d))
    BY <1>2, <2>1 DEF LaunchesOf, StraysOf, IsRunning
  <2>3. Exists(d)' /\ (IsRunning(d) => Exists(d))
    BY <1>1, <1>4 DEF Started, LeakOf
  <2>4. d \notin Legacy /\ IsRunning(d) => running'[d].port = rows'[d].port
    BY <1>1, <1>2, <2>3, RowPortStays DEF LeakOf
  <2>5. \A u \in Tasks : task'[u].id = d => u = t
    <3> SUFFICES ASSUME NEW u \in Tasks, u # t, task'[u].id = d PROVE FALSE
      OBVIOUS
    <3>1. task[u].id = d /\ Idle(u)
      BY <1>1, <1>4 DEF Started
    <3> QED BY <3>1, LifecycleAssumption DEF TypeOK, Task, Idle, IdleTask, Waits
  <2>6. task'[t].pc = "begin" \/ (/\ task'[t].pc = "stop" /\ KillOf(d, t) \in stopping'
                                  /\ \A s \in StopsOf(d)' : s.by = t)
    BY <1>1, <1>4, <2>1 DEF Started, KillOf, StopsOf
  <2>7. \A u \in Tasks : task'[u].id = d =>
          /\ task'[u].pc \notin {"passed", "start"}
          /\ task'[u].pc = "stop" => /\ \A s \in StopsOf(d)' : s.by = u
                                     /\ KillOf(d, u) \in stopping'
    BY <2>5, <2>6
  <2>8. \A u : KillOf(d, u)' = KillOf(d, u)
    BY DEF KillOf
  <2> QED BY <1>1, <2>2, <2>3, <2>4, <2>7, <2>8 DEF LeakOf, At
<1> QED BY <1>3, <1>4

\* A job goes on, or a DELETE handler ends.
LEMMA LeakTask ==
  ASSUME AgentAnswers, TypeOK, PortInv, AloneInv, AloneInv', LeakInv, [Next]_vars,
         NEW t \in Tasks, JobStep(t) \/ DestroyEnd(t), NEW d \in DeployIds
  PROVE  LeakOf(d)'
<1> DEFINE e == task[t].id
           port == task[t].obj.port
<1>1. /\ ~Idle(t) /\ e \in DeployIds /\ LeakOf(d)
      /\ \A u \in Tasks : u # t => task'[u] = task[u]
      /\ \/ task'[t] = IdleTask
         \/ JobStep(t) /\ task'[t].id = e /\ task'[t].pc \in Waits \ {"begin", "stop"}
      /\ JobStep(t) => ~At(t, "stop")
      /\ \A c \in DeployIds : c # e => rows'[c] = rows[c]
      /\ UNCHANGED <<running, stray, stopping>>
  BY SlotGoes DEF LeakInv
<1>2. IdleTask.id \notin DeployIds /\ task \in [Tasks -> Task] /\ PortInv
  BY LifecycleAssumption DEF IdleTask, TypeOK
<1>3. \A u \in Tasks : ~(DestroyEnd(u) /\ ~DestroyEnd(t))
  <2> SUFFICES ASSUME NEW u \in Tasks, u # t, DestroyEnd(u) PROVE FALSE
    OBVIOUS
  <2>1. task'[u] = IdleTask /\ ~Idle(u)
    BY <1>2 DEF DestroyEnd, Ends, At, Idle
  <2> QED BY <1>1, <2>1 DEF Idle, IdleTask
<1>4. \A l \in launching' : l \in launching \/ (JobStep(t) /\ At(t, "start") /\ l.id = e)
  BY DEF JobStep, JobBegin, JobPreflight, JobPreflightLost, JobChecked, JobStart,
         JobStarted, JobStartLost, JobHealthy, JobGivesUp, JobEndpoint, JobEndpointLost, JobRaises,
         JobWrite, DestroyEnd, agentVars, Spawns, start_deploy
<1>5. CASE e # d
  <2>1. \A u \in Tasks : task'[u].id = d => task'[u] = task[u]
    BY <1>1, <1>2, <1>5
  <2>2. Quieter(d)
    BY <1>1, <1>4, <1>5, <2>1 DEF Quieter, Onward, Exists
  <2> QED BY <1>1, <2>2, QuieterIsSafe
<1>6. ASSUME e = d, JobStep(t), ~At(t, "start"),
             task'[t] = IdleTask \/ Onward(task[t].pc, task'[t].pc)
      PROVE  LeakOf(d)'
  <2>1. Exists(d)'
    <3>1. Exists(d)
      BY <1>1, <1>6 DEF AloneInv
    <3>2. ~DestroyEnd(t)
      BY <1>1, <1>6 DEF DestroyEnd
    <3> QED BY <1>3, <3>1, <3>2, RowsStay
  <2>2. \A u \in Tasks : task'[u].id = d => task[u].id = d /\ Onward(task[u].pc, task'[u].pc)
    BY <1>1, <1>2, <1>6 DEF Onward
  <2>3. Quieter(d)
    BY <1>1, <1>4, <1>6, <2>1, <2>2 DEF Quieter
  <2> QED BY <1>1, <2>3, QuieterIsSafe

<1>7. ASSUME e = d, JobPreflight(t), Moves(t, "passed", Absent), d \notin Legacy
      PROVE  ~IsRunning(d)
  <2>1. task[t].obj \in Copies(d) /\ Exists(d) /\ rows[d] \in Copies(d)
    BY <1>1, <1>7, InCopies DEF JobPreflight, At, PortInv, SavesRows, AloneInv
  <2>2. port = rows[d].port /\ port \in PortRange
    BY <1>7, <2>1 DEF PortInv, CopiesAgree
  <2>3. PortFree(d, port)
    <3>1. task'[t].pc = "passed"
      BY <1>2, <1>7 DEF Moves
    <3>2. \A pc : Moves(t, pc, Absent) => pc = task'[t].pc
      BY <1>2 DEF Moves
    <3> QED BY <1>7, <2>2, <3>1, <3>2 DEF JobPreflight, in_range
  <2>4. running[d].port = port => ModelOn(d, port) \/ ~IsRunning(d)
    BY <2>2 DEF ModelOn, SameMachine, IsRunning, deploy_port, in_range
  <2> QED BY <1>1, <1>7, <2>2, <2>3, <2>4 DEF LeakOf, PortFree, CanBind
<1>8. ASSUME e = d, JobPreflight(t), Moves(t, "passed", Absent)
      PROVE  LeakOf(d)'
  <2>1. Exists(d)'
    BY <1>1, <1>8 DEF AloneInv, JobPreflight, Exists
  <2>2. UNCHANGED <<rows, launching>> /\ task'[t].pc = "passed" /\ task[t].pc = "preflight"
    BY <1>2, <1>8 DEF JobPreflight, Spawns, Moves, At
  <2>3. LaunchesOf(d)' = {} /\ StopsOf(d)' = StopsOf(d) /\ StraysOf(d)' = StraysOf(d)
        /\ (IsRunning(d)' <=> IsRunning(d))
    BY <1>1, <1>8, <2>2 DEF LeakOf, LaunchesOf, StopsOf, StraysOf, IsRunning, Launched
  <2>4. \A u \in Tasks : task'[u].id = d => u = t
    <3> SUFFICES ASSUME NEW u \in Tasks, u # t, task'[u].id = d PROVE FALSE
      OBVIOUS
    <3>1. task[u].id = d
      BY <1>1
    <3> QED BY <1>1, <1>8, <3>1 DEF AloneInv
  <2> QED BY <1>1, <1>7, <1>8, <2>1, <2>2, <2>3, <2>4 DEF LeakOf, At
<1>9. ASSUME e = d, JobStart(t) PROVE LeakOf(d)'
  <2> DEFINE l == [id |-> d, spec |-> SpecOf(task[t].obj), by |-> t]
  <2>1. /\ Exists(d) /\ UNCHANGED rows /\ task[t].pc = "start" /\ task'[t].pc = "started"
        /\ launching' = launching \cup {l}
    BY <1>1, <1>2, <1>9 DEF JobStart, start_deploy, Moves, At, AloneInv
  <2>2. LaunchesOf(d) = {} /\ StopsOf(d) = {}
    BY <1>1, <1>9, <2>1 DEF LeakOf, Launched, AloneInv, At, StopsOf
  <2>3. LaunchesOf(d)' = {l} /\ StopsOf(d)' = {}
    BY <1>1, <2>1, <2>2 DEF LaunchesOf, StopsOf
  <2>4. /\ StraysOf(d)' = StraysOf(d) /\ (IsRunning(d)' <=> IsRunning(d)) /\ Exists(d)'
        /\ rows'[d].port = rows[d].port /\ running'[d] = running[d]
    BY <1>1, <2>1 DEF StraysOf, IsRunning, Exists
  <2>5. d \notin Legacy => ~IsRunning(d) /\ l.spec.port = rows[d].port
    <3> SUFFICES ASSUME d \notin Legacy PROVE ~IsRunning(d) /\ l.spec.port = rows[d].port
      OBVIOUS
    <3>1. task[t].obj \in Copies(d) /\ rows[d] \in Copies(d)
      BY <1>9, <2>1, InCopies DEF PortInv, SavesRows
    <3>2. l.spec.port = task[t].obj.port
      BY DEF SpecOf
    <3> QED BY <1>1, <1>9, <2>1, <3>1, <3>2 DEF PortInv, CopiesAgree, LeakOf
  <2>6. \A u \in Tasks : task'[u].id = d => u = t
    <3> SUFFICES ASSUME NEW u \in Tasks, u # t, task'[u].id = d PROVE FALSE
      OBVIOUS
    <3>1. task[u].id = d
      BY <1>1
    <3> QED BY <1>1, <1>9, <3>1 DEF AloneInv
  <2> HIDE DEF l
  <2> QED BY <1>1, <2>1, <2>3, <2>4, <2>5, <2>6 DEF LeakOf, At, Launched
<1>10. ASSUME e = d, DestroyEnd(t) PROVE LeakOf(d)'
  <2>1. /\ task[t].pc = "stop" /\ ~Stopping(t) /\ UNCHANGED launching
        /\ task'[t] = IdleTask
    BY <1>2, <1>10 DEF DestroyEnd, At, agentVars, Ends
  <2>2. StopsOf(d) = {} /\ ~IsRunning(d)
    BY <1>1, <1>10, <2>1 DEF LeakOf, At, StopsOf, Stopping, KillOf
  <2>3. LaunchesOf(d) = {}
    BY <1>1, <1>10, <2>1 DEF LeakOf, Launched
  <2>4. /\ LaunchesOf(d)' = {} /\ StopsOf(d)' = {} /\ ~IsRunning(d)'
        /\ StraysOf(d)' = StraysOf(d)
    BY <1>1, <2>1, <2>2, <2>3 DEF LaunchesOf, StopsOf, StraysOf, IsRunning
  <2>5. \A u \in Tasks : task'[u].id # d
    <3>1. \A u \in Tasks : u # t => task[u].id # d
      BY <1>1, <1>10 DEF AloneInv
    <3> QED BY <1>1, <1>2, <2>1, <3>1
  <2> QED BY <1>1, <2>4, <2>5 DEF LeakOf
<1>11. ASSUME e = d, JobStep(t), ~JobStart(t), ~(JobPreflight(t) /\ Moves(t, "passed", Absent))
       PROVE  ~At(t, "start") /\ (task'[t] = IdleTask \/ Onward(task[t].pc, task'[t].pc))
  <2>1. ASSUME NEW p, At(t, p), p # "start", NEW q, NEW x,
               Ends(t) \/ (Moves(t, q, x) /\ Onward(p, q))
        PROVE  ~At(t, "start") /\ (task'[t] = IdleTask \/ Onward(task[t].pc, task'[t].pc))
    BY <1>2, <2>1 DEF At, Ends, Moves
  <2>2. CASE JobBegin(t)
    BY <2>1, <2>2 DEF JobBegin, Onward, Launched, Waits
  <2>3. CASE JobPreflight(t)
    BY <1>11, <2>1, <2>3 DEF JobPreflight, Onward, Launched, Waits
  <2>4. CASE JobChecked(t)
    BY <2>1, <2>4 DEF JobChecked, Onward, Launched, Waits, At
  <2>5. CASE JobStarted(t)
    BY <2>1, <2>5 DEF JobStarted, Onward, Launched, Waits
  <2>6. CASE JobHealthy(t) \/ JobGivesUp(t)
    BY <2>1, <2>6 DEF JobHealthy, JobGivesUp, Onward, Launched, Waits
  <2>7. CASE JobEndpoint(t)
    BY <2>1, <2>7 DEF JobEndpoint, Onward, Launched, Waits
  <2>8. CASE JobWrite(t)
    BY <2>1, <2>8 DEF JobWrite
  <2> QED BY <1>11, <2>2, <2>3, <2>4, <2>5, <2>6, <2>7, <2>8
          DEF JobStep, JobPreflightLost, JobStartLost, JobEndpointLost, JobRaises, Garbles
<1> QED BY <1>5, <1>6, <1>8, <1>9, <1>10, <1>11

\* The reconcile pass, and a restart of the central.
LEMMA LeakCentral ==
  ASSUME TypeOK, PortInv, LeakInv, [Next]_vars, NEW d \in DeployIds,
         ScanBegin \/ ScanStep \/ StartupDone \/ CentralRestart \/ UNCHANGED vars
  PROVE  LeakOf(d)'
<1>1. LeakOf(d) /\ UNCHANGED <<running, stray, launching>>
  BY DEF LeakInv, ScanBegin, ScanStep, ScanAnswered, ScanUnanswered, ScanRaises, ScanWrite, StartupDone,
         CentralRestart, Spawns, agentVars, vars
<1>2. CASE CentralRestart
  <2>1. /\ UNCHANGED rows /\ stopping' \subseteq stopping
        /\ \A t \in Tasks : task'[t].id \notin DeployIds
    BY <1>2, LifecycleAssumption DEF CentralRestart, IdleTask
  <2>2. Quieter(d)
    BY <1>1, <2>1 DEF Quieter, Exists
  <2> QED BY <1>1, <2>2, QuieterIsSafe
<1>3. CASE ScanBegin \/ ScanStep \/ StartupDone \/ UNCHANGED vars
  <2>1. UNCHANGED <<task, stopping>>
    BY <1>3 DEF ScanBegin, ScanStep, ScanAnswered, ScanUnanswered, ScanRaises, ScanWrite, StartupDone,
                Spawns, agentVars, vars, centralVars
  <2>2. \A t \in Tasks : ~DestroyEnd(t)
    <3> SUFFICES ASSUME NEW t \in Tasks, DestroyEnd(t) PROVE FALSE
      OBVIOUS
    <3>1. task'[t] = IdleTask /\ ~Idle(t)
      BY DEF DestroyEnd, Ends, At, Idle, TypeOK
    <3> QED BY <2>1, <3>1 DEF Idle, IdleTask
  <2>3. Exists(d) => Exists(d)'
    BY <2>2, RowsStay
  <2>4. Quieter(d)
    BY <1>1, <2>1, <2>3 DEF Quieter, Onward
  <2> QED BY <1>1, <2>4, QuieterIsSafe
<1> QED BY <1>2, <1>3

\* The agents: what they start is what a job asked for, at its own port.
LEMMA LeakAgent ==
  ASSUME AgentAnswers, TypeOK, PortInv, LeakInv, [Next]_vars,
         AgentStep, UNCHANGED centralVars, NEW d \in DeployIds
  PROVE  LeakOf(d)'
<1>1. /\ LeakOf(d) /\ UNCHANGED <<rows, task>> /\ running \in [DeployIds -> DeploySpec]
      /\ launching' \subseteq launching /\ StopsStay
      /\ stopping \subseteq [id : DeployIds, by : Senders, next : {"kill", "forget"}]
  BY AgentStops
     DEF LeakInv, centralVars, TypeOK, AgentTypeOK, AgentStep, Launch, LaunchFails, stop_kill,
         stop_forget, stop_lost, ModelDies, Spawns, AgentRestart
<1>2. ASSUME /\ running'[d] \in {running[d], NoSpec}
             /\ \A s \in stray' : s.id = d => s \in stray
             /\ \A t : KillOf(d, t) \in stopping
                         => KillOf(d, t) \in stopping' \/ running'[d] = NoSpec
      PROVE  LeakOf(d)'
  <2>1. Quieter(d)
    BY <1>1, <1>2 DEF Quieter, Onward, Exists, StopsStay
  <2> QED BY <1>1, <2>1, QuieterIsSafe
<1>3. ASSUME NEW l \in launching, Launch(l) PROVE LeakOf(d)'
  <2>1. UNCHANGED stopping /\ launching' = launching \ {l} /\ l.id \in DeployIds
    BY <1>3 DEF Launch, TypeOK, AgentTypeOK
  <2>2. CASE l.id # d
    BY <1>1, <1>2, <1>3, <2>1, <2>2 DEF Launch
  <2>3. CASE l.id = d
    <3>1. l \in LaunchesOf(d)
      BY <2>3 DEF LaunchesOf
    <3>2. /\ LaunchesOf(d)' = {} /\ StopsOf(d)' = {}
          /\ Exists(d) /\ Exists(d)' /\ rows'[d].port = rows[d].port
      BY <1>1, <2>1, <3>1 DEF LeakOf, LaunchesOf, StopsOf, Exists
    <3>3. d \notin Legacy => ~IsRunning(d) /\ l.spec.port = rows[d].port /\ StraysOf(d) = {}
      BY <1>1, <3>1 DEF LeakOf
    <3>4. d \notin Legacy => StraysOf(d)' = {}
      BY <1>3, <2>3, <3>3 DEF Launch, StraysOf
    <3>5. running'[d] \in {running[d], l.spec, NoSpec}
      BY <1>1, <1>3, <2>3 DEF Launch
    <3>6. d \notin Legacy /\ IsRunning(d)' => running'[d].port = rows'[d].port
      BY <3>2, <3>3, <3>5 DEF IsRunning
    <3>7. \A t \in Tasks : task'[t].id = d => task'[t].pc \in Launched
      BY <1>1, <3>1 DEF LeakOf
    <3> QED BY <3>2, <3>4, <3>6, <3>7 DEF LeakOf, At, Launched
  <2> QED BY <2>2, <2>3
<1>4. ASSUME NEW s \in stopping, stop_kill(s) PROVE LeakOf(d)'
  <2>1. running' = [running EXCEPT ![s.id] = NoSpec] /\ UNCHANGED stray
        /\ stopping' = (stopping \ {s}) \cup {[s EXCEPT !.next = "forget"]}
    BY <1>4 DEF stop_kill, DockerSlow
  <2>2. running'[d] \in {running[d], NoSpec}
    BY <1>1, <2>1
  <2>3. ASSUME NEW t, KillOf(d, t) \in stopping
        PROVE  KillOf(d, t) \in stopping' \/ running'[d] = NoSpec
    <3>1. CASE KillOf(d, t) = s
      BY <1>1, <2>1, <3>1 DEF KillOf
    <3> QED BY <2>1, <2>3, <3>1
  <2> QED BY <1>2, <2>1, <2>2, <2>3
<1>5. ASSUME NEW s \in stopping, stop_forget(s) PROVE LeakOf(d)'
  <2>1. \A t : KillOf(d, t) # s
    BY <1>5 DEF stop_forget, KillOf
  <2>2. UNCHANGED <<running, stray>> /\ stopping' = stopping \ {s}
    BY <1>5 DEF stop_forget
  <2> QED BY <1>2, <2>1, <2>2
<1>6. ASSUME NEW remote \in BOOLEAN, AgentRestart(remote) PROVE LeakOf(d)'
  <2>1. UNCHANGED <<running, stray, stopping>>
    BY <1>6 DEF AgentRestart
  <2> QED BY <1>2, <2>1
<1>7. CASE (\E l \in launching : LaunchFails(l)) \/ \E e \in DeployIds : ModelDies(e) \/ Spawns(e)
  <2>1. UNCHANGED <<stray, stopping>> /\ running'[d] \in {running[d], NoSpec}
    BY <1>1, <1>7 DEF LaunchFails, ModelDies, Spawns
  <2> QED BY <1>2, <2>1
<1> QED BY <1>3, <1>4, <1>5, <1>6, <1>7 DEF AgentStep, stop_lost

LEMMA LeakStep ==
  ASSUME ~Overlap, AgentAnswers, TypeOK, PortInv, AloneInv, AloneInv', LeakInv, [Next]_vars
  PROVE  LeakInv'
<1> SUFFICES ASSUME NEW d \in DeployIds PROVE LeakOf(d)'
  BY DEF LeakInv
<1>1. CASE UserStep
  BY <1>1, LeakUser DEF UserStep
<1>2. CASE \E t \in Tasks : JobStep(t) \/ DestroyEnd(t)
  BY <1>2, LeakTask
<1>3. CASE ScanBegin \/ ScanStep \/ StartupDone \/ CentralRestart \/ UNCHANGED vars
  BY <1>3, LeakCentral
<1>4. CASE AgentStep /\ UNCHANGED centralVars
  BY <1>4, LeakAgent
<1> QED BY <1>1, <1>2, <1>3, <1>4 DEF Next

\* A DELETE that has ended, and a start that came to nothing, leave no model
\* running that no row leads to: for a user who lets every operation settle and
\* an agent that answers, whatever models die and whoever restarts
\* (app.destroy_deploy, executor.stop, executor_llama.stop).
THEOREM NothingLeaks == ASSUME ~Overlap, AgentAnswers PROVE Spec => []NoLeak
<1>1. TypeOK /\ PortInv /\ AloneInv /\ LeakInv /\ [Next]_vars => (AloneInv /\ LeakInv)'
  <2> SUFFICES ASSUME TypeOK, PortInv, AloneInv, LeakInv, [Next]_vars
               PROVE  (AloneInv /\ LeakInv)'
    OBVIOUS
  <2>1. AloneInv'
    BY AloneStep
  <2> QED BY <2>1, LeakStep
<1>2. LeakInv => NoLeak
  BY DEF LeakInv, LeakOf, NoLeak, StraysOf
<1> QED BY <1>1, <1>2, AloneInit, LeakInit, TypeCorrect, PortInvariant, PTL DEF Spec

\* Chats reach no server of another deploy: what runs for a deploy is at the port
\* its row holds, and no other row points there.  For a user who lets every
\* operation settle and an agent that answers, whatever models die and whoever
\* restarts (the proxies of central/app.py, chat_with_deploy and
\* _chat_with_deploy, call the stored deploy.endpoint unasked).
THEOREM ChatsReachTheirOwn ==
  ASSUME ~Overlap, AgentAnswers PROVE Spec => []ChatsReachOwn
<1>1. TypeOK /\ PortInv /\ AloneInv /\ EndInv /\ LeakInv /\ [Next]_vars
        => (AloneInv /\ EndInv /\ LeakInv)'
  <2> SUFFICES ASSUME TypeOK, PortInv, AloneInv, EndInv, LeakInv, [Next]_vars
               PROVE  (AloneInv /\ EndInv /\ LeakInv)'
    OBVIOUS
  <2>1. AloneInv'
    BY AloneStep
  <2> QED BY <2>1, EndStep, LeakStep
<1>2. PortInv /\ EndInv /\ LeakInv => ChatsReachOwn
  <2> SUFFICES ASSUME PortInv, EndInv, LeakInv, NEW d \in DeployIds \ Legacy,
                      NEW e \in DeployIds \ Legacy, d # e, rows[d].endpoint # NoPort
               PROVE  /\ IsRunning(e) => deploy_port(e, running[e].port) # rows[d].endpoint
                      /\ \A s \in stray : s.id # e
    BY DEF ChatsReachOwn
  <2>1. Exists(d) /\ rows[d] \in Copies(d)
    BY InCopies DEF PortInv, NoRowNoPort
  <2>2. rows[d].endpoint = rows[d].port /\ rows[d].port \in PortRange
    BY <2>1 DEF EndInv, EndpointIsOwn, PortInv, CopiesAgree
  <2>3. IsRunning(e) => Exists(e) /\ running[e].port = rows[e].port
    BY DEF LeakInv, LeakOf
  <2>4. Exists(e) => rows[e].port \in PortRange /\ rows[e].port # rows[d].port
    BY <2>1, <2>2, InCopies DEF PortInv, CopiesAgree, PortsUnique, in_range
  <2>5. StraysOf(e) = {}
    BY DEF LeakInv, LeakOf
  <2> QED BY <2>2, <2>3, <2>4, <2>5 DEF StraysOf, deploy_port, in_range
<1> QED
  BY <1>1, <1>2, AloneInit, EndInit, LeakInit, TypeCorrect, PortInvariant, PTL DEF Spec

(***************************************************************************)
(* Ghosts                                                                  *)
(***************************************************************************)

\* DestroyRemoves, which overlapping operations violate, but for the reconcile
\* pass: a destroyed deploy whose row it has not listed before stays destroyed.
OnlyAPassRevives ==
  [][\A d \in DeployIds : d \in used /\ ~Exists(d) /\ ~Unvisited(d) => ~Exists(d)']_vars

\* For a user who lets every operation settle, the only ghosts are those of the
\* reconcile pass, which saves the rows it listed (app._reconcile_stale): no
\* job of a deploy is left when its row is deleted.
THEOREM GhostsNeedAPass == ASSUME ~Overlap PROVE Spec => OnlyAPassRevives
<1>1. ASSUME TypeOK, PortInv, AloneInv, Next, NEW d \in DeployIds,
             d \in used, ~Exists(d), ~Unvisited(d)
      PROVE  ~Exists(d)'
  <2>1. ~OnTask(d)
    BY <1>1 DEF AloneInv, OnTask
  <2>2. Gone(d)
    BY <1>1, <2>1 DEF Gone, PortInv, SavesRows
  <2>3. Gone(d)'
    BY <1>1, <2>2, GoneStep
  <2> QED BY <2>3 DEF Gone
<1>2. TypeOK /\ PortInv /\ AloneInv /\ [Next]_vars
        => [\A d \in DeployIds : d \in used /\ ~Exists(d) /\ ~Unvisited(d)
              => ~Exists(d)']_vars
  BY <1>1
<1>3. TypeOK /\ PortInv /\ AloneInv /\ [Next]_vars => AloneInv'
  BY AloneStep
<1> QED BY <1>2, <1>3, AloneInit, TypeCorrect, PortInvariant, PTL DEF Spec, OnlyAPassRevives
=============================================================================
