-------------------------- MODULE DeployLifecycle --------------------------
(***************************************************************************)
(* The life of a deploy: the central's handlers, its background deploy     *)
(* jobs and its reconcile thread (central/app.py), over the deploys table  *)
(* (DeployStore) and the agents (Agent).                                   *)
(*                                                                         *)
(* Handlers and jobs run on one event loop, so the code between two awaits *)
(* is one action and everything else may happen at an await.  The          *)
(* reconcile pass runs in a thread of its own over a list it read once.    *)
(* A task slot holds one deploy job or one DELETE handler in flight.       *)
(***************************************************************************)
EXTENDS DeployStore, Agent

CONSTANTS
  NoDeploy,     \* the id of no deploy: an unused task slot
  Legacy,       \* deploys whose rows predate port allocation (port NULL)
  MaxRestarts,  \* bound: restarts of the central
  Overlap,      \* TRUE: the user may act on a deploy still being worked on
  Garbled       \* TRUE: a failing call may raise something else than AgentError

ASSUME LifecycleAssumption ==
  /\ NoDeploy \notin DeployIds
  /\ Legacy \subseteq DeployIds
  /\ \A d, e \in Legacy : LegacyPort[d] = LegacyPort[e] => d = e   \* all running
  /\ MaxRestarts \in Nat
  /\ Overlap \in BOOLEAN
  /\ Garbled \in BOOLEAN

VARIABLES
  used,      \* ids uuid4() has minted
  edits,     \* editions written so far, so that every redeploy gets a new one
  task,      \* task slots: deploy jobs and DELETE handlers
  todo,      \* the reconcile pass: rows of its list it has still to visit
  hit,       \* ... and the one whose model it was just told is not running
  mode,      \* "boot": the startup pass; "up": serving
  restarts

centralVars == <<rows, used, edits, task, todo, hit, mode, restarts>>
vars == <<centralVars, agentVars>>

Tasks == Senders

\* Where a task is; every name but idle is an await.
Waits == {"begin", "preflight", "passed", "failed_check", "port_busy", "start",
          "started", "wait", "endpoint", "write", "stop"}

IdleTask == [pc |-> "idle", id |-> NoDeploy, obj |-> Absent]
Task == [pc : Waits, id : DeployIds, obj : Row] \cup {IdleTask}

\* Deploy objects are only modelled while code after the await still uses them.
Idle(t) == task[t].pc = "idle"
At(t, pc) == task[t].pc = pc
Moves(t, pc, obj) ==
  task' = [task EXCEPT ![t] = [pc |-> pc, id |-> task[t].id, obj |-> obj]]
Ends(t) == task' = [task EXCEPT ![t] = IdleTask]
Starts(t, d, pc) ==
  task' = [task EXCEPT ![t] = [pc |-> pc, id |-> d, obj |-> Absent]]

With(row, status) == [row EXCEPT !.status = status]
SpecOf(row) == [gen |-> row.gen, port |-> row.port]
OnTask(d) == \E t \in Tasks : ~Idle(t) /\ task[t].id = d

\* What a user who lets every operation settle waits for: no task, no launch
\* and no stop of the deploy is still under way.
MayAct(d) ==
  Overlap \/ (~OnTask(d) /\ \A r \in launching \cup stopping : r.id # d)

\* _get_owned_deploy: 404 for a deploy that has no row.  Its mutant looks at
\* whether the id was ever given out.
minted_deploy(d) == d \in used
owned_deploy(d) == Exists(d)

scanVars == <<todo, hit, mode, restarts>>

\* _request makes an AgentError of HTTP errors and of OSErrors.  An answer cut
\* short (IncompleteRead), no HTTP (BadStatusLine) or no JSON (ValueError) is
\* none of these, and `except AgentError` lets it through.
Garbles == Garbled /\ ~AgentAnswers

-----------------------------------------------------------------------------
Init ==
  /\ rows = [d \in DeployIds |->
               IF d \in Legacy
                 THEN [status |-> "healthy", gen |-> 1, port |-> NoPort,
                       endpoint |-> LegacyPort[d]]
                 ELSE Absent]
  /\ used = Legacy
  /\ edits = 1
  /\ task = [t \in Tasks |-> IdleTask]
  /\ todo = [d \in DeployIds |-> Absent]
  /\ hit = {}
  /\ mode = "up"
  /\ restarts = 0
  /\ running = [d \in DeployIds |->
                  IF d \in Legacy THEN [gen |-> 1, port |-> NoPort] ELSE NoSpec]
  /\ stray = {}
  /\ zombies = {}
  /\ stopping = {}
  /\ launching = {}
  /\ specs = running

-----------------------------------------------------------------------------
(* The API handlers. *)

\* POST /deploys.  The retry loop of store.create ends with the lowest port
\* no row holds; with none left it is a 409 and nothing changes.
create_deploy(t, d) ==
  /\ mode = "up" /\ Idle(t)
  /\ d \notin used
  /\ AnyFree(taken_ports({}))
  /\ upsert(d, [status |-> "pending", gen |-> 1,
                port |-> first_free(taken_ports({})), endpoint |-> NoPort])
  /\ used' = used \cup {d}
  /\ Starts(t, d, "begin")
  /\ UNCHANGED <<edits, scanVars, agentVars>>

\* POST /deploys/{id}/redeploy: the port stays, except that a legacy row gets
\* its first one.  The runtime and any job of the deploy are left as they are.
redeploy(t, d) ==
  /\ mode = "up" /\ Idle(t)
  /\ owned_deploy(d) /\ MayAct(d)
  /\ edits + 1 \in Gens
  /\ in_range(rows[d].port) \/ AnyFree(taken_ports({d}))
  /\ upsert(d, [status |-> "redeploying", gen |-> edits + 1,
                port |-> PortFor(d), endpoint |-> rows[d].endpoint])
  /\ edits' = edits + 1
  /\ Starts(t, d, "begin")
  /\ UNCHANGED <<used, scanVars, agentVars>>

\* DELETE /deploys/{id}, up to the await of the agent's stop.
destroy_deploy(t, d) ==
  /\ mode = "up" /\ Idle(t)
  /\ owned_deploy(d) /\ MayAct(d)
  /\ upsert(d, With(rows[d], "destroying"))
  /\ Starts(t, d, "stop")
  /\ stop_deploy(d, t)
  /\ UNCHANGED <<used, edits, scanVars>>

\* The agent answered, or did not in time: the row is deleted either way.  It
\* stays, destroying, when the handler dies of the answer.
DestroyEnd(t) ==
  /\ At(t, "stop")
  /\ ~Stopping(t) \/ ~AgentAnswers
  /\ delete(task[t].id) \/ (Garbles /\ UNCHANGED rows)
  /\ Ends(t)
  /\ UNCHANGED <<used, edits, scanVars, agentVars>>

-----------------------------------------------------------------------------
(* _deploy_job, one action from an await to the next. *)

JobBegin(t) ==
  /\ At(t, "begin")
  /\ LET d == task[t].id IN
     IF ~Exists(d) THEN Ends(t) /\ UNCHANGED rows
     ELSE /\ upsert(d, With(rows[d], "checking"))
          /\ Moves(t, "preflight", With(rows[d], "checking"))
  /\ UNCHANGED <<used, edits, scanVars, agentVars>>

\* The agent answers the preflight: the port must come free while it waits,
\* and the runtime, the GPU or the model may not do.
JobPreflight(t) ==
  LET d == task[t].id
      port == task[t].obj.port
  IN
  /\ At(t, "preflight")
  /\ \/ (in_range(port) => PortFree(d, port)) /\ Moves(t, "passed", Absent)
     \/ in_range(port) /\ ~PortFree(d, port) /\ Moves(t, "port_busy", Absent)
     \/ Moves(t, "failed_check", Absent)
  /\ Spawns(d)
  /\ UNCHANGED <<rows, used, edits, scanVars>>

\* No answer: the local agent may be starting, another machine is unusable.
JobPreflightLost(t) ==
  /\ At(t, "preflight") /\ ~AgentAnswers
  /\ Moves(t, IF task[t].id \in Remote THEN "failed_check" ELSE "passed", Absent)
  /\ UNCHANGED <<rows, used, edits, scanVars, agentVars>>

JobChecked(t) ==
  LET d == task[t].id IN
  /\ \E pc \in {"passed", "failed_check", "port_busy"} : At(t, pc)
  /\ IF ~Exists(d) THEN Ends(t) /\ UNCHANGED rows
     ELSE IF At(t, "passed")
       THEN /\ upsert(d, With(rows[d], "provisioning"))
            /\ Moves(t, "start", With(rows[d], "provisioning"))
       ELSE upsert(d, With(rows[d], "failed")) /\ Ends(t)
  /\ UNCHANGED <<used, edits, scanVars, agentVars>>

\* The agent accepts the spec the job read before this await.
JobStart(t) ==
  /\ At(t, "start")
  /\ start_deploy(task[t].id, SpecOf(task[t].obj), t)
  /\ Moves(t, "started", Absent)
  /\ UNCHANGED <<rows, used, edits, scanVars>>

JobStarted(t) ==
  LET d == task[t].id IN
  /\ At(t, "started")
  /\ IF Exists(d) THEN Moves(t, "wait", rows[d]) ELSE Ends(t)
  /\ UNCHANGED <<rows, used, edits, scanVars, agentVars>>

\* The start call failed, before the agent got it or before it answered.
JobStartLost(t) ==
  LET d == task[t].id IN
  /\ At(t, "start") \/ At(t, "started")
  /\ ~AgentAnswers
  /\ IF Exists(d) THEN upsert(d, With(rows[d], "failed")) ELSE UNCHANGED rows
  /\ Ends(t)
  /\ UNCHANGED <<used, edits, scanVars, agentVars>>

\* _wait_healthy returns True; the status is set on the object, not yet saved.
JobHealthy(t) ==
  /\ At(t, "wait")
  /\ ProbeHealthy(task[t].id)
  /\ Moves(t, "endpoint", With(task[t].obj, "healthy"))
  /\ UNCHANGED <<rows, used, edits, scanVars, agentVars>>

\* Mutant of JobGivesUp: no stall timeout and no cap.
JobWaitsOn(t) == FALSE

\* _wait_healthy returns False: it stopped moving, or took four hours.  Clocks
\* are abstracted, so this may come at any poll.  _why_it_died is awaited.
JobGivesUp(t) ==
  /\ At(t, "wait")
  /\ Moves(t, "write", With(task[t].obj, "failed"))
  /\ UNCHANGED <<rows, used, edits, scanVars, agentVars>>

\* The second status call, for the address.
JobEndpoint(t) ==
  /\ At(t, "endpoint")
  /\ \E e \in PortRange \cup {NoPort} :
       /\ Reported(task[t].id, e)
       /\ Moves(t, "write", [task[t].obj EXCEPT !.endpoint = e])
  /\ UNCHANGED <<rows, used, edits, scanVars, agentVars>>

\* No answer, or the Pro hook could not reach the address.  The column keeps
\* what the agent of another machine last reported.
JobEndpointLost(t) ==
  LET d == task[t].id
      obj == task[t].obj
  IN
  /\ At(t, "endpoint") /\ ~AgentAnswers
  /\ \/ d \notin Remote /\ Moves(t, "write", [obj EXCEPT !.endpoint = NoPort])
     \/ /\ d \in Remote
        /\ \E e \in PortRange \cup {NoPort} :
             /\ e = obj.endpoint \/ Reported(d, e)
             /\ Moves(t, "write", [obj EXCEPT !.endpoint = e, !.status = "failed"])
  /\ UNCHANGED <<rows, used, edits, scanVars, agentVars>>

\* The last store.update, with the object read before all those awaits.
JobWrite(t) ==
  /\ At(t, "write")
  /\ upsert(task[t].id, task[t].obj)
  /\ Ends(t)
  /\ UNCHANGED <<used, edits, scanVars, agentVars>>

\* The job dies of an answer, with nothing more written.
JobRaises(t) ==
  /\ Garbles
  /\ task[t].pc \in {"preflight", "start", "started", "wait", "endpoint", "write"}
  /\ Ends(t)
  /\ UNCHANGED <<rows, used, edits, scanVars, agentVars>>

JobStep(t) ==
  \/ JobBegin(t) \/ JobPreflight(t) \/ JobPreflightLost(t) \/ JobChecked(t)
  \/ JobStart(t) \/ JobStarted(t) \/ JobStartLost(t)
  \/ JobHealthy(t) \/ JobGivesUp(t)
  \/ JobEndpoint(t) \/ JobEndpointLost(t) \/ JobWrite(t) \/ JobRaises(t)

-----------------------------------------------------------------------------
(* _reconcile_stale, in its thread. *)

Unvisited(d) == todo[d].status # "absent"
ScanIdle == hit = {} /\ \A d \in DeployIds : ~Unvisited(d)
\* Mutant of Listed: passes over the rows that already claim to serve.
ListedUnsettled(statuses, local) ==
  [d \in DeployIds |-> IF rows[d].status \in statuses \ {"healthy"} THEN rows[d] ELSE Absent]
Listed(statuses, local) ==
  [d \in DeployIds |-> IF rows[d].status \in statuses /\ (local => d \notin Remote)
                         THEN rows[d] ELSE Absent]
Visited(d) == [todo EXCEPT ![d] = Absent]

\* Every 10 s, once the previous pass is over: one read of the whole table.
ScanBegin ==
  /\ mode = "up" /\ ScanIdle
  /\ todo' = Listed({"healthy"}, FALSE)
  /\ UNCHANGED <<rows, used, edits, task, hit, mode, restarts, agentVars>>

\* An unanswered agent says nothing about the model; only "not running" does.
ScanAnswered(d) ==
  /\ Unvisited(d) /\ hit = {}
  /\ \/ SeemsRunning(d) /\ todo' = Visited(d) /\ UNCHANGED <<hit, agentVars>>
     \/ SeemsDead(d) /\ hit' = {d} /\ Spawns(d) /\ UNCHANGED todo
  /\ UNCHANGED <<rows, used, edits, task, mode, restarts>>

ScanUnanswered(d) ==
  /\ Unvisited(d) /\ hit = {} /\ ~AgentAnswers
  /\ todo' = Visited(d)
  /\ UNCHANGED <<rows, used, edits, task, hit, mode, restarts, agentVars>>

\* The pass dies of an answer, and _reconcile_loop logs it.  (At startup it ends
\* the start: a pass that does not go on before the next CentralRestart.)
ScanRaises(d) ==
  /\ Garbles /\ mode = "up"
  /\ Unvisited(d) /\ hit = {}
  /\ todo' = [e \in DeployIds |-> Absent]
  /\ UNCHANGED <<rows, used, edits, task, hit, mode, restarts, agentVars>>

\* store.update of the row as it was listed.  An IntegrityError ends the pass.
ScanWrite(d) ==
  LET row == With(todo[d], "failed") IN
  /\ hit = {d}
  /\ upsert(d, row)
  /\ hit' = {}
  /\ todo' = IF Conflicts(d, row) THEN [e \in DeployIds |-> Absent] ELSE Visited(d)
  /\ UNCHANGED <<used, edits, task, mode, restarts, agentVars>>

ScanStep ==
  \E d \in DeployIds :
    ScanAnswered(d) \/ ScanUnanswered(d) \/ ScanRaises(d) \/ ScanWrite(d)

\* The central stops or crashes and starts again: its tasks are gone, and the
\* startup pass looks at the local rows that claim a runtime.  A stop that was
\* sent may or may not have left.
CentralRestart ==
  /\ restarts < MaxRestarts
  /\ restarts' = restarts + 1
  /\ mode' = "boot"
  /\ todo' = Listed({"healthy", "redeploying", "provisioning"}, TRUE)
  /\ hit' = {}
  /\ task' = [t \in Tasks |-> IdleTask]
  /\ \E lost \in SUBSET {s \in stopping : s.next = "kill"} :
       stopping' = stopping \ lost
  /\ UNCHANGED <<rows, used, edits, running, stray, zombies, launching, specs>>

StartupDone ==
  /\ mode = "boot" /\ ScanIdle
  /\ mode' = "up"
  /\ UNCHANGED <<rows, used, edits, task, todo, hit, restarts, agentVars>>

-----------------------------------------------------------------------------
UserStep ==
  \E t \in Tasks, d \in DeployIds :
    create_deploy(t, d) \/ redeploy(t, d) \/ destroy_deploy(t, d)

Next ==
  \/ UserStep
  \/ \E t \in Tasks : JobStep(t) \/ DestroyEnd(t)
  \/ ScanBegin \/ ScanStep
  \/ CentralRestart \/ StartupDone
  \/ AgentStep /\ UNCHANGED centralVars

Spec == Init /\ [][Next]_vars

-----------------------------------------------------------------------------
\* Every variable of the central and of the agents holds what the code keeps
\* there: known statuses, ports of the range or none, one pc per task slot.
TypeOK ==
  /\ rows \in [DeployIds -> Row]
  /\ used \subseteq DeployIds
  /\ edits \in Nat
  /\ task \in [Tasks -> Task]
  /\ todo \in [DeployIds -> Row]
  /\ hit \subseteq DeployIds
  /\ mode \in {"boot", "up"}
  /\ restarts \in 0..MaxRestarts
  /\ AgentTypeOK

-----------------------------------------------------------------------------
(* Fairness.  asyncio runs every ready task and every call to an agent has a *)
(* timeout, so a job, a DELETE handler and a reconcile pass go on; an agent  *)
(* that is asked again and again is assumed to answer some day.              *)
FairSpec ==
  /\ Spec
  /\ \A t \in Tasks : WF_vars(JobStep(t)) /\ WF_vars(DestroyEnd(t))
  /\ WF_vars(ScanBegin) /\ WF_vars(ScanStep) /\ WF_vars(StartupDone)
  /\ \A d \in DeployIds : SF_vars(ScanAnswered(d))

-----------------------------------------------------------------------------
(* Every copy of a deploy's row there is: in the table, in a job that will  *)
(* save it, and in the list of the reconcile pass.                          *)
Copies(d) ==
  {x \in {rows[d], todo[d]} \cup {task[t].obj : t \in {u \in Tasks : task[u].id = d}} :
     x.status # "absent"}

\* Two deploys never hold one port, although a job or a reconcile pass may
\* insert the row of a destroyed deploy again after its port was given away.
PortsUnique ==
  \A d, e \in DeployIds :
    Exists(d) /\ Exists(e) /\ rows[d].port = rows[e].port /\ in_range(rows[d].port)
      => d = e

\* The deploys table implements the registry of ports: a handler, a job, a
\* pass or a crash gives a deploy a free port, frees one, or touches none.  A
\* stale row never moves a deploy to another port (deploys with an allocated
\* port: the first redeploy of a legacy row is what gives it one).
Registry == INSTANCE PortRegistry
              WITH Deploys <- DeployIds \ Legacy, PortSet <- PortRange,
                   held <- [d \in DeployIds \ Legacy |-> rows[d].port]
RegistrySpec == Registry!Spec

\* However stale the copy of a deploy some job or pass is about to save, it
\* carries the port the deploy has always had: the URL people copied survives
\* every redeploy, race and resurrection (deploys with an allocated port).
OnePortPerDeploy ==
  \A d \in DeployIds \ Legacy : \A x, y \in Copies(d) : x.port = y.port

\* The endpoint chats are sent to is the deploy's own port, never the hashed
\* port the agent falls back to once a stop made it forget the spec (with a
\* user who lets every operation settle).
EndpointIsOwn ==
  \A d \in DeployIds \ Legacy :
    \A x \in Copies(d) : x.endpoint \in {NoPort, x.port}

\* Nobody is left who could insert d again.
Gone(d) ==
  /\ d \in used /\ ~Exists(d) /\ ~OnTask(d)
  /\ ~Unvisited(d) /\ d \notin hit

\* Once a deploy is destroyed and no job, DELETE or pass still holds it, it is
\* gone for good: no handler starts work on a deploy that has no row.
GoneStaysGone == [][\A d \in DeployIds : Gone(d) => Gone(d)']_vars

\* With a user who lets every operation settle and an agent that answers, a
\* deploy without a row leaves no model running on the machine.  (The process
\* of a legacy deploy has its hashed port while the first redeploy starts one
\* on the allocated port: nothing leads to the old one after that.)
NoLeak ==
  \A d \in DeployIds :
    ~Exists(d) /\ ~OnTask(d) =>
      ~IsRunning(d) /\ (d \notin Legacy => \A s \in stray : s.id # d)

\* Chats go to row.endpoint without a look at who listens there.  With a user
\* who lets every operation settle and agents that answer, no server of another
\* deploy does, whatever is destroyed, dies, is given a freed port or comes back
\* with a stale row (deploys with an allocated port).
ChatsReachOwn ==
  \A d, e \in DeployIds \ Legacy :
    d # e /\ SameMachine(d, e) /\ rows[d].endpoint # NoPort =>
      /\ IsRunning(e) => deploy_port(e, running[e].port) # rows[d].endpoint
      /\ \A s \in stray : s.id = e => deploy_port(e, s.spec.port) # rows[d].endpoint

\* Whatever the user does, and whether an agent answers, refuses or is silent,
\* a status that says work is going on does not stay (as long as the central is
\* not restarted and no answer is garbled).
TransientEnds ==
  \A d \in DeployIds :
    rows[d].status \in {"pending", "checking", "provisioning", "redeploying", "destroying"}
      ~> rows[d].status \in {"absent", "healthy", "failed"}

\* A card that says healthy about a model that is gone is corrected.
DeadIsReported ==
  \A d \in DeployIds :
    rows[d].status = "healthy" /\ ~IsRunning(d)
      ~> rows[d].status # "healthy" \/ IsRunning(d)

-----------------------------------------------------------------------------
(* What the repository says of the program and the code does not keep.       *)

\* "The absolute cap is only there so a wedged deploy is not provisioning
\* forever" (central/app.py:457).
ProvisioningEnds ==
  \A d \in DeployIds : rows[d].status = "provisioning" ~> rows[d].status # "provisioning"

\* A destroyed deploy is not found any more.
DestroyRemoves ==
  [][\A d \in DeployIds : d \in used /\ ~Exists(d) => ~Exists(d)']_vars
=============================================================================
