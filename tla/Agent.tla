-------------------------------- MODULE Agent --------------------------------
(***************************************************************************)
(* The agent (agent/app.py with the two executors) as the central sees it: *)
(* a start request is accepted at once and a thread launches the runtime   *)
(* later; a stop kills what the pid file or the container name leads to,   *)
(* then forgets the spec, whether or not the caller still waits; status is *)
(* answered from the live processes.                                       *)
(* A local agent and at most one other machine (Remote) are modelled; the  *)
(* tunnel to the other machine belongs to the Pro module, which is not in  *)
(* this repository.                                                        *)
(***************************************************************************)
EXTENDS SpecRecord

CONSTANTS
  Remote,        \* deploys with a machine_id
  Runtime,       \* "docker": a named container; "llama", "vllm": a process and
                 \* a pid file, for llama.cpp or vLLM
  OutsidePorts,  \* ports a program that is not SursumAI listens on
  Senders,       \* who a request came from (told apart when two overlap)
  AgentAnswers   \* TRUE: no call to an agent, and none of an agent to Docker,
                 \* ever fails or times out

ASSUME AgentAssumption ==
  /\ Remote \subseteq DeployIds
  /\ AgentAnswers \in BOOLEAN
  /\ Runtime \in {"docker", "llama", "vllm"}

VARIABLES
  running,    \* DeployIds -> Spec : the live runtime the agent can find again
  stray,      \* live processes no pid file leads to any more
  zombies,    \* dead vLLM processes the agent has not waited for
  stopping,   \* stop requests on their way: about to kill, or to forget
  launching,  \* start threads: still resolving, downloading or pulling
  specs       \* DeployIds -> Spec : SPECS, backed by a file per deploy

agentVars == <<running, stray, zombies, stopping, launching, specs>>

SameMachine(d, e) == (d \in Remote) <=> (e \in Remote)

\* Some live model on d's machine listens on p.
ModelOn(d, p) ==
  \/ \E e \in DeployIds :
       /\ SameMachine(d, e)
       /\ running[e] # NoSpec
       /\ deploy_port(e, running[e].port) = p
  \/ \E s \in stray : SameMachine(d, s.id) /\ deploy_port(s.id, s.spec.port) = p

\* The kernel of d's machine lets a server bind p.
CanBind(d, p) == p \notin OutsidePorts /\ ~ModelOn(d, p)

\* Mutant of PortFree: only programs that are not SursumAI count.
PortUnchecked(d, p) == p \notin OutsidePorts

\* wait_until_free, asked on d's machine: it tries to bind the port.
PortFree(d, p) == CanBind(d, p)

\* endpoint(deploy_id, spec): the hashed port once the spec is forgotten.
EndpointOf(d) == deploy_port(d, specs[d].port)

\* The runtime lives, and what is_running makes of it: os.kill(pid, 0) also
\* finds a child that has died and was not waited for.  (For llama.cpp it does
\* not: the executors look for a container first, and starting any subprocess
\* makes Python wait for the dead ones.)
IsRunning(d) == running[d] # NoSpec
SeemsRunning(d) == IsRunning(d) \/ d \in zombies

\* A docker command may take longer than its ten seconds; is_running then
\* answers False and stop goes on.
DockerSlow == Runtime = "docker" /\ ~AgentAnswers
SeemsDead(d) == ~SeemsRunning(d) \/ DockerSlow

\* The zombies left once the agent of d's machine has started a subprocess.
Reaped(d) == {z \in zombies : ~SameMachine(z, d)}

\* Mutant of Reported: the spec is not passed on to endpoint().
ReportedHash(d, e) ==
  \/ SeemsRunning(d) /\ e = LegacyPort[d]
  \/ SeemsDead(d) /\ e = NoPort

\* e may be the "endpoint" of GET /deploys/{id}/status.
Reported(d, e) ==
  \/ SeemsRunning(d) /\ e = EndpointOf(d)
  \/ SeemsDead(d) /\ e = NoPort

\* "healthy" may be answered: the runtime lives and a model server answers
\* GET /models at the endpoint.  llama.cpp answers it without a key, so a
\* server of another deploy does too.  A model still loading is not healthy
\* yet, so callers never require this to be reported.
ProbeHealthy(d) == SeemsRunning(d) /\ ModelOn(d, EndpointOf(d))

-----------------------------------------------------------------------------
\* POST /deploys: 202, and _deploy_job keeps the spec and starts a thread.
start_deploy(d, spec, by) ==
  /\ specs' = [specs EXCEPT ![d] = spec]
  /\ launching' = launching \cup {[id |-> d, spec |-> spec, by |-> by]}
  /\ UNCHANGED <<running, stray, zombies, stopping>>

\* The thread gets to the launch.  `docker run --name` of a name in use, or
\* with its port taken, starts nothing and the exit status is not looked at.
\* A native server that cannot bind exits, but its pid replaces the old one.
Launch(l) ==
  LET free == CanBind(l.id, deploy_port(l.id, l.spec.port))
  IN
  /\ l \in launching
  /\ launching' = launching \ {l}
  /\ UNCHANGED <<specs, stopping>>
  /\ \/ /\ Runtime = "docker"
        /\ running' = IF ~IsRunning(l.id) /\ free
                        THEN [running EXCEPT ![l.id] = l.spec] ELSE running
        /\ UNCHANGED <<stray, zombies>>
     \/ /\ Runtime # "docker"
        /\ running' = [running EXCEPT ![l.id] = IF free THEN l.spec ELSE NoSpec]
        /\ stray' = IF IsRunning(l.id)
                      THEN stray \cup {[id |-> l.id, spec |-> running[l.id]]}
                      ELSE stray
        /\ zombies' = IF Runtime = "vllm" /\ ~free THEN Reaped(l.id) \cup {l.id}
                      ELSE Reaped(l.id)

\* A TransportError (no such model, failed download, no Docker) ends the
\* thread; _deploy_job swallows it.
LaunchFails(l) ==
  /\ l \in launching
  /\ launching' = launching \ {l}
  /\ UNCHANGED <<running, stray, zombies, stopping, specs>>

\* POST /deploys/{id}/stop, as sent by a DELETE handler.
stop_deploy(d, by) ==
  /\ stopping' = stopping \cup {[id |-> d, by |-> by, next |-> "kill"]}
  /\ UNCHANGED <<running, stray, zombies, launching, specs>>

Stopping(by) == \E s \in stopping : s.by = by

\* executor.stop and executor_llama.stop (a removal that Docker carries out
\* after the agent gave up waiting is a ModelDies) ...
stop_kill(s) ==
  /\ s \in stopping /\ s.next = "kill"
  /\ \/ running' = [running EXCEPT ![s.id] = NoSpec]
     \/ DockerSlow /\ UNCHANGED running
  /\ zombies' = Reaped(s.id)
  /\ stopping' = (stopping \ {s}) \cup {[s EXCEPT !.next = "forget"]}
  /\ UNCHANGED <<stray, launching, specs>>

\* ... then SPECS.pop and _forget_spec.
stop_forget(s) ==
  /\ s \in stopping /\ s.next = "forget"
  /\ specs' = [specs EXCEPT ![s.id] = NoSpec]
  /\ stopping' = stopping \ {s}
  /\ UNCHANGED <<running, stray, zombies, launching>>

\* The request never gets to the agent.
stop_lost(s) ==
  /\ s \in stopping /\ s.next = "kill" /\ ~AgentAnswers
  /\ stopping' = stopping \ {s}
  /\ UNCHANGED <<running, stray, zombies, launching, specs>>

\* The model server exits by itself: out of memory, a crash, a kill.  It is
\* waited for by init when the agent that started it has restarted since.
ModelDies(d) ==
  /\ IsRunning(d)
  /\ running' = [running EXCEPT ![d] = NoSpec]
  /\ \/ UNCHANGED zombies
     \/ Runtime = "vllm" /\ zombies' = zombies \cup {d}
  /\ UNCHANGED <<stray, stopping, launching, specs>>

\* The agent starts a subprocess for some other reason: GET /capabilities, the
\* status of a deploy it has no process for.
Spawns(d) ==
  /\ zombies' = Reaped(d)
  /\ UNCHANGED <<running, stray, stopping, launching, specs>>

\* The agent process of one machine restarts.  Its start threads and the stops
\* it was carrying out are gone; the model servers are detached and the specs
\* come back from their files.
AgentRestart(remote) ==
  /\ AgentAnswers => \A s \in stopping : (s.id \in Remote) # remote
  /\ launching' = {l \in launching : (l.id \in Remote) # remote}
  /\ stopping' = {s \in stopping : (s.id \in Remote) # remote}
  /\ zombies' = {z \in zombies : (z \in Remote) # remote}
  /\ UNCHANGED <<running, stray, specs>>

AgentStep ==
  \/ \E l \in launching : Launch(l) \/ LaunchFails(l)
  \/ \E s \in stopping : stop_kill(s) \/ stop_forget(s) \/ stop_lost(s)
  \/ \E d \in DeployIds : ModelDies(d) \/ Spawns(d)
  \/ \E remote \in BOOLEAN : AgentRestart(remote)

AgentTypeOK ==
  /\ running \in [DeployIds -> DeploySpec]
  /\ stray \subseteq [id : DeployIds, spec : DeploySpec]
  /\ zombies \subseteq DeployIds
  /\ stopping \subseteq [id : DeployIds, by : Senders, next : {"kill", "forget"}]
  /\ launching \subseteq [id : DeployIds, spec : DeploySpec, by : Senders]
  /\ specs \in [DeployIds -> DeploySpec]
=============================================================================
