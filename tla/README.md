# SursumAI in TLA+

SursumAI runs language models on one's own machines. A *central* (`central/`)
keeps users, deploys, pools and conversations in SQLite and serves the API; an
*agent* (`agent/`) on each machine starts and stops the model servers; a small
web server and a page show it all. This directory holds TLA+ models of the
parts whose correctness depends on order (what is read before an await and
written after it, what a thread does after its caller gave up, what a crash
leaves behind), TLC runs over small instances, and TLAPS proofs for every
instance.

Each module says at its head which code it is about; `PROJECT.json` maps every
definition to lines, lists runs, mutants, findings, hazards and theorems.

## 1. Inventory

| Component | State | Operations | Talks to |
|---|---|---|---|
| Port allocation (`core/ports.py`, `db.allocate_port`) | ports in the deploys table | lowest free port, hashed port of old deploys | create, redeploy |
| Deploys table (`central/db.py`) | rows: status, spec, port, endpoint | create, update (an upsert), delete, UNIQUE port index | all of the central |
| Deploy lifecycle (`central/app.py`) | asyncio tasks, the reconcile pass | create, redeploy, destroy, deploy job, reconcile loop and startup pass | table, agent |
| Agent and runtimes (`agent/app.py`, `executor*.py`) | processes, containers, pid files, SPECS and their files | preflight, start, status, stop, logs | central (HTTP), model servers |
| Download lock (`executor_llama.py`) | a lock file in each model folder | take, wait, break, release | launch threads of an agent |
| Router (`central/router.py`, chat endpoint) | `router_sessions` rows, turns in threads, judge threads | a turn in five modes, background verdict | table, model servers |
| Pools (`central/app.py`) | `pools`, `pool_models` | create, update, delete, member check | router |
| Users, sessions, API keys (`central/auth.py`) | rows of users, sessions, keys | register, login, logout, create and revoke a key | every handler |
| Metrics (`core/metrics.py`) | history per deploy | scrape loop, rates, pruning, clear | table, agent |
| Account (`core/account.py`) | a token and a signed answer in one file | connect, refresh, disconnect | SursumAI's service |
| Pro module (`core/promodule.py`) | a module directory, a staging directory, the import cache | update, install, load | SursumAI's service, account |
| Runtime installation (`agent/runtimes.py`) | marker file, virtualenv, log | install, report | agent |
| Agent key (`core/keys.py`) | a key file | load or create | central, agent |
| Settings, model resolution, command lines | none | checks and text | agent |
| Web proxy, page, CLI, installers | page state; pid files | forward, poll, stream; start, stop, update | central |

What is hard in it:

* **Stale copies.** The store hands out `Deploy` and `RouterSession` objects;
  handlers, jobs, the reconcile thread and routing threads hold them across
  awaits and calls of minutes and then write whole rows back, with an upsert
  that inserts what is gone.
* **Detached work.** The agent answers 202 and starts the model from a thread;
  a timed-out caller does not stop it. A judge outlives its turn.
* **Crashes.** The central's tasks are in memory only; rows, processes, pid
  files, lock files and markers stay.
* **Answers that do not come, or not whole.** Every call to an agent or a model
  has a time limit, after which the caller knows nothing. `_request` makes an
  `AgentError` of HTTP errors and OSErrors; an answer cut short or no JSON raises
  something else, which passes the callers' handlers.
* **Limits.** A hundred ports; one row per session id; one lock file per folder.

What makes each component correct:

* Ports: no two deploys with one port; a deploy keeps its port for life.
* Lifecycle: a working status ends; healthy means served; destroyed is gone,
  row and process; settings are not undone.
* Agent: a stop stops; status tells the truth; what is served at a deploy's
  address is its own model.
* Download lock: one thread in a folder; a crash does not block it for ever.
* Router: verdicts count once; the latch holds until an hour of silence;
  every turn ends; round_robin takes turns; the dead are skipped.
* Pools: a pool has the models it was last given; a refused one leaves nothing;
  a name means one thing; a turn never sees a mixture of two lists.
* Sessions and keys: nothing revoked or expired is accepted.
* Metrics: no negative or invented throughput; bounded history; no rows without a
  deploy; one silent agent does not stop the others' samples.
* Account: signed out stays signed out; an outage takes nothing away; a refund
  ends what was paid for.
* Pro module: the newest version arrives, whole, whatever failed on the way; the
  app runs one version and says when it is not the one on disk.
* Runtimes: an installation is whole or absent; one at a time.

## 2. Modules

```
PortRegistry  <--implements--  DeployLifecycle            MCDeployLifecycle
                                |          |              DeployLifecycle_proofs
                            DeployStore  Agent            DeployCalm_proofs
                                 \        /
                                 SpecRecord
                                     |
                                   Ports
Latch         <--implements--  Router                     MCRouter, Router_proofs
                               DownloadLock               MCDownloadLock
                                                          DownloadLock_proofs
                               Pools                      MCPools, Pools_proofs
                               Metrics                    MCMetrics, Metrics_proofs
                               ProModule -- Account       MCProModule
                                                          ProModule_proofs
```

### Ports, SpecRecord, DeployStore, PortRegistry

`Ports` has `first_free`, `deploy_port` and the hash, which is any function
into the range. `SpecRecord` reduces a spec to its port and to `gen`, the
edition of the user's settings. `DeployStore` is the table: `upsert` is what
both `create` and `update` end in, `Conflicts` is the UNIQUE index.
`PortRegistry` is abstract: a port has one holder and is taken only when free.

### Agent

`running` is the server a pid file or container name leads to, `stray` the
servers nothing leads to any more (a second native start overwrites the pid),
`zombies` the dead vLLM children that `os.kill(pid, 0)` still finds.
`launching` are accepted starts, `stopping` stop requests, each in two steps
(kill, then forget the spec) because the code awaits in between. A request is
carried out even if its sender no longer waits. `CanBind` is the kernel's part:
which port a server can have; `PortFree` is the code's look at it before a start.
Docker may be slow (`DockerSlow`): a status then says "not running" (`SeemsDead`)
and a stop answers "stopped" with the container still there.

### DeployLifecycle

One action per piece of code between two awaits. A task slot is a deploy job
or a DELETE handler: `pc` is the await it is at and `obj` the `Deploy` object
it will still use. `todo` and `hit` are the reconcile pass: the rows of its
list it has not visited, and the one whose model it was just told is dead.
`mode` tells the startup pass from normal service.

| Action | Code |
|---|---|
| `create_deploy`, `redeploy`, `destroy_deploy`, `DestroyEnd` | the handlers up to the await, and after it |
| `JobBegin` ... `JobWrite` | `_deploy_job` and `_wait_healthy`, one per await; `...Lost` is the call that fails or times out |
| `ScanBegin`, `ScanAnswered`, `ScanUnanswered`, `ScanWrite` | `_reconcile_loop`, `_reconcile_stale` |
| `JobRaises`, `ScanRaises`, a `DestroyEnd` that keeps the row | an answer whose exception no `except AgentError` knows (`Garbles`): the job, the pass, the handler ends there |
| `CentralRestart`, `StartupDone` | process end, `lifespan` |
| `AgentStep` | the agent's own threads, deaths and restarts |

### Router, Latch

A turn slot is one request together with the judge thread it may leave. The
chat endpoint reads, renews and touches the session with no await in between,
so `Message` is one action; from then on the turn works with its own copy
(`turn[t].session`). Each call of a model ends an action: `Route...` up to the
first call, `WeakAnswers`, `Escalate` (the judge's verdict in the foreground,
and the save of the copy), `StrongAnswers`, `Served`, `Verdict` (the background
judge's UPDATE). `JudgeRaises` is a judge whose answer breaks off: in the
foreground the turn ends with nothing saved, in the background the exception is
dropped; `CentralRestart` ends requests and judges where they are. The ladder is
read from the rows at `Route...`; a member may die before it is called. A ladder
is the set of the places its members have in the pool (`Candidates`), and
`Ladder(p, n)` the model with n weaker ones. `Latch` is the promise: each verdict
counts once, two strikes in a row pin, only an hour's silence unpins; a verdict
may be lost (`Lose`), and then nothing counts and nothing is cleared. It is
refined with `Asked` (turns at the judge), `Strikes` and `Pinned` (the columns of
the session rows).

### DownloadLock

`lock` and `age` are the file and its mtime, `worker` the place of each launch
thread between two system calls. Time is counted in naps of the waiting loop.

### Pools

One user's pools. A handler does not await, but it makes several statements and
commits on the one SQLite connection (`check_same_thread=False`) that routing
threads read from and the reconcile thread commits on. So `pools` and `members`
are what the connection sees, `disk` what was committed, by whoever; `edit` is
the handler between two statements.

| Action | Code |
|---|---|
| `create_pool`, `update_pool` | the checks, and the row with its commit |
| `Clear`, `Fill`, `Filled` | `replace_pool_models`: DELETE, one INSERT per model, commit |
| `Accepted`, `CreateRefused`, `UpdateRefused` | `_check_pool_members`; create takes the pool back, update does not |
| `destroy_pool` or `CreateRefused`, `Drop`, `Dropped` | `delete_pool`: the DELETE of the row, the DELETE of its models, the commit |
| `DeathNoted`, `DeployChanges` | the reconcile thread at any time, other handlers between these |
| `Ask`, `get_pool_models`, `TurnEnds` | a request: the target and the row on the event loop, the ladder in the thread |
| `Crash` | back to `disk`, and the backfill of the next start |

`Resolve` is `_resolve_target`: "router" or "auto", an id, a pool's name, a
model's name.
`meant`, `cut` and `refused` are kept for the properties only.

### Metrics

The loop lists the deploys once and then awaits one agent after the other;
`taken` is a sample between the agent's answer and `save_metrics`. `total` is
the counter, zero again with each process of the model; `made` is what was
really generated and exists for `SparkIsReal` alone. The clock may go back. `Crash`
ends a pass anywhere, between the two commits of `save_metrics` too.
The curve (`spark`) is the set of its neighbouring samples.

### Account, ProModule

`Account` has the file's contents and what the service knows of each token; a
signed answer carries the days it has left, so no clock is needed. `ProModule`
adds the two directories, `sys.modules` and the threads: `Boot` (the start),
`Loop` (`_account_loop`), `Requests` (`POST /meta/account`).

| Action | Code |
|---|---|
| `Start`, `Stop`, `Dies` | `lifespan`, an orderly or a sudden end |
| `meta_account_connect`, `Wake`, `Answered`, `Unanswered` | `connect`, `refresh` around their call |
| `Open`, `Flush` | `_write`: the file is emptied, then filled |
| `meta_account_disconnect` | unlink |
| `update`, `FetchNew`, `UpToDate`, `FetchFails`, `FetchCut` | `update`, `_fetch` and its endings |
| `Stage`, `Unpack`, `Describe`, `Remove`, `Rename` | `install`, one change of a directory each; `InstallBreaks` is one that fails |
| `_forget_import`, `Load`, `Register` | the import cache, `load` |
| `Day`, `Publish`, `ServiceStep`, `Settle` | time and the service |

## 3. Runs

"pass" runs check what holds. "violation" runs show where the code does not do
what the repository says; each is a finding, and its property stands next to
the sentence it states.

| Run | Instance | Shows |
|---|---|---|
| `deploy_two` | 2 deploys, one remote, 1 port, 2 overlapping slots, calls may fail or raise anything | `PortsUnique`, implements `PortRegistry`, with every port taken too |
| `deploy_calm` | 3 vLLM deploys, one legacy, 2 ports, user waits for each operation, restarts, deaths | `TypeOK`, `ChatsReachOwn`, `NoLeak`, `EndpointIsOwn` |
| `deploy_live` | 1 deploy, fairness, overlapping, unanswered calls | `OnePortPerDeploy`, `GoneStaysGone`, `TransientEnds`, `DeadIsReported` |
| `deploy_ghost` | 1 deploy | `DestroyRemoves` fails: a job's last save inserts a deleted row |
| `deploy_wedged` | 1 deploy, garbled answers, fairness | `ProvisioningEnds` fails: the job dies of an answer and the row is provisioning for ever |
| `router_calm` | escalation and advisor pools, 2 conversations, 2 turns, mortal strong model, judges that break off, restarts | implements `Latch`, `StrongIsPinned` |
| `router_ends` | all five modes, 3 models, one session id on all pools, mortal members and judge, answers that break off, restarts, fairness | `TypeOK`, `TurnEnds` |
| `download` | 3 threads, short downloads, 1 crash, fairness | `TypeOK`, `OneHolderUntilCrash`, `LeftLockIsBroken`, `WaitEnds` |
| `pools` | 2 pools, 3 deploys of 2 models, a mortal one, lists of 2 and 3, a routing thread, 1 crash | `TypeOK`, `NamesApart`, `StoredAsMeant`, `LadderIsPrefix`, `RefusedIsGone` |
| `metrics` | 2 deploys, clock set back, counters restarting, 1 crash, fairness | `TypeOK`, `SparkIsReal`, `OneOrphan`, `PassEnds` |
| `pro` | 1 account, 2 versions, one piece of work at a time, crashes anywhere, fairness | `TypeOK`, `HalfIsReplaced`, `RunsInstalled`, `KeepsPro`, `RefundEnds`, `PublishedArrives` |
| `pro_signs_in` | the same, overlapping | `DisconnectLasts` fails: the daily check writes back what it read before a sign-out |

Every property of a pass run has a mutant in `PROJECT.json`: a variant of one
definition, the way a plausible bug would have it, under which that run fails.

### Other divergences in the models

These have no run of their own. Unless it says otherwise, each follows from the
actions of a module.

Deploys, router, downloads:

* A row that is provisioning when the central restarts stays so if the agent is
  silent at that moment: the startup pass skips it, the loop only looks at
  healthy rows, and the cap that `central/app.py:457` describes ("so a wedged
  deploy is not provisioning forever") lives in the lost job (`ScanUnanswered`;
  `central/app.py:618`; reached with `MaxRestarts` 1 under `FairSpec`).
* What `deploy_wedged` shows of a job in its wait also happens at its other calls:
  the row stays checking, provisioning, or, when the stop of a DELETE raises,
  destroying (`JobRaises`, `DestroyEnd`; `central/app.py:491`, `:547`, `:554`,
  `:1044`). `TransientEnds` is checked without such answers.
* A pass over a legacy row that was redeployed meanwhile takes the new port from
  the row (it saves the port it listed, none), the redeploy's job starts the
  model at its hashed port, and a new deploy may have been given that one: its
  chats reach the other's server (`ScanWrite`; `central/app.py:630`,
  `central/db.py:514`). `ChatsReachOwn` is stated for allocated ports.
* A judge whose answer breaks off ends an escalation turn in a 502 with nothing
  saved, although the weak model's reply is there (`JudgeRaises`;
  `central/router.py:161`); in the background its verdict is lost
  (`central/router.py:251`), so a run of bad replies may pin later than promised.
* Models nothing leads to: with overlapping work a start is launched after the
  stop of a DELETE, or two native starts both find the port free and the second
  overwrites the pid file; and a stop that gets lost, or a Docker removal that
  takes too long, is answered like one that worked (`Launch`, `stop_lost`,
  `stop_kill`; `agent/app.py:336`, `agent/executor.py:147`, `:405`,
  `central/app.py:1044`). `NoLeak` is checked and proved for users who let
  operations settle and for agents that answer.
* With overlapping work a stop may forget the spec of the start after it, and the
  agent reports the hashed port (`stop_forget`; `agent/app.py:449`).
* A status that Docker answers too late says "not running", so the pass marks a
  healthy deploy as failed (`SeemsDead`; `agent/executor.py:370`).
* Two overlapping turns of one conversation save whole copies of the session, so
  the later one may restore `latched` = 0 after the other latched, against
  README.md:280 of the repository (`Saved`; `central/router.py:240`; reached with
  `Together` TRUE).
* After a crash two waiters may both find the lock old; the second one breaks
  the first one's fresh lock and both hold the folder, against "make anyone else
  wait" (`Look`, `Break`; `agent/executor_llama.py:611`; `OneHolder` with one crash).
* The reconcile pass saves the whole row it listed, so a redeploy accepted
  meanwhile is overwritten with the old settings (`ScanWrite`;
  `central/app.py:630`).
* A redeploy leaves the old runtime alone, so its preflight finds the deploy's
  own model on the port and says that something outside SursumAI listens there
  (`JobPreflight`; `agent/app.py:304`).
* A legacy row that gets its first port frees its hashed one in the table while
  the old runtime still listens there; the next deploy may be given that port
  (`PortFor`, `taken_ports`; `central/db.py:514`).
* So the first redeploy of a native legacy deploy finds its new port free and
  starts a second server; the pid file of the first is overwritten, and nothing
  stops that one any more, a later DELETE included (`Launch`;
  `agent/executor.py:147`, `agent/executor_llama.py:820`). `NoLeak` asks nothing
  of strays of legacy deploys.
* A vLLM server that died is a zombie of its agent, which `os.kill(pid, 0)`
  still finds, so its card stays healthy until the agent starts any subprocess
  (`SeemsRunning`; `agent/executor.py:133`). `DeadIsReported` is checked for
  containers.
* Pending, checking and destroying rows left by a crash are in no reconcile
  set (`Listed`; `central/app.py:605`).
* One session id used with two pools shares one row: a message to the second
  pool wipes what the first one knows (`Saved`; `central/app.py:1443`).
* A latched conversation of an advisor pool that does not stream still asks the
  weak model first (`RouteAdvisor`; `central/router.py:262`).
* A failed deploy keeps its endpoint, so it stays in the ladder and turns sent
  to it end in a 502 (`Listed`; `central/router.py:318`).
* Overlapping messages of a round_robin conversation go to the same model
  (`RouteRoundRobin`; `central/router.py:304`).
* A download longer than DOWNLOAD_WAIT has its lock broken (`Slow`), and a lock
  released between the failed open and the stat fails the waiter (`Look`;
  `agent/executor_llama.py:610`).

Pools and targets:

* A refused edit of a pool is not taken back: the client reads 422 and the pool
  has the new name and models, ready or not (`UpdateRefused`;
  `central/app.py:1138`).
* A crash inside `replace_pool_models` loses models. Before the commit, the next
  start finds no members and fills in the row's two, so a pool of four is a pool
  of two (against `tests/test_central_api.py:278`); if the reconcile thread
  committed meanwhile, the first few stay, even one (`Crash`, `cut`).
* A turn that reads between the DELETE and the last INSERT may be refused for
  want of two models, or take the second model for the strong one
  (`get_pool_models`; `central/db.py:715`).
* `model="router"` is the newest pool (`Newest`; `central/app.py:1346` with
  `central/db.py:689`), not the "first" of README.md:243; a ladder takes any
  member with an endpoint (`central/router.py:318`), not a "healthy" one
  (README.md:223).
* Outside the models: the page edits a pool with PUT (`web/app.js:1809`), which
  `web/server.py:134` does not answer (501).

Metrics:

* A sample that was on its way when its deploy was deleted is saved after the
  delete, and nothing removes that row (`save_metrics`; `central/app.py:595`).
* When the clock is set back the newest samples sort below the old ones: pruning
  drops them first, and the curve, which takes the order of the times for the
  order of the counts, may show tokens nobody generated. `SparkIsReal` leaves
  these pairs out.
* Outside the models: `store.list()` stands before the `try`, so an error of
  SQLite ends the loop for good (`central/app.py:587`); `derive` is only called
  without a previous sample, so `_rate` never runs (`central/app.py:567`).

Account and Pro module:

* A connection cut inside the module's body raises an `IncompleteRead`, which
  `_fetch` does not turn into a `ProModuleError`: `update` does not swallow it
  ("Quiet on failure", `core/promodule.py:150`) and the start of the dashboard
  fails (`FetchCut`; `core/promodule.py:81`, `central/app.py:90`). So does a full
  disk (`InstallBreaks`).
* The account file is emptied before it is filled: a crash in between signs the
  machine out (`Open`; `core/account.py:118`).
* With `Overlap` two installations share `pro.new`: one removes what the other
  unpacks, and half a module may be moved into place under its full version
  (`Unpack`; `core/promodule.py:127`).
* `RESTART_NEEDED` is set and read by nobody: the user it should tell is told in
  the log only (`core/promodule.py:144`).

Runtime installation (no module):

* Two requests may both pass `installing()` before a thread makes the marker, so
  two installations write one environment, and the first to end removes the
  marker of both (`agent/app.py:225`).
* A crash of the agent leaves the marker, and every later request answers
  "installing" (`agent/runtimes.py:146`), although "the marker goes away when it
  ends, however it ends" (`agent/runtimes.py:133`).

### Bounds

* `DeployIds`, `PortRange`: one deploy for what concerns one row; two deploys and
  one port for ports changing hands, three and two for a legacy deploy next to
  new ones, so both runs also come to the point where every port is taken. The
  theorems hold for any number of both.
* `Senders`: two slots, the least that lets two jobs, or a job and a DELETE, of
  one deploy overlap. A third repeats a pair.
* `Gens`: two editions, that is one redeploy per run; `MaxRestarts`: one.
* `Overlap`: FALSE is a user who waits until an operation has settled;
  `AgentAnswers`: FALSE lets every call fail or time out; `Garbled`: TRUE lets a
  call raise something else than an `AgentError`; `Fragile` is the same of a judge,
  and lets the central restart.
* `Turns`: two requests at once, the least that race; one where the question is
  whether a turn ends, since turns never wait for each other. `MaxStreak`: strikes are
  only compared with `Confirmations`, so they stop there; in round_robin only
  the remainder matters, so the counter wraps at a multiple of every ladder
  length (5 + 1 for three models).
* `Lists` of `pools`: one of two and one of three models in another order, so that
  a prefix of one is no list of the other; two names, which are also the models'
  names, so that pools can shadow models. Two pools are the least that can
  collide. One routing thread: threads only read.
* `METRICS_KEEP` 2, `Limit` 1: the table prunes with the third sample and the
  curve takes its last two. `MaxClock` 2, `MaxTokens` 1 of two deploys; one crash.
* `Term` 2 days (the code: many), so that an answer can be fresh, old and gone;
  `MaxVersion` 2: one update. `Overlap` of ProModule: FALSE lets users and the
  timer wait for each other, TRUE is for `pro_signs_in`. `settled` is the moment
  from which nobody changes an account and nothing fails but the service: what
  must happen in the end is asked from then on.
* `Limit` of DownloadLock: `DOWNLOAD_WAIT` is two naps (720 in the code): waiters arrive
  before, during and at the end of it. `MaxCrashes`: one.

No pass run stops early. The deploy runs and `pools` say `CHECK_DEADLOCK FALSE`:
with all ids used and all rows gone the system has nothing left to do.
Everywhere else deadlock is checked.

### Fairness

* `DeployLifecycle!FairSpec`: asyncio runs ready tasks, and every call to an
  agent has a time limit, so a job, a DELETE and a pass go on (weak fairness
  per task). An agent asked again every ten seconds is assumed to answer some
  day (strong fairness of `ScanAnswered`); nothing is assumed about the user,
  deaths or restarts.
* `Router!FairSpec`: weak fairness of each turn. A call ends by an answer or by
  its time limit (`CHAT_TIMEOUT`, `JUDGE_TIMEOUT`).
* `DownloadLock!FairSpec`: weak fairness of each thread and strong fairness of
  `Nap`: time passes however the threads take turns. The run has no slow
  downloads. With them a waiter that breaks a lock does not count that hour, so
  `waited` bounds nothing while others keep getting in first.
* `Metrics!FairSpec`: weak fairness of the loop, whose calls end by an answer or
  by their time limit. Nothing is assumed about answers.
* `ProModule!FairSpec`: weak fairness of the threads (calls have time limits), of
  `Wake` (a timer) and of `Start` (somebody starts a dashboard that is down);
  strong fairness of `Day`, since days pass however threads take turns. Nothing
  is assumed about the user or the service.

## 4. Proofs

Nothing but the named assumptions on the constants is assumed.

`DeployLifecycle_proofs`, for any sets of deploys, ports, tasks and editions:

* `TypeCorrect`: `TypeOK` is inductive as it stands.
* `PortsStayUnique`, `PortIsKept`: `PortsUnique` and `OnePortPerDeploy` are not
  inductive. Stale objects are the difficulty: to know that a save does not
  change a port one must know that the object in hand carries the port of the
  row, also when the row was deleted since. `PortInv` says so: an id never
  minted is in nobody's hands (`UnusedUnknown`), all copies of a deploy agree
  on one allocated port (`CopiesAgree`), what is about to be saved was read
  from a row (`SavesRows`), no row means no port (`NoRowNoPort`), and
  `PortsUnique`. Lemmas say what a step may do to the rows (`RowStep`) and
  that the jobs and the pass only carry copies that were there (`TaskCarries`,
  `TodoCarries`).
* `ImplementsRegistry`: with `PortInv`, each step is `Take`, `Free` or a stutter
  of `PortRegistry`.
* `DestroyedForGood`: the action property `GoneStaysGone`.

`DownloadLock_proofs`, for any number of threads and any limit:

* `LockTypeCorrect`.
* `QuickIsExclusive`: without slow downloads `OneHolderUntilCrash` holds. The
  invariant `HeldInv`: until the crash the lock is there exactly while someone
  holds the folder, it is younger than the limit, and so nobody is about to
  break it. Both conditions are needed: a crash, or a slow download, breaks
  `OneHolder` by itself.
* `LeftLockGoes`: with crashes and slow downloads, `LeftLockIsBroken`. The
  invariant `LeftInv`: a lock nobody holds is as old as any wait for it.

`Pools_proofs`, for any deploys, pools, names, lists, threads and crashes:

* `PoolsTypeCorrect`: `TypeOK`, from `TypeInv`, which adds what an edit and a
  turn carry.
* `NamesStayApart`: `Unique` of the rows the connection sees and of those on
  disk; a crash makes the second the first.
* `RefusedStaysGone`: refused ids are minted, nowhere in either copy, and not
  being edited (`RefusedInv`); otherwise a commit or the next start's backfill
  could bring one back.
* `PoolsAreStoredAsMeant`: `MeantInv` relates the two copies while an edit is
  half done. The disk differs from the connection in the members of the pool
  being filled and in nothing else; the members of any pool are none, or the
  beginning of a list it was given; the row's two ends begin one too, so the
  backfill of an empty pool is right as well.
* `LaddersArePrefixes`: on top of it, a turn knows every list that its pool may
  have (`LadderInv`), so a thread that finds some members, or falls back on the
  row it holds, has the beginning of one.

These rest on lemmas about beginnings of lists (`PrefixGrows`, `PrefixWhole`) and
on what a list of distinct deploys gives a row (`EndsDiffer`, `EndsBegin`).

`DeployCalm_proofs` is about users who let every operation of a deploy settle
(`~Overlap`). `AloneInv` says what they get: a deploy has one task at most and
its row for as long, and a stop is only under way while its DELETE waits, or
after it gave up. From it:

* `EndpointsAreOwn`: `EndpointIsOwn`, also when calls are lost. `EndInv` adds
  that from the start to the last question for the address, the agent remembers
  the port of the row; this is where a stop under way would make it forget.
* `NothingLeaks`: `NoLeak`, for agents that answer. `LeakInv` adds what a DELETE
  relies on: whatever may still start, run or stop a model has a row; a deploy
  has one launch at most, and none together with a stop; a job about to start
  finds no model, since preflight asked for the port and all models of a deploy
  are on the row's port; and while a DELETE waits its stop is still to come, or
  the model is gone. Most steps only make a deploy quieter (`Quieter`,
  `QuieterIsSafe`). Without `AgentAnswers` a lost stop, and without `~Overlap` a
  launch that comes after it, do leak.
* `ChatsReachTheirOwn`: `ChatsReachOwn`, for agents that answer. By `LeakInv` all
  models of a deploy are on the port of its row and none runs without a row, by
  `EndInv` the
  address in a row is its port, and by `PortsUnique` no two rows share one.
* `GhostsNeedAPass`: for such users the ghosts of `deploy_ghost` are gone but for
  rows the reconcile pass has listed (`OnlyAPassRevives`).

`Router_proofs`, for any models, pools, conversations, and any finite number of
turns:

* `RouterTypeCorrect`: `TypeOK`, with clients that overlap and share ids.
* `StrongStaysPinned`: `StrongIsPinned` for clients that wait for their answers
  and keep to one pool. `PinInv`: one turn of a conversation routes at a time, in
  the pool of the row; until its verdict the copy it works with is the row (in an
  advisor pool late judges may have written since, but there the turn does not
  save its copy); and where a turn was told "latched", the row is.
* `KeepsThePromise`: with this invariant each step is one of `Latch`: a verdict
  counts at most once, and exactly once without `Fragile`, when `Latch` has no
  `Lose`. A turn or judge that ends without its verdict is `Lose`, and the proof
  is that no column has changed then. The
  hypotheses are those of the run: patient clients, and no round_robin pool,
  which counts its rotation in the column of the strikes. Otherwise stale copies
  break `Latch` as section 3 tells.

`Metrics_proofs`, for any deploys, limits and clocks:

* `MetricsTypeCorrect`: `TypeOK`; it takes that a sample on its way has a time
  no row has. A crash adds one sample at most, the next prune makes up for it.
* `OrphansAreFew`: `OneOrphan`. `OrphanInv`: the loop holds one sample, of a
  deploy it has not listed any more, and a deploy with an orphan is not on its
  list, so no second sample comes.
* `CurveIsReal`: `SparkIsReal`. `CurveInv`: two samples of a deploy, the one on
  its way included, never differ more in the counter than in what was generated
  between them; pruning only takes samples away.

`ProModule_proofs`, for any tokens, versions, requests and terms:

* `ProTypeCorrect`: `TypeOK`, with everything overlapping.
* The others take that signing in and out wait for other work (`~Overlap`, as in
  run `pro`): then one thread works at a time (`Alone`), through crashes at any
  step. `HalvesReplaced` (`HalfIsReplaced`; `DiskInv` follows the two
  directories through an installation), `RunsWhatIsInstalled` (`RunsInstalled`;
  `MemInv` relates what is imported, what is served and what is on disk),
  `ProIsKept` (`KeepsPro`; `KeepInv`: what a thread is about to write is a good
  answer or the record that was there, with the warning).

Only model-checked: all liveness (`TransientEnds`, `DeadIsReported`, `TurnEnds`,
`WaitEnds`, `PassEnds`, `RefundEnds`, `PublishedArrives`): fairness and ENABLED
are out of the prover's reach. Every invariant and every action property of the
pass runs is a theorem.

## 5. Abstractions

* Clocks of the deploy job are dropped: `_wait_healthy` may give up at any poll.
* One table write is one action, although an upsert and its commit are two
  calls: they run on one connection with no await between them. A redeploy's
  `allocate_port` and `update` are likewise one action; the index decides when
  another thread gets in between, as it does for a create.
* A start that reaches the agent after its caller gave up is in the model (the
  caller may give up with the start accepted); one that reaches it *much* later,
  after a following DELETE, is not: the HTTP client closes the connection.
* One machine besides the local one. The tunnel to it belongs to the Pro module,
  whose code is not here.
* A conversation of a pool is renewed after an hour of silence only when no turn
  of it is on its way: the calls' limits (15 and 2 minutes) keep it so.
* The ladder is read in one step; the code reads member rows one by one.
* `store.delete` is one step in DeployLifecycle and Metrics although it is two
  DELETEs: a crash between them, after another thread's commit of the first,
  would leave the samples of a row that is gone. (The two DELETEs of `delete_pool`
  are two steps of Pools.)
* Prompts, replies, keyword rules and JSON verdicts are what they decide. A
  verdict that cannot be read accepts, as the code has it.
* `hf_hub_download`, Docker, llama.cpp and vLLM are external: they work or fail;
  Docker may also be too slow for its caller. The kernel gives a port to one
  server at a time (`CanBind`), which is assumed and not shown.
* A pass of the startup that dies of a garbled answer ends the start; in the model
  it does not go on until the next `CentralRestart`.
* Router takes its pools as given and reads a ladder in one step; what edits do to
  a ladder that is being read is in Pools, which in turn leaves out what a turn
  does with it.
* One user's pools: every query is by user, and users share no row. A handler of
  the pools does not await, so handlers and new requests come before or after it.
* Metrics has one counter of the dozen a sample holds; the others are shown as
  they are. Agents answer what the model's process says, or not at all.
* In ProModule signatures are right or the answer counts as unanswered, the
  plans are paid or free, and the service's accounts are only what it would sign.
  A day is longer than any work that waits for nobody. An archive is whole when
  its signature is.

Not modelled, and why:

* Users, sessions and keys: single statements on rows that every request reads
  again; planned.
* Runtime installation: one thread and one marker file; its two hazards are told
  in section 3 and would be the whole of a module.
* `_chat_with_deploy` and the other endpoints that forward one call and keep no
  state. `promodule.remove`: nothing calls it.
* Agent key: read, or made once, at the start.
* The proxy and the page: bytes and layout; the page's stream is planned.

## 6. Plan

In order, most important first:

1. `Access`: sessions and keys with expiry and revocation.
2. `Playground`: the page's stream and polling against the proxy's endings.

Not planned: signature arithmetic, settings checks, model fit and command lines
(no state, covered by tests), shell installers (pure I/O).
