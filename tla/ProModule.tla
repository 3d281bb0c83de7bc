----------------------------- MODULE ProModule -----------------------------
(***************************************************************************)
(* How Pro gets on and off this machine: the account (Account), the        *)
(* downloaded package on disk and in the running process                   *)
(* (core/promodule.py), and the central's threads that work on them        *)
(* (central/app.py): the start, the check every six hours, and the         *)
(* requests that paste a token.                                            *)
(*                                                                         *)
(* Every call to the service, every change of a file or a directory and    *)
(* every change of the process is one step; anything may happen between.   *)
(***************************************************************************)
EXTENDS Account, FiniteSets

CONSTANTS
  Boot,          \* the start of the dashboard (lifespan)
  Loop,          \* _account_loop
  Requests,      \* POST /meta/account requests in flight at most
  MaxVersion,    \* bound: versions of the module sursum.ai publishes
  Overlap        \* TRUE: signing in or out may overlap with other work

ASSUME ProModuleAssumption ==
  /\ Boot # Loop /\ {Boot, Loop} \cap Requests = {}
  /\ MaxVersion \in Nat \ {0}
  /\ Overlap \in BOOLEAN

VARIABLES
  latest,         \* the service: the newest version of the module
  module,         \* PRO_DIR
  staging,        \* pro.new
  stager,         \* the thread whose mkdir made staging
  mem,            \* sys.modules: the package, and its flag _sursumai_loaded
  served,         \* versions whose routes the running app got
  RESTART_NEEDED,
  mode,           \* the dashboard: "off", "boot" or "up"
  thread,
  settled         \* "no", or how the service is from now on: "up" or "down"

diskVars == <<module, staging, stager>>
serviceVars == <<plan, valid, latest, settled>>
processVars == <<mem, served, RESTART_NEEDED, mode>>
vars == <<stored, serviceVars, diskVars, processVars, thread>>

Threads == {Boot, Loop} \cup Requests
Versions == 1..MaxVersion
None == 0     \* no version

\* A package directory: the code in it, the version module.json tells, and
\* whether every file is there.
Dir == [code : Versions \cup {None}, meta : Versions \cup {None}, whole : BOOLEAN]
NoDir == [code |-> None, meta |-> None, whole |-> FALSE]
NoModule == [code |-> None, loaded |-> FALSE]

\* What each thread does next.  ask, install: a call to the service is out.
Steps == {"ask", "open", "flush", "update", "install", "stage", "unpack", "describe",
          "remove", "rename", "forget", "load", "register"}

\* rec: the record read, or to be written; linked: the file it has open still
\* has its name; ver: the version it installs or registers.
Working == [pc : Steps, rec : Record, linked : BOOLEAN, ver : Versions \cup {None}]
Resting == [pc |-> "idle", rec |-> Nothing, linked |-> TRUE, ver |-> None]

At(t, pc) == thread[t].pc = pc
Idle(t) == At(t, "idle")
Goes(t, pc) == thread' = [thread EXCEPT ![t] = [Resting EXCEPT !.pc = pc]]
GoesWith(t, pc, rec) ==
  thread' = [thread EXCEPT ![t] = [Resting EXCEPT !.pc = pc, !.rec = rec]]
Installs(t, pc, v) ==
  thread' = [thread EXCEPT ![t] = [Resting EXCEPT !.pc = pc, !.ver = v]]

\* Without Overlap the user, and the timer, wait for each other.
MayStart == Overlap \/ \A t \in Threads : Idle(t)

Init ==
  /\ AccountInit
  /\ latest = 1
  /\ module = NoDir /\ staging = NoDir /\ stager = Boot
  /\ mem = NoModule /\ served = {} /\ RESTART_NEEDED = FALSE
  /\ mode = "off"
  /\ thread = [t \in Threads |-> Resting]
  /\ settled = "no"

-----------------------------------------------------------------------------
(* The process. *)

\* The process ends: an orderly stop, a crash, or a start that raised.
Dies ==
  /\ mode' = "off"
  /\ mem' = NoModule /\ served' = {} /\ RESTART_NEEDED' = FALSE
  /\ thread' = [t \in Threads |-> Resting]

Stop ==
  /\ mode # "off" /\ settled = "no"
  /\ Dies
  /\ UNCHANGED <<stored, serviceVars, diskVars>>

\* lifespan: promodule.update, then _load_pro.
Start ==
  /\ mode = "off"
  /\ mode' = "boot"
  /\ Goes(Boot, "update")
  /\ UNCHANGED <<stored, serviceVars, diskVars, mem, served, RESTART_NEEDED>>

\* The thread's work is over; the start opens the dashboard.
Ends(t) ==
  /\ Goes(t, "idle")
  /\ mode' = IF t = Boot THEN "up" ELSE mode

\* An exception nothing here expects: a request answers 500, the loop logs it,
\* the start of the dashboard fails.
Raises(t) ==
  IF t = Boot THEN Dies ELSE Goes(t, "idle") /\ UNCHANGED processVars

-----------------------------------------------------------------------------
(* The account: connect, refresh, disconnect. *)

\* POST /meta/account with a token, and connect up to _ask.
meta_account_connect(r, k) ==
  /\ mode = "up" /\ Idle(r) /\ MayStart
  /\ GoesWith(r, "ask", [Nothing EXCEPT !.token = k])
  /\ UNCHANGED <<stored, serviceVars, diskVars, processVars>>

\* _account_loop wakes: refresh reads the file and, once a day, asks.
Wake ==
  /\ mode = "up" /\ Idle(Loop) /\ MayStart
  /\ IF stored.token # NoToken /\ stored.due
       THEN GoesWith(Loop, "ask", stored)
       ELSE Goes(Loop, "update")
  /\ UNCHANGED <<stored, serviceVars, diskVars, processVars>>

\* The service answers.  A token it does not know ends a connect.
Answered(t) ==
  LET rec == thread[t].rec IN
  /\ At(t, "ask") /\ settled # "down"
  /\ IF rec.token \in valid THEN GoesWith(t, "open", Signed(rec.token))
     ELSE IF t = Loop THEN GoesWith(t, "open", Rejected(rec))
     ELSE Goes(t, "idle")

\* An outage, a 5xx, or an answer not signed by the service.  One cut short
\* raises past refresh, and the loop skips its update.
Unanswered(t) ==
  /\ At(t, "ask") /\ settled # "up"
  /\ \E pc \in IF t = Loop THEN {"update", "idle"} ELSE {"idle"} : Goes(t, pc)

\* _write: write_text empties the file when it opens it ...
Open(t) ==
  /\ At(t, "open")
  /\ stored' = Nothing
  /\ GoesWith(t, "flush", thread[t].rec)

AfterWrite(t, rec) ==
  IF t = Loop THEN "update" ELSE IF rec.plan = "pro" THEN "install" ELSE "idle"

\* ... and fills it.  Over what another thread wrote since, the longer text
\* leaves its tail and the file is damaged.  A file signed out of meanwhile
\* has no name any more: the text goes nowhere, and chmod may not find it.
Flush(t) ==
  LET rec == thread[t].rec IN
  /\ At(t, "flush")
  /\ IF thread[t].linked
       THEN /\ stored' \in {rec} \cup IF stored = Nothing THEN {} ELSE {Nothing}
            /\ Goes(t, AfterWrite(t, rec))
       ELSE /\ UNCHANGED stored
            /\ \E pc \in {AfterWrite(t, rec), "idle"} : Goes(t, pc)

\* DELETE /meta/account: disconnect unlinks the file.
meta_account_disconnect ==
  /\ mode = "up" /\ MayStart /\ settled = "no"
  /\ stored.token # NoToken \/ \E t \in Threads : At(t, "flush")
  /\ stored' = Nothing
  /\ thread' = [t \in Threads |->
                  IF At(t, "flush") THEN [thread[t] EXCEPT !.linked = FALSE] ELSE thread[t]]
  /\ UNCHANGED <<serviceVars, diskVars, processVars>>

-----------------------------------------------------------------------------
(* The module: update, install, load. *)

\* Mutant of update: the daily check leaves the module alone.
update_at_start(t) ==
  /\ At(t, "update")
  /\ Goes(t, IF t # Boot THEN "idle" ELSE IF is_pro THEN "install" ELSE "load")
  /\ UNCHANGED processVars

\* update: only for an account that has Pro.
update(t) ==
  /\ At(t, "update")
  /\ Goes(t, IF is_pro THEN "install" ELSE IF t = Boot THEN "load" ELSE "idle")
  /\ UNCHANGED processVars

Allowed == stored.token \in valid /\ plan[stored.token] = "pro"

\* The request names the version on disk; a newer one comes whole and signed.
FetchNew(t) ==
  /\ At(t, "install") /\ settled # "down"
  /\ Allowed /\ module.meta # latest
  /\ Installs(t, "stage", latest)

\* 304: nothing to do.
UpToDate(t) ==
  /\ At(t, "install") /\ settled # "down"
  /\ Allowed /\ module.meta = latest
  /\ Goes(t, IF t = Loop THEN "idle" ELSE "load")

\* A ProModuleError: signed out, refused, unreachable, or not signed.  update
\* swallows it, so the start goes on; a request answers with it.
FetchFails(t) ==
  /\ At(t, "install")
  /\ ~Allowed \/ settled # "up"
  /\ Goes(t, IF t = Boot THEN "load" ELSE "idle")

\* The connection breaks inside the body: IncompleteRead is none of the
\* exceptions _fetch turns into a ProModuleError.
FetchCut(t) ==
  /\ At(t, "install") /\ settled = "no"
  /\ Allowed /\ module.meta # latest
  /\ Raises(t)

Stage(t) ==
  /\ At(t, "stage")
  /\ staging' = NoDir /\ stager' = t /\ UNCHANGED module
  /\ Installs(t, "unpack", thread[t].ver)

\* extractall.  What another thread's rmtree took away meanwhile is missing.
Unpack(t) ==
  /\ At(t, "unpack")
  /\ staging' = [code |-> thread[t].ver, meta |-> None, whole |-> stager = t]
  /\ Installs(t, "describe", thread[t].ver)
  /\ UNCHANGED <<module, stager>>

\* Mutant of Describe: names the new version where the old module still is.
DescribeInPlace(t) ==
  /\ At(t, "describe")
  /\ module' = [module EXCEPT !.meta = thread[t].ver]
  /\ Installs(t, "remove", thread[t].ver)
  /\ UNCHANGED <<staging, stager>>

\* module.json, the last file of the new directory.
Describe(t) ==
  /\ At(t, "describe")
  /\ staging' = [staging EXCEPT !.meta = thread[t].ver]
  /\ Installs(t, "remove", thread[t].ver)
  /\ UNCHANGED <<module, stager>>

\* What rmtree may leave, when the process ends in the middle of it or when
\* it passes over a file it cannot remove.
Remains(dir) ==
  {NoDir} \cup IF dir = NoDir \/ settled # "no" THEN {}
               ELSE {[dir EXCEPT !.whole = FALSE, !.meta = m] : m \in {None, dir.meta}}

Remove(t) ==
  /\ At(t, "remove")
  /\ module' \in Remains(module)
  /\ Installs(t, "rename", thread[t].ver)
  /\ UNCHANGED <<staging, stager>>

\* rename needs its source, and no directory with files at its target.
Rename(t) ==
  /\ At(t, "rename")
  /\ staging # NoDir /\ module = NoDir
  /\ module' = staging /\ staging' = NoDir /\ UNCHANGED stager
  /\ Installs(t, "forget", thread[t].ver)

\* A full disk, a file rmtree left, a directory another thread took away.
InstallBreaks(t) ==
  /\ \/ settled = "no" /\ \E pc \in {"unpack", "describe"} : At(t, pc)
     \/ At(t, "rename") /\ (staging = NoDir \/ module # NoDir)
  /\ Raises(t)

\* Mutant of Forgets: what is already serving routes is dropped as well.
ForgetsAll == mem' = NoModule /\ UNCHANGED RESTART_NEEDED
Forgets ==
  IF mem.loaded THEN RESTART_NEEDED' = TRUE /\ UNCHANGED mem
  ELSE mem' = NoModule /\ UNCHANGED RESTART_NEEDED

_forget_import(t) ==
  /\ At(t, "forget")
  /\ Forgets
  /\ Goes(t, IF t = Loop THEN "idle" ELSE "load")
  /\ UNCHANGED <<served, mode>>

\* load: nothing to do, already loaded, or an import; a half directory may
\* have no __init__.py, or explodes.
Load(t) ==
  LET loadable == is_pro /\ (module.code # None) /\ ~mem.loaded IN
  /\ At(t, "load")
  /\ IF loadable /\ mem.code # None
       THEN Installs(t, "register", mem.code) /\ UNCHANGED processVars
     ELSE IF loadable /\ module.whole
       THEN /\ mem' = [code |-> module.code, loaded |-> FALSE]
            /\ Installs(t, "register", module.code)
            /\ UNCHANGED <<served, RESTART_NEEDED, mode>>
     ELSE Ends(t) /\ UNCHANGED <<mem, served, RESTART_NEEDED>>

\* register, which may raise, and the flag on the module object the thread has.
Register(t) ==
  LET v == thread[t].ver IN
  /\ At(t, "register")
  /\ \/ /\ served' = served \cup {v}
        /\ mem' = IF mem.code = v THEN [mem EXCEPT !.loaded = TRUE] ELSE mem
     \/ UNCHANGED <<mem, served>>
  /\ Ends(t)
  /\ UNCHANGED RESTART_NEEDED

-----------------------------------------------------------------------------
(* Outside the process. *)

Publish ==
  /\ latest < MaxVersion
  /\ latest' = latest + 1
  /\ UNCHANGED <<stored, plan, valid>>

\* From here on nobody changes an account, and nothing fails but the service.
Settle == settled' \in {"up", "down"} /\ UNCHANGED <<stored, plan, valid, latest>>

\* A day is longer than any work that waits for nobody.
Day ==
  /\ \A t \in Threads : \E pc \in {"idle", "ask", "install"} : At(t, pc)
  /\ stored' = Aged(stored)
  /\ thread' = [t \in Threads |-> [thread[t] EXCEPT !.rec = Aged(@)]]
  /\ UNCHANGED <<serviceVars, diskVars, processVars>>

Service ==
  /\ settled = "no"
  /\ \/ ServiceStep /\ UNCHANGED <<latest, settled>>
     \/ Publish /\ UNCHANGED settled
     \/ Settle
  /\ UNCHANGED <<diskVars, processVars, thread>>

\* The steps of a thread, by what they may change.
CallStep(t) ==
  /\ Answered(t) \/ Unanswered(t) \/ FetchNew(t) \/ UpToDate(t) \/ FetchFails(t)
  /\ UNCHANGED <<stored, diskVars, processVars>>
FileStep(t) == (Open(t) \/ Flush(t)) /\ UNCHANGED <<diskVars, processVars>>
DiskStep(t) ==
  /\ Stage(t) \/ Unpack(t) \/ Describe(t) \/ Remove(t) \/ Rename(t)
  /\ UNCHANGED <<stored, processVars>>
ProcessStep(t) ==
  /\ \/ update(t) \/ FetchCut(t) \/ InstallBreaks(t)
     \/ _forget_import(t) \/ Load(t) \/ Register(t)
  /\ UNCHANGED <<stored, diskVars>>
Step(t) ==
  (CallStep(t) \/ FileStep(t) \/ DiskStep(t) \/ ProcessStep(t)) /\ UNCHANGED serviceVars

UserStep ==
  \/ \E r \in Requests, k \in Tokens : meta_account_connect(r, k)
  \/ meta_account_disconnect

Next ==
  \/ UserStep \/ Wake
  \/ \E t \in Threads : Step(t)
  \/ Start \/ Stop
  \/ Service \/ Day

Spec == Init /\ [][Next]_vars

-----------------------------------------------------------------------------
(* Fairness.  Threads go on, the timer fires, days pass, and a dashboard     *)
(* that is down is started.                                                  *)
FairSpec ==
  /\ Spec
  /\ WF_vars(Start) /\ WF_vars(Wake) /\ SF_vars(Day)
  /\ WF_vars(\E t \in Threads : Step(t))

-----------------------------------------------------------------------------
\* The account file, the service's accounts, the two directories, the loaded
\* package and the threads hold what the code keeps there.
TypeOK ==
  /\ AccountTypeOK
  /\ latest \in Versions
  /\ module \in Dir /\ staging \in Dir /\ stager \in Threads
  /\ mem \in [code : Versions \cup {None}, loaded : BOOLEAN]
  /\ served \subseteq Versions
  /\ RESTART_NEEDED \in BOOLEAN
  /\ mode \in {"off", "boot", "up"}
  /\ thread \in [Threads -> Working \cup {Resting}]
  /\ settled \in {"no", "up", "down"}

\* The account this machine has, while its file is being written as well.
Held ==
  LET writers == {t \in Threads : At(t, "flush") /\ thread[t].linked} IN
  IF stored = Nothing /\ writers # {}
    THEN thread[CHOOSE t \in writers : TRUE].rec ELSE stored

\* An outage of the service never takes Pro away, and neither does a revoked
\* token before its answer expires: what does is a day too many, signing out,
\* the end of the process in the middle of a write, or a signed answer, still
\* good, which says the account has not paid.
KeepsPro ==
  [][pro(Held) /\ ~pro(Held') =>
       \/ Day \/ meta_account_disconnect \/ mode' = "off"
       \/ good(Held') /\ Held'.plan = "free"]_vars

\* A refund ends Pro on this machine for good, even if the service is never
\* reached again, or only says that it does not know the token any more.
RefundEnds ==
  settled # "no" /\ (\A k \in Tokens : plan[k] = "free") ~> []~is_pro

\* The newest version of the module reaches a machine that is signed in and
\* paid for, whole and to stay, whatever failed or crashed on the way.
PublishedArrives ==
  settled = "up" /\ Held.token \in valid /\ plan[Held.token] = "pro"
    ~> [](module = [code |-> latest, meta |-> latest, whole |-> TRUE])

\* What an interrupted installation leaves of a directory never passes for the
\* newest version, which the service would answer with "up to date" for ever.
HalfIsReplaced == module # NoDir /\ ~module.whole => module.meta # latest

\* The app runs one version, the one on disk, or the user is told to restart.
RunsInstalled ==
  /\ Cardinality(served) <= 1
  /\ \A v \in served :
       module.code \in {None, v} \/ RESTART_NEEDED \/ \E t \in Threads : At(t, "forget")

-----------------------------------------------------------------------------
(* What the repository says of the program and the code does not keep.       *)

\* Signing out lasts until somebody pastes a token.
DisconnectLasts ==
  [][Held.token = NoToken /\ Held'.token # NoToken
       => \E r \in Requests : FileStep(r)]_vars
=============================================================================
