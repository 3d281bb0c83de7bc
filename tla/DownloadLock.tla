---------------------------- MODULE DownloadLock ----------------------------
(***************************************************************************)
(* The lock file of a model folder: _one_download_at_a_time of             *)
(* agent/executor_llama.py, used by the launch threads of one agent that   *)
(* download into the same folder.                                          *)
(*                                                                         *)
(* Time is counted in naps of the waiting loop.  Napping takes a little    *)
(* longer than time.sleep asks for, so a lock that was there when a waiter *)
(* came is past DOWNLOAD_WAIT by the time the naps add up to it.           *)
(***************************************************************************)
EXTENDS Naturals, FiniteSets

CONSTANTS
  Workers,     \* launch threads
  Limit,       \* DOWNLOAD_WAIT, in naps
  Slow,        \* TRUE: a download may take longer than that
  MaxCrashes   \* bound: crashes of the agent

ASSUME DownloadAssumption ==
  /\ Limit \in Nat \ {0} /\ MaxCrashes \in Nat /\ Slow \in BOOLEAN

VARIABLES
  lock,     \* the file .downloading is there
  age,      \* naps since it was made; 0 without it
  worker,   \* Workers -> Pcs
  waited,   \* Workers -> naps of this wait
  crashes

vars == <<lock, age, worker, waited, crashes>>

Pcs == {"idle", "open", "busy", "break", "nap", "fetch", "release", "error"}
Waiting == {w \in Workers : worker[w] \in {"open", "busy", "break", "nap"}}
Holding == {w \in Workers : worker[w] \in {"fetch", "release"}}

Moves(w, pc) == worker' = [worker EXCEPT ![w] = pc]

Init ==
  /\ lock = FALSE /\ age = 0 /\ crashes = 0
  /\ worker = [w \in Workers |-> "idle"]
  /\ waited = [w \in Workers |-> 0]

-----------------------------------------------------------------------------
Arrive(w) ==
  /\ worker[w] = "idle"
  /\ Moves(w, "open")
  /\ waited' = [waited EXCEPT ![w] = 0]
  /\ UNCHANGED <<lock, age, crashes>>

\* os.open with O_CREAT | O_EXCL
Open(w) ==
  /\ worker[w] = "open"
  /\ \/ /\ lock
        /\ Moves(w, "busy")
        /\ UNCHANGED <<lock, age>>
     \/ /\ ~lock
        /\ lock' = TRUE /\ age' = 0
        /\ Moves(w, "fetch")
  /\ UNCHANGED <<waited, crashes>>

\* Mutant of TooLong: the waiter never loses patience.
Patient(w) == FALSE
TooLong(w) == waited[w] > Limit

\* Mutants of Stale: any lock is taken for a crash's; none is.
AnyLock == TRUE
NoLock == FALSE
Stale == age >= Limit

\* FileExistsError: too long a wait raises, and so does the stat of a lock
\* that was let go meanwhile.
Look(w) ==
  /\ worker[w] = "busy"
  /\ Moves(w, IF TooLong(w) \/ ~lock THEN "error" ELSE IF Stale THEN "break" ELSE "nap")
  /\ UNCHANGED <<lock, age, waited, crashes>>

\* unlink(missing_ok=True), of whatever lock is there by now.
Unlink(w, from, to) ==
  /\ worker[w] = from
  /\ Moves(w, to)
  /\ lock' = FALSE /\ age' = 0
  /\ UNCHANGED <<waited, crashes>>

Break(w) == Unlink(w, "break", "open")

\* The download ended, well or not.
Fetched(w) ==
  /\ worker[w] = "fetch"
  /\ Moves(w, "release")
  /\ UNCHANGED <<lock, age, waited, crashes>>

Release(w) == Unlink(w, "release", "idle")

Failed(w) ==
  /\ worker[w] = "error"
  /\ Moves(w, "idle")
  /\ UNCHANGED <<lock, age, waited, crashes>>

\* A nap's time goes by for the lock and for those who nap; between two naps
\* there is no time for that.
Nap ==
  /\ \A w \in Workers : worker[w] \in {"open", "busy", "break"} => waited[w] = 0
  /\ ~Slow /\ Holding # {} => age + 1 < Limit
  /\ age' = IF lock /\ age < Limit THEN age + 1 ELSE age
  /\ waited' = [w \in Workers |->
                  IF worker[w] = "nap" /\ waited[w] <= Limit THEN waited[w] + 1 ELSE waited[w]]
  /\ worker' = [w \in Workers |-> IF worker[w] = "nap" THEN "open" ELSE worker[w]]
  /\ UNCHANGED <<lock, crashes>>

\* The agent dies; the file stays.
Crash ==
  /\ crashes < MaxCrashes
  /\ crashes' = crashes + 1
  /\ worker' = [w \in Workers |-> "idle"]
  /\ UNCHANGED <<lock, age, waited>>

WorkerStep(w) ==
  Open(w) \/ Look(w) \/ Break(w) \/ Fetched(w) \/ Release(w) \/ Failed(w)

Next == Nap \/ Crash \/ \E w \in Workers : Arrive(w) \/ WorkerStep(w)

Spec == Init /\ [][Next]_vars

\* Threads run, downloads end, and time passes however the threads take turns.
FairSpec == Spec /\ SF_vars(Nap) /\ \A w \in Workers : WF_vars(WorkerStep(w))

-----------------------------------------------------------------------------
TypeOK ==
  /\ lock \in BOOLEAN /\ age \in 0..Limit /\ crashes \in 0..MaxCrashes
  /\ ~lock => age = 0
  /\ worker \in [Workers -> Pcs]
  /\ waited \in [Workers -> 0..(Limit + 1)]
  /\ \A w \in Workers : worker[w] = "nap" => waited[w] <= Limit

\* "Hold the folder while downloading, and make anyone else wait"
\* (executor_llama.py:590).
OneHolder == \A v, w \in Holding : v = w

\* The same while the agent has not crashed yet: what a crash leaves behind is
\* the only way (downloads shorter than DOWNLOAD_WAIT) to two holders.
OneHolderUntilCrash == crashes = 0 => OneHolder

\* "a crash leaves the file behind; an old one is not a running download"
\* (executor_llama.py:609): nobody naps through the whole of DOWNLOAD_WAIT
\* before a lock that no download holds.
LeftLockIsBroken ==
  \A w \in Workers :
    worker[w] = "nap" /\ waited[w] >= Limit => ~lock \/ Holding # {}

\* A deploy that waits for the folder gets it or an error, however many others
\* come first and whatever a crash left behind.
WaitEnds == \A w \in Workers : w \in Waiting ~> w \notin Waiting
=============================================================================
