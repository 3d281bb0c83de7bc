------------------------ MODULE DownloadLock_proofs ------------------------
(***************************************************************************)
(* What holds of the lock file for any number of threads, any limit and    *)
(* any number of crashes.                                                  *)
(***************************************************************************)
EXTENDS DownloadLock, TLAPS

\* The state keeps its type, and nobody naps once the wait was too long.
THEOREM LockTypeCorrect == Spec => []TypeOK
<1>1. Init => TypeOK
  <2> SUFFICES ASSUME Init PROVE TypeOK
    OBVIOUS
  <2>1. lock \in BOOLEAN /\ (~lock => age = 0)
    BY DEF Init
  <2>2. age \in 0..Limit /\ crashes \in 0..MaxCrashes
    BY DownloadAssumption DEF Init
  <2>3. /\ worker \in [Workers -> Pcs] /\ waited \in [Workers -> 0..(Limit + 1)]
        /\ \A w \in Workers : worker[w] = "nap" => waited[w] <= Limit
    BY DownloadAssumption DEF Init, Pcs
  <2> QED
    BY <2>1, <2>2, <2>3 DEF TypeOK
<1>2. TypeOK /\ [Next]_vars => TypeOK'
  <2> SUFFICES ASSUME TypeOK, [Next]_vars PROVE TypeOK'
    OBVIOUS
  <2> USE DownloadAssumption DEF TypeOK, Pcs
  <2>1. CASE Nap
    BY <2>1 DEF Nap
  <2>2. CASE Crash
    BY <2>2 DEF Crash
  <2>3. ASSUME NEW w \in Workers, Arrive(w) PROVE TypeOK'
    BY <2>3 DEF Arrive, Moves
  <2>4. ASSUME NEW w \in Workers, Open(w) PROVE TypeOK'
    BY <2>4 DEF Open, Moves
  <2>5. ASSUME NEW w \in Workers, Look(w) PROVE TypeOK'
    BY <2>5 DEF Look, Moves, TooLong, Stale
  <2>6. ASSUME NEW w \in Workers, NEW from \in Pcs, NEW to \in {"open", "idle"},
               Unlink(w, from, to)
        PROVE  TypeOK'
    <3>1. (lock \in BOOLEAN /\ (~lock => age = 0))'
      BY <2>6 DEF Unlink
    <3>2. (age \in 0..Limit /\ crashes \in 0..MaxCrashes)'
      BY <2>6 DEF Unlink
    <3>3. (/\ worker \in [Workers -> Pcs] /\ waited \in [Workers -> 0..(Limit + 1)]
           /\ \A v \in Workers : worker[v] = "nap" => waited[v] <= Limit)'
      BY <2>6 DEF Unlink, Moves
    <3> QED
      BY <3>1, <3>2, <3>3
  <2>7. ASSUME NEW w \in Workers, Fetched(w) \/ Failed(w) PROVE TypeOK'
    BY <2>7 DEF Fetched, Failed, Moves
  <2>8. CASE UNCHANGED vars
    BY <2>8 DEF vars
  <2> QED
    BY <2>1, <2>2, <2>3, <2>4, <2>5, <2>6, <2>7, <2>8
       DEF Next, WorkerStep, Break, Release
<1> QED
  BY <1>1, <1>2, PTL DEF Spec

-----------------------------------------------------------------------------
\* While no download is slow and nothing has crashed, the lock is there exactly
\* while somebody holds the folder, it never looks old, and so nobody breaks it.
HeldInv ==
  crashes = 0 =>
    /\ age < Limit
    /\ lock <=> Holding # {}
    /\ OneHolder
    /\ \A w \in Workers : worker[w] # "break"

\* One thread at a time downloads into a folder as long as no download takes
\* DOWNLOAD_WAIT and the agent has not crashed (_one_download_at_a_time).
THEOREM QuickIsExclusive ==
  ASSUME ~Slow
  PROVE  Spec => []OneHolderUntilCrash
<1>1. Init => HeldInv
  BY DownloadAssumption DEF Init, HeldInv, Holding, OneHolder
<1>2. TypeOK /\ HeldInv /\ [Next]_vars => HeldInv'
  <2> SUFFICES ASSUME TypeOK, HeldInv, [Next]_vars PROVE HeldInv'
    OBVIOUS
  <2> USE DownloadAssumption DEF TypeOK, Pcs, HeldInv, OneHolder, Holding
  <2>1. CASE Nap
    BY <2>1 DEF Nap
  <2>2. CASE Crash
    BY <2>2 DEF Crash
  <2>3. ASSUME NEW w \in Workers, Arrive(w) PROVE HeldInv'
    BY <2>3 DEF Arrive, Moves
  <2>4. ASSUME NEW w \in Workers, Open(w) PROVE HeldInv'
    BY <2>4 DEF Open, Moves
  <2>5. ASSUME NEW w \in Workers, Look(w) PROVE HeldInv'
    BY <2>5 DEF Look, Moves, Stale
  <2>6. ASSUME NEW w \in Workers, Break(w) PROVE HeldInv'
    BY <2>6 DEF Break, Unlink
  <2>7. ASSUME NEW w \in Workers, Release(w) PROVE HeldInv'
    BY <2>7 DEF Release, Unlink, Moves
  <2>8. ASSUME NEW w \in Workers, Fetched(w) \/ Failed(w) PROVE HeldInv'
    BY <2>8 DEF Fetched, Failed, Moves
  <2>9. CASE UNCHANGED vars
    BY <2>9 DEF vars
  <2> QED
    BY <2>1, <2>2, <2>3, <2>4, <2>5, <2>6, <2>7, <2>8, <2>9 DEF Next, WorkerStep
<1>3. HeldInv => OneHolderUntilCrash
  BY DEF HeldInv, OneHolderUntilCrash
<1> QED
  BY <1>1, <1>2, <1>3, LockTypeCorrect, PTL DEF Spec

-----------------------------------------------------------------------------
\* A lock nobody holds was left by a crash, before anyone now waiting came: it
\* is at least as old as every wait, and those who nap found it young.
LeftInv ==
  lock /\ Holding = {} =>
    \A w \in Waiting :
      /\ waited[w] <= age \/ age = Limit
      /\ worker[w] = "nap" => waited[w] < Limit

\* Whatever is slow or crashes, nobody waits out DOWNLOAD_WAIT before a lock
\* that a crash left behind (executor_llama.py:609).
THEOREM LeftLockGoes == Spec => []LeftLockIsBroken
<1>1. Init => LeftInv
  BY DEF Init, LeftInv
<1>2. TypeOK /\ LeftInv /\ [Next]_vars => LeftInv'
  <2> SUFFICES ASSUME TypeOK, LeftInv, [Next]_vars, (lock /\ Holding = {})',
                      NEW v \in Waiting'
               PROVE  (/\ waited[v] <= age \/ age = Limit
                       /\ worker[v] = "nap" => waited[v] < Limit)'
    BY DEF LeftInv
  <2> USE DownloadAssumption DEF TypeOK, Pcs, LeftInv, Holding, Waiting
  <2>1. CASE Nap
    BY <2>1 DEF Nap
  <2>2. CASE Crash
    BY <2>2 DEF Crash
  <2>3. ASSUME NEW w \in Workers, Arrive(w)
        PROVE  (/\ waited[v] <= age \/ age = Limit
                /\ worker[v] = "nap" => waited[v] < Limit)'
    BY <2>3 DEF Arrive, Moves
  <2>4. ASSUME NEW w \in Workers, Open(w)
        PROVE  (/\ waited[v] <= age \/ age = Limit
                /\ worker[v] = "nap" => waited[v] < Limit)'
    BY <2>4 DEF Open, Moves
  <2>5. ASSUME NEW w \in Workers, Look(w)
        PROVE  (/\ waited[v] <= age \/ age = Limit
                /\ worker[v] = "nap" => waited[v] < Limit)'
    BY <2>5 DEF Look, Moves, Stale
  <2>6. ASSUME NEW w \in Workers, Break(w) \/ Release(w) PROVE FALSE
    BY <2>6 DEF Break, Release, Unlink
  <2>7. ASSUME NEW w \in Workers, Fetched(w) \/ Failed(w)
        PROVE  (/\ waited[v] <= age \/ age = Limit
                /\ worker[v] = "nap" => waited[v] < Limit)'
    BY <2>7 DEF Fetched, Failed, Moves
  <2>8. CASE UNCHANGED vars
    BY <2>8 DEF vars
  <2> QED
    BY <2>1, <2>2, <2>3, <2>4, <2>5, <2>6, <2>7, <2>8 DEF Next, WorkerStep
<1>3. TypeOK /\ LeftInv => LeftLockIsBroken
  <2> SUFFICES ASSUME TypeOK, LeftInv, NEW w \in Workers,
                      worker[w] = "nap", waited[w] >= Limit, lock, Holding = {}
               PROVE  FALSE
    BY DEF LeftLockIsBroken, TypeOK
  <2> QED
    BY DownloadAssumption DEF LeftInv, Waiting, TypeOK
<1> QED
  BY <1>1, <1>2, <1>3, LockTypeCorrect, PTL DEF Spec
=============================================================================
