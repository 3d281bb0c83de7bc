-------------------------- MODULE ProModule_proofs --------------------------
(***************************************************************************)
(* Theorems about ProModule, for any tokens, requests, terms and versions. *)
(***************************************************************************)
EXTENDS ProModule, FiniteSetTheorems, TLAPS

-----------------------------------------------------------------------------
(* Lemmas about the threads.                                               *)

LEMMA Constants ==
  /\ Term \in Nat /\ Term > 0 /\ MaxVersion \in Nat /\ MaxVersion > 0
  /\ NoToken \notin Tokens /\ Overlap \in BOOLEAN
  /\ Boot \in Threads /\ Loop \in Threads /\ Boot # Loop
  /\ Boot \notin Requests /\ Loop \notin Requests
  BY AccountAssumption, ProModuleAssumption
     DEF AccountAssumption, ProModuleAssumption, Threads

ThreadsTyped == thread \in [Threads -> Working \cup {Resting}]

LEMMA NothingTyped == Nothing \in Record
  BY Constants DEF Nothing, Record, Plans

LEMMA RestingPc == Resting.pc = "idle" /\ Resting.rec = Nothing
                   /\ Resting.linked = TRUE /\ Resting.ver = None
  BY DEF Resting

\* What a thread holds is typed, resting or not.
LEMMA HoldsTyped ==
  ASSUME ThreadsTyped, NEW t \in Threads
  PROVE  /\ thread[t].rec \in Record /\ thread[t].ver \in Versions \cup {None}
         /\ thread[t].linked \in BOOLEAN /\ thread[t].pc \in Steps \cup {"idle"}
         /\ thread[t] = [pc |-> thread[t].pc, rec |-> thread[t].rec,
                         linked |-> thread[t].linked, ver |-> thread[t].ver]
<1>1. CASE thread[t] = Resting
  BY <1>1, NothingTyped DEF Resting
<1>2. CASE thread[t] \in Working
  BY <1>2 DEF Working
<1> QED BY <1>1, <1>2 DEF ThreadsTyped

\* The step t takes is over, and the others are where they were.
OthersStay(t) == \A u \in Threads : u # t => thread'[u] = thread[u]

\* A thread that rests is as it was at the start.
LEMMA Rests ==
  ASSUME NEW w, w = [Resting EXCEPT !.pc = "idle"]
  PROVE  w = Resting
  BY DEF Resting

LEMMA GoesTo ==
  ASSUME ThreadsTyped, NEW t \in Threads, NEW pc \in Steps \cup {"idle"}, Goes(t, pc)
  PROVE  /\ ThreadsTyped' /\ OthersStay(t)
         /\ thread'[t].pc = pc /\ thread'[t].rec = Nothing
         /\ thread'[t].linked = TRUE /\ thread'[t].ver = None
<1> DEFINE w == [Resting EXCEPT !.pc = pc]
<1>1. w.pc = pc /\ w.rec = Nothing /\ w.linked = TRUE /\ w.ver = None
  BY DEF Resting
<1>2. w \in Working \cup {Resting}
  <2>1. CASE pc = "idle"
    BY <2>1, Rests
  <2>2. CASE pc \in Steps
    BY <2>2, NothingTyped DEF Resting, Working
  <2> QED BY <2>1, <2>2
<1> HIDE DEF w
<1>3. thread' = [thread EXCEPT ![t] = w]
  BY DEF Goes, w
<1> QED BY <1>1, <1>2, <1>3 DEF ThreadsTyped, OthersStay

LEMMA GoesIdle ==
  ASSUME ThreadsTyped, NEW t \in Threads, Goes(t, "idle")
  PROVE  ThreadsTyped' /\ OthersStay(t) /\ thread'[t] = Resting /\ thread'[t].pc = "idle"
<1>1. thread' = [thread EXCEPT ![t] = Resting]
  BY Rests, Zenon DEF Goes
<1> QED BY <1>1, RestingPc DEF ThreadsTyped, OthersStay

LEMMA GoesWithTo ==
  ASSUME ThreadsTyped, NEW t \in Threads, NEW pc \in Steps, NEW rec \in Record,
         GoesWith(t, pc, rec)
  PROVE  /\ ThreadsTyped' /\ OthersStay(t)
         /\ thread'[t].pc = pc /\ thread'[t].rec = rec
         /\ thread'[t].linked = TRUE /\ thread'[t].ver = None
<1> DEFINE w == [Resting EXCEPT !.pc = pc, !.rec = rec]
<1>1. w.pc = pc /\ w.rec = rec /\ w.linked = TRUE /\ w.ver = None
  BY DEF Resting
<1>2. w \in Working
  BY DEF Resting, Working
<1> HIDE DEF w
<1>3. thread' = [thread EXCEPT ![t] = w]
  BY DEF GoesWith, w
<1> QED BY <1>1, <1>2, <1>3 DEF ThreadsTyped, OthersStay

LEMMA InstallsTo ==
  ASSUME ThreadsTyped, NEW t \in Threads, NEW pc \in Steps, NEW v \in Versions \cup {None},
         Installs(t, pc, v)
  PROVE  /\ ThreadsTyped' /\ OthersStay(t)
         /\ thread'[t].pc = pc /\ thread'[t].rec = Nothing
         /\ thread'[t].linked = TRUE /\ thread'[t].ver = v
<1> DEFINE w == [Resting EXCEPT !.pc = pc, !.ver = v]
<1>1. w.pc = pc /\ w.rec = Nothing /\ w.linked = TRUE /\ w.ver = v
  BY DEF Resting
<1>2. w \in Working
  BY NothingTyped DEF Resting, Working
<1> HIDE DEF w
<1>3. thread' = [thread EXCEPT ![t] = w]
  BY DEF Installs, w
<1> QED BY <1>1, <1>2, <1>3 DEF ThreadsTyped, OthersStay

\* The end of the process, and a step that raised.
LEMMA DiesTo ==
  ASSUME Dies
  PROVE  ThreadsTyped' /\ mode' = "off" /\ mem' = NoModule /\ served' = {}
         /\ RESTART_NEEDED' = FALSE /\ \A u \in Threads : thread'[u] = Resting
  BY DEF Dies, ThreadsTyped

LEMMA AgedTyped ==
  ASSUME NEW rec \in Record
  PROVE  Aged(rec) \in Record /\ Aged(rec).plan = rec.plan /\ Aged(rec).token = rec.token
<1> DEFINE left == IF rec.left = 0 THEN 0 ELSE rec.left - 1
<1>1. left \in 0..Term
  BY Constants DEF Record
<1>2. Aged(rec) = [rec EXCEPT !.left = left, !.due = TRUE]
  BY DEF Aged
<1> HIDE DEF left
<1> QED BY <1>1, <1>2 DEF Record

LEMMA AgedNothing == Aged(Nothing) = Nothing
<1>1. Nothing.left = 0 /\ Nothing.due = TRUE
  BY DEF Nothing
<1>2. Aged(Nothing) = [Nothing EXCEPT !.left = 0, !.due = TRUE]
  BY <1>1 DEF Aged
<1> QED BY <1>2 DEF Nothing

LEMMA DayTo ==
  ASSUME ThreadsTyped, Day
  PROVE  /\ ThreadsTyped'
         /\ \A t \in Threads : /\ thread[t].pc \in {"idle", "ask", "install"}
                               /\ thread'[t].pc = thread[t].pc
                               /\ thread'[t].rec = Aged(thread[t].rec)
                               /\ thread'[t].linked = thread[t].linked
                               /\ thread'[t].ver = thread[t].ver
<1>1. ASSUME NEW t \in Threads
      PROVE  /\ thread[t].pc \in {"idle", "ask", "install"}
             /\ thread'[t] = [thread[t] EXCEPT !.rec = Aged(thread[t].rec)]
  BY <1>1 DEF Day, At
<1>2. ASSUME NEW t \in Threads
      PROVE  /\ thread'[t].pc = thread[t].pc /\ thread'[t].rec = Aged(thread[t].rec)
             /\ thread'[t].linked = thread[t].linked /\ thread'[t].ver = thread[t].ver
             /\ thread'[t] \in Working \cup {Resting}
  <2>1. CASE thread[t] = Resting
    <3>1. thread'[t] = [Resting EXCEPT !.rec = Nothing]
      BY <1>1, <2>1, AgedNothing, RestingPc
    <3>2. thread'[t] = Resting
      BY <3>1 DEF Resting
    <3> QED BY <2>1, <3>2, AgedNothing, RestingPc
  <2>2. CASE thread[t] \in Working
    BY <1>1, <2>2, AgedTyped DEF Working
  <2> QED BY <2>1, <2>2 DEF ThreadsTyped
<1>3. thread' = [t \in Threads |-> [thread[t] EXCEPT !.rec = Aged(@)]]
  BY DEF Day
<1> QED BY <1>1, <1>2, <1>3 DEF ThreadsTyped

-----------------------------------------------------------------------------
(* Types.                                                                  *)

\* What is registered is a version: TypeOK does not say so of the thread.
Registers == \A t \in Threads : At(t, "register") => thread[t].ver \in Versions
TypeInv == TypeOK /\ Registers

MemTyped == mem \in [code : Versions \cup {None}, loaded : BOOLEAN]
ProcessTyped ==
  /\ MemTyped /\ served \subseteq Versions /\ RESTART_NEEDED \in BOOLEAN
  /\ mode \in {"off", "boot", "up"}
DiskTyped == module \in Dir /\ staging \in Dir /\ stager \in Threads

LEMMA TypeParts ==
  TypeOK <=> AccountTypeOK /\ latest \in Versions /\ DiskTyped /\ ProcessTyped /\ ThreadsTyped
             /\ settled \in {"no", "up", "down"}
  BY DEF TypeOK, DiskTyped, ProcessTyped, MemTyped, ThreadsTyped

LEMMA TypePartsNext ==
  /\ AccountTypeOK' <=> stored' \in Record /\ plan' \in [Tokens -> Plans] /\ valid' \subseteq Tokens
  /\ AccountTypeOK' /\ latest' \in Versions /\ DiskTyped' /\ ProcessTyped' /\ ThreadsTyped'
       /\ settled' \in {"no", "up", "down"}
       => TypeOK'
  BY DEF AccountTypeOK, TypeOK, DiskTyped, ProcessTyped, MemTyped, ThreadsTyped

LEMMA NoModuleTyped == NoModule \in [code : Versions \cup {None}, loaded : BOOLEAN]
  BY DEF NoModule

LEMMA NoDirTyped == NoDir \in Dir
  BY DEF NoDir, Dir

\* The end of the process keeps the types of it.
LEMMA DiesTyped ==
  ASSUME Dies
  PROVE  ThreadsTyped' /\ ProcessTyped' /\ Registers'
  BY DiesTo, NoModuleTyped, RestingPc DEF ProcessTyped, MemTyped, Registers, At

\* A thread that goes somewhere else than to register something.
LEMMA RegistersGoes ==
  ASSUME Registers, NEW t \in Threads, OthersStay(t), thread'[t].pc # "register"
  PROVE  Registers'
  BY DEF Registers, OthersStay, At

LEMMA RaisesTyped ==
  ASSUME TypeInv, NEW t \in Threads, Raises(t)
  PROVE  ThreadsTyped' /\ ProcessTyped' /\ Registers'
<1>1. CASE t = Boot
  BY <1>1, DiesTyped DEF Raises
<1>2. CASE t # Boot
  <2>1. ThreadsTyped' /\ OthersStay(t) /\ thread'[t].pc = "idle" /\ UNCHANGED processVars
    BY <1>2, GoesTo, TypeParts DEF Raises, TypeInv
  <2>2. Registers'
    BY <2>1, RegistersGoes DEF TypeInv
  <2> QED BY <2>1, <2>2, TypeParts DEF TypeInv, ProcessTyped, MemTyped, processVars
<1> QED BY <1>1, <1>2

LEMMA CallTyped ==
  ASSUME TypeInv, NEW t \in Threads, CallStep(t)
  PROVE  ThreadsTyped' /\ Registers'
<1> USE DEF Steps
<1>1. thread[t].rec \in Record /\ latest \in Versions /\ ThreadsTyped /\ Registers
      /\ plan \in [Tokens -> Plans] /\ valid \subseteq Tokens
  BY HoldsTyped, TypeParts DEF TypeInv, AccountTypeOK
<1>2. CASE Answered(t)
  <2> DEFINE rec == thread[t].rec
  <2>1. CASE rec.token \in valid
    <3>1. Signed(rec.token) \in Record
      BY <1>1, <2>1, Constants DEF Signed, Record
    <3>2. GoesWith(t, "open", Signed(rec.token))
      BY <1>2, <2>1 DEF Answered
    <3> QED BY <1>1, <3>1, <3>2, GoesWithTo, RegistersGoes
  <2>2. CASE rec.token \notin valid /\ t = Loop
    <3>1. Rejected(rec) \in Record
      BY <1>1 DEF Rejected, Record
    <3>2. GoesWith(t, "open", Rejected(rec))
      BY <1>2, <2>2 DEF Answered
    <3> QED BY <1>1, <3>1, <3>2, GoesWithTo, RegistersGoes
  <2>3. CASE rec.token \notin valid /\ t # Loop
    <3>1. Goes(t, "idle")
      BY <1>2, <2>3 DEF Answered
    <3> QED BY <1>1, <3>1, GoesIdle, RegistersGoes
  <2> QED BY <2>1, <2>2, <2>3
<1>3. CASE Unanswered(t) \/ UpToDate(t) \/ FetchFails(t)
  <2>1. PICK pc \in {"update", "idle", "load"} : Goes(t, pc)
    <3>1. CASE Unanswered(t)
      BY <3>1 DEF Unanswered
    <3>2. CASE UpToDate(t) \/ FetchFails(t)
      BY <3>2 DEF UpToDate, FetchFails
    <3> QED BY <1>3, <3>1, <3>2
  <2> QED BY <1>1, <2>1, GoesTo, RegistersGoes
<1>4. CASE FetchNew(t)
  <2>1. Installs(t, "stage", latest)
    BY <1>4 DEF FetchNew
  <2> QED BY <1>1, <2>1, InstallsTo, RegistersGoes
<1> QED BY <1>2, <1>3, <1>4 DEF CallStep

LEMMA FileTyped ==
  ASSUME TypeInv, NEW t \in Threads, FileStep(t)
  PROVE  ThreadsTyped' /\ Registers' /\ stored' \in Record
<1> USE DEF Steps
<1>1. thread[t].rec \in Record /\ stored \in Record /\ ThreadsTyped /\ Registers
  BY HoldsTyped, TypeParts DEF TypeInv, AccountTypeOK
<1>2. CASE Open(t)
  <2>1. GoesWith(t, "flush", thread[t].rec) /\ stored' = Nothing
    BY <1>2 DEF Open
  <2> QED BY <1>1, <2>1, GoesWithTo, RegistersGoes, NothingTyped
<1>3. CASE Flush(t)
  <2>1. stored' \in Record
    BY <1>1, <1>3, NothingTyped DEF Flush
  <2>2. PICK pc \in {"update", "install", "idle"} : Goes(t, pc)
    BY <1>3 DEF Flush, AfterWrite
  <2> QED BY <1>1, <2>1, <2>2, GoesTo, RegistersGoes
<1> QED BY <1>2, <1>3 DEF FileStep

LEMMA DiskStepTyped ==
  ASSUME TypeInv, NEW t \in Threads, DiskStep(t)
  PROVE  ThreadsTyped' /\ Registers' /\ DiskTyped'
<1> USE DEF Steps
<1>1. thread[t].ver \in Versions \cup {None} /\ DiskTyped /\ ThreadsTyped /\ Registers
  BY HoldsTyped, TypeParts DEF TypeInv
<1>2. PICK pc \in {"unpack", "describe", "remove", "rename", "forget"} :
        Installs(t, pc, thread[t].ver)
  BY DEF DiskStep, Stage, Unpack, Describe, Remove, Rename
<1>3. ThreadsTyped' /\ Registers'
  BY <1>1, <1>2, InstallsTo, RegistersGoes
<1>4. ASSUME Stage(t) PROVE DiskTyped'
  BY <1>1, <1>4, NoDirTyped DEF Stage, DiskTyped
<1>5. ASSUME Unpack(t) PROVE DiskTyped'
  BY <1>1, <1>5 DEF Unpack, DiskTyped, Dir
<1>6. ASSUME Describe(t) PROVE DiskTyped'
  BY <1>1, <1>6 DEF Describe, DiskTyped, Dir
<1>7. ASSUME Remove(t) PROVE DiskTyped'
  <2>1. \A m \in {None, module.meta} : [module EXCEPT !.whole = FALSE, !.meta = m] \in Dir
    BY <1>1 DEF DiskTyped, Dir
  <2>2. module' \in Dir
    BY <1>7, <2>1, NoDirTyped DEF Remove, Remains
  <2> QED BY <1>1, <1>7, <2>2 DEF Remove, DiskTyped
<1>8. ASSUME Rename(t) PROVE DiskTyped'
  BY <1>1, <1>8, NoDirTyped DEF Rename, DiskTyped
<1> QED BY <1>3, <1>4, <1>5, <1>6, <1>7, <1>8 DEF DiskStep

LEMMA ProcessStepTyped ==
  ASSUME TypeInv, NEW t \in Threads, ProcessStep(t)
  PROVE  ThreadsTyped' /\ Registers' /\ ProcessTyped'
<1> USE DEF Steps
<1>1. ProcessTyped /\ ThreadsTyped /\ Registers /\ DiskTyped
  BY TypeParts DEF TypeInv
<1>2. CASE update(t)
  <2>1. PICK pc \in {"install", "load", "idle"} : Goes(t, pc)
    BY <1>2 DEF update
  <2>2. ProcessTyped'
    BY <1>1, <1>2 DEF update, processVars, ProcessTyped, MemTyped
  <2> QED BY <1>1, <2>1, <2>2, GoesTo, RegistersGoes
<1>3. CASE FetchCut(t) \/ InstallBreaks(t)
  BY <1>3, RaisesTyped DEF FetchCut, InstallBreaks
<1>4. CASE _forget_import(t)
  <2>1. PICK pc \in {"idle", "load"} : Goes(t, pc)
    BY <1>4 DEF _forget_import
  <2>2. ProcessTyped'
    BY <1>1, <1>4, NoModuleTyped DEF _forget_import, Forgets, ProcessTyped, MemTyped
  <2> QED BY <1>1, <2>1, <2>2, GoesTo, RegistersGoes
<1>5. ASSUME Ends(t) PROVE ThreadsTyped' /\ Registers' /\ mode' \in {"off", "boot", "up"}
  <2>1. Goes(t, "idle") /\ mode' \in {"off", "boot", "up"}
    BY <1>1, <1>5 DEF Ends, ProcessTyped
  <2> QED BY <1>1, <2>1, GoesIdle, RegistersGoes
<1>6. CASE Load(t)
  <2>1. ASSUME NEW v \in Versions, Installs(t, "register", v)
        PROVE  ThreadsTyped' /\ Registers'
    <3>1. ThreadsTyped' /\ OthersStay(t) /\ thread'[t].ver = v
      BY <1>1, <2>1, InstallsTo
    <3> QED BY <1>1, <2>1, <3>1 DEF Registers, OthersStay, At
  <2>2. CASE Installs(t, "register", mem.code) /\ mem.code # None /\ UNCHANGED processVars
    <3>1. mem.code \in Versions
      BY <1>1, <2>2 DEF ProcessTyped, MemTyped
    <3> QED BY <1>1, <2>1, <2>2, <3>1 DEF processVars, ProcessTyped, MemTyped
  <2>3. CASE /\ Installs(t, "register", module.code) /\ module.code # None
             /\ mem' = [code |-> module.code, loaded |-> FALSE]
             /\ UNCHANGED <<served, RESTART_NEEDED, mode>>
    <3>1. module.code \in Versions
      BY <1>1, <2>3 DEF DiskTyped, Dir
    <3> QED BY <1>1, <2>1, <2>3, <3>1 DEF ProcessTyped, MemTyped
  <2>4. CASE Ends(t) /\ UNCHANGED <<mem, served, RESTART_NEEDED>>
    BY <1>1, <1>5, <2>4 DEF ProcessTyped, MemTyped
  <2> QED BY <1>6, <2>2, <2>3, <2>4 DEF Load
<1>7. CASE Register(t)
  <2>1. thread[t].ver \in Versions
    BY <1>1, <1>7 DEF Register, Registers
  <2>2. mem' \in {mem, [mem EXCEPT !.loaded = TRUE]}
        /\ served' \in {served, served \cup {thread[t].ver}} /\ UNCHANGED RESTART_NEEDED
    BY <1>7 DEF Register
  <2>3. mem' \in [code : Versions \cup {None}, loaded : BOOLEAN]
    BY <1>1, <2>2 DEF ProcessTyped, MemTyped
  <2>4. Ends(t)
    BY <1>7 DEF Register
  <2> QED BY <1>1, <1>5, <2>1, <2>2, <2>3, <2>4 DEF ProcessTyped, MemTyped
<1> QED BY <1>2, <1>3, <1>4, <1>6, <1>7 DEF ProcessStep

LEMMA StepTyped == TypeInv /\ (\E t \in Threads : Step(t)) => TypeInv'
<1> SUFFICES ASSUME TypeInv, NEW t \in Threads, Step(t) PROVE TypeInv'
  OBVIOUS
<1> USE DEF TypeInv
<1>1. AccountTypeOK /\ latest \in Versions /\ DiskTyped /\ ProcessTyped
      /\ settled \in {"no", "up", "down"}
  BY TypeParts
<1>2. UNCHANGED <<plan, valid, latest, settled>>
  BY DEF Step, serviceVars
<1>3. UNCHANGED stored => AccountTypeOK'
  BY <1>1, <1>2, TypePartsNext DEF AccountTypeOK
<1>4. UNCHANGED diskVars => DiskTyped'
  BY <1>1 DEF diskVars, DiskTyped
<1>5. UNCHANGED processVars => ProcessTyped'
  BY <1>1 DEF processVars, ProcessTyped, MemTyped
<1>6. CASE CallStep(t)
  <2>1. UNCHANGED <<stored, diskVars, processVars>>
    BY <1>6 DEF CallStep
  <2> QED BY <1>1, <1>2, <1>3, <1>4, <1>5, <1>6, <2>1, CallTyped, TypePartsNext
<1>7. CASE FileStep(t)
  <2>1. UNCHANGED <<diskVars, processVars>>
    BY <1>7 DEF FileStep
  <2>2. AccountTypeOK'
    BY <1>1, <1>2, <1>7, FileTyped, TypePartsNext DEF AccountTypeOK
  <2> QED BY <1>1, <1>2, <1>4, <1>5, <1>7, <2>1, <2>2, FileTyped, TypePartsNext
<1>8. CASE DiskStep(t)
  <2>1. UNCHANGED <<stored, processVars>>
    BY <1>8 DEF DiskStep
  <2> QED BY <1>1, <1>2, <1>3, <1>5, <1>8, <2>1, DiskStepTyped, TypePartsNext
<1>9. CASE ProcessStep(t)
  <2>1. UNCHANGED <<stored, diskVars>>
    BY <1>9 DEF ProcessStep
  <2> QED BY <1>1, <1>2, <1>3, <1>4, <1>9, <2>1, ProcessStepTyped, TypePartsNext
<1> QED BY <1>6, <1>7, <1>8, <1>9 DEF Step

LEMMA OtherTyped ==
  ASSUME TypeInv, UserStep \/ Wake \/ Start \/ Stop \/ Service \/ Day
  PROVE  TypeInv'
<1> USE DEF TypeInv, Steps
<1>1. /\ AccountTypeOK /\ latest \in Versions /\ DiskTyped /\ ProcessTyped /\ ThreadsTyped
      /\ settled \in {"no", "up", "down"}
      /\ stored \in Record /\ plan \in [Tokens -> Plans] /\ valid \subseteq Tokens
  BY TypeParts DEF AccountTypeOK
<1>2. UNCHANGED diskVars => DiskTyped'
  BY <1>1 DEF diskVars, DiskTyped
<1>3. UNCHANGED processVars => ProcessTyped'
  BY <1>1 DEF processVars, ProcessTyped, MemTyped
<1>4. UNCHANGED serviceVars /\ stored' \in Record
        => AccountTypeOK' /\ latest' \in Versions /\ settled' \in {"no", "up", "down"}
  BY <1>1 DEF serviceVars, AccountTypeOK
<1>5. ASSUME NEW r \in Requests, NEW k \in Tokens, meta_account_connect(r, k) PROVE TypeInv'
  <2>1. r \in Threads /\ [Nothing EXCEPT !.token = k] \in Record
    BY NothingTyped DEF Threads, Record
  <2>2. GoesWith(r, "ask", [Nothing EXCEPT !.token = k])
        /\ UNCHANGED <<stored, serviceVars, diskVars, processVars>>
    BY <1>5 DEF meta_account_connect
  <2>3. ThreadsTyped' /\ Registers'
    BY <1>1, <2>1, <2>2, GoesWithTo, RegistersGoes
  <2> QED BY <1>1, <1>2, <1>3, <1>4, <2>2, <2>3, TypePartsNext
<1>6. CASE meta_account_disconnect
  <2>1. UNCHANGED <<serviceVars, diskVars, processVars>> /\ stored' = Nothing
    BY <1>6 DEF meta_account_disconnect
  <2>2. ASSUME NEW t \in Threads
        PROVE  /\ thread'[t] \in Working \cup {Resting}
               /\ thread'[t].pc = thread[t].pc /\ thread'[t].ver = thread[t].ver
    <3>1. CASE At(t, "flush")
      <4>1. thread'[t] = [thread[t] EXCEPT !.linked = FALSE] /\ thread[t] \in Working
        BY <1>1, <1>6, <3>1, RestingPc DEF meta_account_disconnect, ThreadsTyped, At
      <4> QED BY <4>1 DEF Working
    <3>2. CASE ~At(t, "flush")
      BY <1>1, <1>6, <3>2 DEF meta_account_disconnect, ThreadsTyped
    <3> QED BY <3>1, <3>2
  <2>3. ThreadsTyped' /\ Registers'
    BY <1>6, <2>2 DEF meta_account_disconnect, ThreadsTyped, Registers, At
  <2> QED BY <1>2, <1>3, <1>4, <2>1, <2>3, NothingTyped, TypePartsNext
<1>7. CASE Wake
  <2>1. GoesWith(Loop, "ask", stored) \/ Goes(Loop, "update")
    BY <1>7 DEF Wake
  <2>2. UNCHANGED <<stored, serviceVars, diskVars, processVars>>
    BY <1>7 DEF Wake
  <2>3. CASE GoesWith(Loop, "ask", stored)
    <3>1. ThreadsTyped' /\ OthersStay(Loop) /\ thread'[Loop].pc = "ask"
      BY <1>1, <2>3, GoesWithTo, Constants
    <3>2. Registers'
      BY <3>1, RegistersGoes, Constants
    <3> QED BY <1>1, <1>2, <1>3, <1>4, <2>2, <3>1, <3>2, TypePartsNext
  <2>4. CASE Goes(Loop, "update")
    <3>1. ThreadsTyped' /\ OthersStay(Loop) /\ thread'[Loop].pc = "update"
      BY <1>1, <2>4, GoesTo, Constants
    <3>2. Registers'
      BY <3>1, RegistersGoes, Constants
    <3> QED BY <1>1, <1>2, <1>3, <1>4, <2>2, <3>1, <3>2, TypePartsNext
  <2> QED BY <2>1, <2>3, <2>4
<1>8. CASE Start
  <2>1. Goes(Boot, "update") /\ UNCHANGED <<stored, serviceVars, diskVars>>
    BY <1>8 DEF Start
  <2>2. ThreadsTyped' /\ OthersStay(Boot) /\ thread'[Boot].pc = "update"
    BY <1>1, <2>1, GoesTo, Constants
  <2>3. ProcessTyped'
    BY <1>1, <1>8 DEF Start, ProcessTyped, MemTyped
  <2>4. Registers'
    BY <2>2, RegistersGoes, Constants
  <2> QED BY <1>1, <1>2, <1>4, <2>1, <2>2, <2>3, <2>4, TypePartsNext
<1>9. CASE Stop
  <2>1. Dies /\ UNCHANGED <<stored, serviceVars, diskVars>>
    BY <1>9 DEF Stop
  <2> QED BY <1>1, <1>2, <1>4, <2>1, DiesTyped, TypePartsNext
<1>10. CASE Service
  <2>1. UNCHANGED <<stored, diskVars, processVars, thread>>
    BY <1>10 DEF Service, ServiceStep, Pay, Refund, Revoke, Publish, Settle
  <2>2. plan' \in [Tokens -> Plans] /\ valid' \subseteq Tokens
    BY <1>1, <1>10 DEF Service, ServiceStep, Pay, Refund, Revoke, Publish, Settle, Plans
  <2>3. latest' \in Versions /\ settled' \in {"no", "up", "down"}
    BY <1>1, <1>10, Constants DEF Service, ServiceStep, Publish, Settle, Versions
  <2>4. ThreadsTyped' /\ Registers'
    BY <1>1, <2>1 DEF ThreadsTyped, Registers, At
  <2> QED BY <1>1, <1>2, <1>3, <2>1, <2>2, <2>3, <2>4, TypePartsNext
<1>11. CASE Day
  <2>1. UNCHANGED <<serviceVars, diskVars, processVars>> /\ stored' = Aged(stored)
    BY <1>11 DEF Day
  <2>2. ThreadsTyped' /\ Registers'
    BY <1>1, <1>11, DayTo DEF Registers, At
  <2> QED BY <1>1, <1>2, <1>3, <1>4, <2>1, <2>2, AgedTyped, TypePartsNext
<1> QED BY <1>5, <1>6, <1>7, <1>8, <1>9, <1>10, <1>11 DEF UserStep

LEMMA TypeInit == Init => TypeInv
<1> SUFFICES ASSUME Init PROVE TypeInv
  OBVIOUS
<1>1. AccountTypeOK
  BY NothingTyped DEF Init, AccountInit, AccountTypeOK
<1>2. latest \in Versions /\ settled \in {"no", "up", "down"}
  BY Constants DEF Init, Versions
<1>3. DiskTyped /\ ProcessTyped
  BY NoDirTyped, NoModuleTyped, Constants DEF Init, DiskTyped, ProcessTyped, MemTyped
<1>4. ThreadsTyped /\ Registers
  BY RestingPc DEF Init, ThreadsTyped, Registers, At
<1> QED BY <1>1, <1>2, <1>3, <1>4, TypeParts DEF TypeInv

LEMMA TypeStep == TypeInv /\ [Next]_vars => TypeInv'
<1>1. TypeInv /\ Next => TypeInv'
  BY StepTyped, OtherTyped DEF Next
<1>2. TypeInv /\ UNCHANGED vars => TypeInv'
  BY DEF vars, serviceVars, diskVars, processVars, TypeInv, TypeOK, AccountTypeOK, Registers, At
<1> QED BY <1>1, <1>2

\* Whatever overlaps, fails or crashes, files, directories, threads and the
\* loaded package hold what the code keeps there.
THEOREM ProTypeCorrect == Spec => []TypeOK
<1> QED BY TypeInit, TypeStep, PTL DEF Spec, TypeInv

-----------------------------------------------------------------------------
(* What a step does to the thread that takes it.                           *)

\* A call ends: with an answer to write, a module to install, or neither.
LEMMA CallGoes ==
  ASSUME TypeInv, NEW t \in Threads, CallStep(t)
  PROVE  /\ ~Idle(t) /\ OthersStay(t)
         /\ \/ Answered(t) /\ thread'[t].pc \in {"open", "idle"}
            \/ FetchNew(t) /\ thread'[t].pc = "stage" /\ thread'[t].ver = latest
            \/ thread'[t].pc \in {"idle", "update", "load"}
<1> USE DEF Steps
<1>1. ThreadsTyped /\ thread[t].rec \in Record /\ latest \in Versions
      /\ plan \in [Tokens -> Plans] /\ valid \subseteq Tokens
  BY HoldsTyped, TypeParts DEF TypeInv, AccountTypeOK
<1>2. CASE Answered(t)
  <2> DEFINE rec == thread[t].rec
  <2>1. ~Idle(t)
    BY <1>2 DEF Answered, At, Idle
  <2>2. ASSUME NEW new \in Record, GoesWith(t, "open", new)
        PROVE  OthersStay(t) /\ thread'[t].pc = "open"
    BY <1>1, <2>2, GoesWithTo
  <2>3. CASE rec.token \in valid
    <3>1. Signed(rec.token) \in Record
      BY <1>1, <2>3, Constants DEF Signed, Record
    <3> QED BY <1>2, <2>1, <2>2, <2>3, <3>1 DEF Answered
  <2>4. CASE rec.token \notin valid /\ t = Loop
    <3>1. Rejected(rec) \in Record
      BY <1>1 DEF Rejected, Record
    <3> QED BY <1>2, <2>1, <2>2, <2>4, <3>1 DEF Answered
  <2>5. CASE rec.token \notin valid /\ t # Loop
    <3>1. Goes(t, "idle")
      BY <1>2, <2>5 DEF Answered
    <3> QED BY <1>1, <1>2, <2>1, <3>1, GoesIdle
  <2> QED BY <2>3, <2>4, <2>5
<1>3. CASE Unanswered(t) \/ UpToDate(t) \/ FetchFails(t)
  <2>1. PICK pc \in {"update", "idle", "load"} : Goes(t, pc)
    <3>1. CASE Unanswered(t)
      BY <3>1 DEF Unanswered
    <3>2. CASE UpToDate(t) \/ FetchFails(t)
      BY <3>2 DEF UpToDate, FetchFails
    <3> QED BY <1>3, <3>1, <3>2
  <2>2. OthersStay(t) /\ thread'[t].pc = pc
    BY <1>1, <2>1, GoesTo
  <2>3. ~Idle(t)
    BY <1>3 DEF Unanswered, UpToDate, FetchFails, At, Idle
  <2> QED BY <2>1, <2>2, <2>3
<1>4. CASE FetchNew(t)
  <2>1. Installs(t, "stage", latest) /\ ~Idle(t)
    BY <1>4 DEF FetchNew, At, Idle
  <2> QED BY <1>1, <1>4, <2>1, InstallsTo
<1> QED BY <1>2, <1>3, <1>4 DEF CallStep

LEMMA FileGoes ==
  ASSUME TypeInv, NEW t \in Threads, FileStep(t)
  PROVE  /\ ~Idle(t) /\ OthersStay(t)
         /\ \/ /\ Open(t) /\ thread'[t].pc = "flush"
               /\ thread'[t].rec = thread[t].rec /\ thread'[t].linked
            \/ Flush(t) /\ thread'[t].pc \in {"update", "install", "idle"}
<1> USE DEF Steps
<1>1. ThreadsTyped /\ thread[t].rec \in Record
  BY HoldsTyped, TypeParts DEF TypeInv
<1>2. CASE Open(t)
  <2>1. GoesWith(t, "flush", thread[t].rec) /\ ~Idle(t)
    BY <1>2 DEF Open, At, Idle
  <2> QED BY <1>1, <1>2, <2>1, GoesWithTo
<1>3. CASE Flush(t)
  <2>1. PICK pc \in {"update", "install", "idle"} : Goes(t, pc)
    BY <1>3 DEF Flush, AfterWrite
  <2>2. OthersStay(t) /\ thread'[t].pc = pc
    BY <1>1, <2>1, GoesTo
  <2>3. ~Idle(t)
    BY <1>3 DEF Flush, At, Idle
  <2> QED BY <1>3, <2>1, <2>2, <2>3
<1> QED BY <1>2, <1>3 DEF FileStep

LEMMA DiskGoes ==
  ASSUME TypeInv, NEW t \in Threads, DiskStep(t)
  PROVE  /\ ~Idle(t) /\ OthersStay(t) /\ thread'[t].ver = thread[t].ver
         /\ \/ Stage(t) /\ thread'[t].pc = "unpack"
            \/ Unpack(t) /\ thread'[t].pc = "describe"
            \/ Describe(t) /\ thread'[t].pc = "remove"
            \/ Remove(t) /\ thread'[t].pc = "rename"
            \/ Rename(t) /\ thread'[t].pc = "forget"
<1> USE DEF Steps
<1>1. ThreadsTyped /\ thread[t].ver \in Versions \cup {None}
  BY HoldsTyped, TypeParts DEF TypeInv
<1>2. ASSUME NEW pc \in {"unpack", "describe", "remove", "rename", "forget"},
             Installs(t, pc, thread[t].ver)
      PROVE  OthersStay(t) /\ thread'[t].ver = thread[t].ver /\ thread'[t].pc = pc
  BY <1>1, <1>2, InstallsTo
<1>3. ~Idle(t)
  BY DEF DiskStep, Stage, Unpack, Describe, Remove, Rename, At, Idle
<1> QED BY <1>2, <1>3 DEF DiskStep, Stage, Unpack, Describe, Remove, Rename

\* The work of a thread on the process.  Raising at the start ends it.
LEMMA ProcessGoes ==
  ASSUME TypeInv, NEW t \in Threads, ProcessStep(t)
  PROVE  /\ ~Idle(t)
         /\ \/ Dies
            \/ /\ OthersStay(t)
               /\ \/ /\ thread[t].pc # "forget" /\ thread'[t].pc \in {"install", "load", "idle"}
                     /\ UNCHANGED <<mem, served, RESTART_NEEDED>>
                  \/ /\ _forget_import(t) /\ thread'[t].pc \in {"idle", "load"}
                  \/ /\ Load(t) /\ thread'[t].pc = "register" /\ thread'[t].ver = mem'.code
                     /\ mem'.code # None /\ ~mem.loaded /\ ~mem'.loaded
                     /\ UNCHANGED <<served, RESTART_NEEDED>>
                     /\ mem' = mem \/ mem'.code = module.code
                  \/ Register(t) /\ thread'[t].pc = "idle"
               /\ mode' = mode \/ mode' = "up"
<1> USE DEF Steps
<1>1. ThreadsTyped /\ DiskTyped /\ ProcessTyped
  BY TypeParts DEF TypeInv
<1>2. ~Idle(t)
  BY DEF ProcessStep, update, FetchCut, InstallBreaks, _forget_import, Load, Register, At, Idle
<1>3. CASE update(t)
  <2>1. PICK pc \in {"install", "load", "idle"} : Goes(t, pc)
    BY <1>3 DEF update
  <2>2. OthersStay(t) /\ thread'[t].pc = pc
    BY <1>1, <2>1, GoesTo
  <2> QED BY <1>2, <1>3, <2>1, <2>2 DEF update, processVars, At
<1>4. CASE FetchCut(t) \/ InstallBreaks(t)
  <2>1. Raises(t)
    BY <1>4 DEF FetchCut, InstallBreaks
  <2>2. CASE t = Boot
    BY <1>2, <2>1, <2>2 DEF Raises
  <2>3. CASE t # Boot
    <3>1. Goes(t, "idle") /\ UNCHANGED processVars
      BY <2>1, <2>3 DEF Raises
    <3>2. thread[t].pc # "forget"
      BY <1>1, <1>4, RestingPc DEF FetchCut, InstallBreaks, At
    <3> QED BY <1>1, <1>2, <3>1, <3>2, GoesIdle DEF processVars
  <2> QED BY <2>2, <2>3
<1>5. CASE _forget_import(t)
  <2>1. PICK pc \in {"load", "idle"} : Goes(t, pc)
    BY <1>5 DEF _forget_import
  <2>2. OthersStay(t) /\ thread'[t].pc = pc
    BY <1>1, <2>1, GoesTo
  <2> QED BY <1>2, <1>5, <2>1, <2>2 DEF _forget_import
<1>6. ASSUME Ends(t)
      PROVE  OthersStay(t) /\ thread'[t].pc = "idle" /\ (mode' = mode \/ mode' = "up")
  BY <1>1, <1>6, GoesIdle DEF Ends
<1>7. CASE Load(t)
  <2>1. CASE Ends(t) /\ UNCHANGED <<mem, served, RESTART_NEEDED>>
    BY <1>2, <1>6, <1>7, <2>1 DEF Load, At
  <2>2. CASE /\ Installs(t, "register", mem.code) /\ mem.code # None
             /\ ~mem.loaded /\ UNCHANGED processVars
    <3>1. mem.code \in Versions \cup {None}
      BY <1>1 DEF ProcessTyped, MemTyped
    <3>2. OthersStay(t) /\ thread'[t].pc = "register" /\ thread'[t].ver = mem.code
      BY <1>1, <2>2, <3>1, InstallsTo
    <3> QED BY <1>2, <1>7, <2>2, <3>2 DEF processVars
  <2>3. CASE /\ Installs(t, "register", module.code) /\ module.code # None /\ ~mem.loaded
             /\ mem' = [code |-> module.code, loaded |-> FALSE]
             /\ UNCHANGED <<served, RESTART_NEEDED, mode>>
    <3>1. module.code \in Versions \cup {None}
      BY <1>1 DEF DiskTyped, Dir
    <3>2. OthersStay(t) /\ thread'[t].pc = "register" /\ thread'[t].ver = module.code
      BY <1>1, <2>3, <3>1, InstallsTo
    <3> QED BY <1>2, <1>7, <2>3, <3>2
  <2> QED BY <1>7, <2>1, <2>2, <2>3 DEF Load
<1>8. CASE Register(t)
  BY <1>2, <1>6, <1>8 DEF Register
<1> QED BY <1>3, <1>4, <1>5, <1>7, <1>8 DEF ProcessStep

LEMMA StepGoes ==
  ASSUME TypeInv, NEW t \in Threads, Step(t)
  PROVE  ~Idle(t) /\ (Dies \/ (OthersStay(t) /\ (mode' = mode \/ mode' = "up")))
<1>1. CASE CallStep(t)
  BY <1>1, CallGoes DEF CallStep, processVars
<1>2. CASE FileStep(t)
  BY <1>2, FileGoes DEF FileStep, processVars
<1>3. CASE DiskStep(t)
  BY <1>3, DiskGoes DEF DiskStep, processVars
<1>4. CASE ProcessStep(t)
  BY <1>4, ProcessGoes
<1> QED BY <1>1, <1>2, <1>3, <1>4 DEF Step

-----------------------------------------------------------------------------
(* Without Overlap one thread works at a time.                             *)

Alone ==
  /\ \A t, u \in Threads : ~Idle(t) /\ ~Idle(u) => t = u
  /\ mode = "off" => \A t \in Threads : Idle(t)

\* What the user, the timer, the end of the process and a day do: nothing to
\* the disk, and little to a process in which nobody is in the middle of it.
Calm == {"idle", "ask", "install", "update"}
LEMMA OtherGoes ==
  ASSUME ~Overlap, TypeInv, Alone, UserStep \/ Wake \/ Start \/ Stop \/ Day
  PROVE  /\ UNCHANGED <<latest, diskVars>>
         /\ \A t \in Threads : thread'[t].pc \in Calm
         /\ Alone'
         /\ \/ Dies
            \/ /\ \A t \in Threads : thread[t].pc \in Calm
               /\ UNCHANGED <<mem, served, RESTART_NEEDED>>
<1> USE DEF Steps, Calm
<1>1. ThreadsTyped /\ ProcessTyped /\ stored \in Record
  BY TypeParts DEF TypeInv, AccountTypeOK
<1>2. ASSUME NEW t \in Threads, OthersStay(t), \A u \in Threads : Idle(u),
             thread'[t].pc \in Calm, mode' # "off"
      PROVE  (\A u \in Threads : thread'[u].pc \in Calm) /\ Alone'
  BY <1>2 DEF OthersStay, Alone, Idle, At
<1>3. ASSUME NEW r \in Requests, NEW k \in Tokens, meta_account_connect(r, k)
      PROVE  /\ \A u \in Threads : Idle(u) /\ thread'[u].pc \in Calm
             /\ Alone'
  <2>1. r \in Threads /\ [Nothing EXCEPT !.token = k] \in Record
    BY NothingTyped DEF Threads, Record
  <2>2. OthersStay(r) /\ thread'[r].pc = "ask"
    BY <1>1, <1>3, <2>1, GoesWithTo DEF meta_account_connect
  <2>3. mode' # "off" /\ \A u \in Threads : Idle(u)
    BY <1>3 DEF meta_account_connect, MayStart, processVars
  <2> QED BY <1>2, <2>1, <2>2, <2>3
<1>4. CASE \E r \in Requests, k \in Tokens : meta_account_connect(r, k)
  BY <1>3, <1>4 DEF meta_account_connect, serviceVars, processVars, Idle, At
<1>5. CASE meta_account_disconnect
  <2>1. \A u \in Threads : Idle(u)
    BY <1>5 DEF meta_account_disconnect, MayStart
  <2>2. \A u \in Threads : thread'[u] = thread[u]
    BY <1>5, <2>1 DEF meta_account_disconnect, Idle, At
  <2> QED BY <1>5, <2>1, <2>2 DEF meta_account_disconnect, serviceVars, processVars, Alone, Idle, At
<1>6. CASE Wake
  <2>1. OthersStay(Loop) /\ thread'[Loop].pc \in Calm
    <3>1. CASE GoesWith(Loop, "ask", stored)
      BY <1>1, <3>1, GoesWithTo, Constants
    <3>2. CASE Goes(Loop, "update")
      <4>1. OthersStay(Loop) /\ thread'[Loop].pc = "update"
        BY <1>1, <3>2, GoesTo, Constants
      <4> QED BY <4>1
    <3> QED BY <1>6, <3>1, <3>2 DEF Wake
  <2>2. mode' # "off" /\ \A u \in Threads : Idle(u)
    BY <1>6 DEF Wake, MayStart, processVars
  <2>3. (\A u \in Threads : thread'[u].pc \in Calm) /\ Alone'
    BY <1>2, <2>1, <2>2, Constants
  <2> QED BY <1>6, <2>2, <2>3 DEF Wake, serviceVars, processVars, Idle, At
<1>7. CASE Start
  <2>1. OthersStay(Boot) /\ thread'[Boot].pc = "update"
    BY <1>1, <1>7, GoesTo, Constants DEF Start
  <2>2. mode' # "off" /\ \A u \in Threads : Idle(u)
    BY <1>7 DEF Start, Alone
  <2>3. (\A u \in Threads : thread'[u].pc \in Calm) /\ Alone'
    BY <1>2, <2>1, <2>2, Constants
  <2> QED BY <1>7, <2>2, <2>3 DEF Start, serviceVars, Idle, At
<1>8. CASE Stop
  <2>1. Dies /\ UNCHANGED <<latest, diskVars>>
    BY <1>8 DEF Stop, serviceVars
  <2>2. \A u \in Threads : thread'[u].pc = "idle"
    BY <2>1, DiesTo, RestingPc
  <2> QED BY <2>1, <2>2 DEF Alone, Idle, At
<1>9. CASE Day
  <2>1. \A u \in Threads : thread[u].pc \in Calm /\ thread'[u].pc = thread[u].pc
    BY <1>1, <1>9, DayTo
  <2>2. UNCHANGED <<latest, diskVars, mem, served, RESTART_NEEDED, mode>>
    BY <1>9 DEF Day, serviceVars, processVars
  <2> QED BY <2>1, <2>2 DEF Alone, Idle, At
<1> QED BY <1>4, <1>5, <1>6, <1>7, <1>8, <1>9 DEF UserStep

\* While a thread works the others rest, before its step and after it.
LEMMA StepAlone ==
  ASSUME TypeInv, Alone, NEW t \in Threads, Step(t)
  PROVE  /\ Alone'
         /\ \A u \in Threads : u # t => thread[u].pc = "idle" /\ thread'[u].pc = "idle"
<1>1. ~Idle(t) /\ \A u \in Threads : u # t => thread[u].pc = "idle"
  BY StepGoes DEF Alone, Idle, At
<1>2. CASE Dies
  <2>1. \A u \in Threads : thread'[u].pc = "idle"
    BY <1>2, DiesTo, RestingPc
  <2> QED BY <1>1, <2>1 DEF Alone, Idle, At
<1>3. CASE OthersStay(t) /\ (mode' = mode \/ mode' = "up")
  <2>1. \A u \in Threads : u # t => thread'[u].pc = "idle"
    BY <1>1, <1>3 DEF OthersStay
  <2> QED BY <1>1, <1>3, <2>1 DEF Alone, Idle, At
<1> QED BY <1>2, <1>3, StepGoes

LEMMA ServiceGoes ==
  ASSUME TypeInv, Service
  PROVE  /\ UNCHANGED <<stored, diskVars, processVars, thread>>
         /\ latest' >= latest /\ latest' \in Int
<1>1. latest \in Int
  BY TypeParts, Constants DEF TypeInv, Versions
<1> QED BY <1>1 DEF Service, ServiceStep, Pay, Refund, Revoke, Publish, Settle

LEMMA AloneStep == ASSUME ~Overlap, TypeInv, Alone, [Next]_vars PROVE Alone'
<1>1. CASE Service \/ UNCHANGED vars
  <2>1. UNCHANGED <<thread, mode>>
    BY <1>1, ServiceGoes DEF processVars, vars
  <2> QED BY <2>1 DEF Alone, Idle, At
<1>2. CASE \E t \in Threads : Step(t)
  BY <1>2, StepAlone
<1>3. CASE UserStep \/ Wake \/ Start \/ Stop \/ Day
  BY <1>3, OtherGoes
<1> QED BY <1>1, <1>2, <1>3 DEF Next

LEMMA AloneInit == Init => Alone
  BY RestingPc DEF Init, Alone, Idle, At

-----------------------------------------------------------------------------
(* The directories.                                                        *)

InDisk == {"stage", "unpack", "describe", "remove", "rename"}

\* An installation is of a version newer than the module it removes, and puts
\* a whole directory in its place.
DiskInv ==
  /\ module.meta <= latest /\ staging.meta <= latest
  /\ HalfIsReplaced
  /\ \A t \in Threads :
       /\ thread[t].pc \in InDisk => thread[t].ver <= latest
       /\ thread[t].pc \in InDisk \ {"rename"} => module.meta < latest
       /\ At(t, "unpack") => stager = t
       /\ thread[t].pc \in {"describe", "remove", "rename"} => staging.whole

LEMMA DirTyped ==
  ASSUME TypeInv
  PROVE  /\ latest \in Nat /\ latest > 0 /\ module.meta \in Nat /\ staging.meta \in Nat
         /\ module \in Dir /\ staging \in Dir
         /\ \A t \in Threads : thread[t].ver \in Nat
<1>1. latest \in Versions /\ DiskTyped /\ ThreadsTyped
  BY TypeParts DEF TypeInv
<1>2. \A t \in Threads : thread[t].ver \in Versions \cup {None}
  BY <1>1, HoldsTyped
<1> QED BY <1>1, <1>2, Constants DEF DiskTyped, Dir, Versions, None

\* No thread is in the middle of an installation after the step.
LEMMA DiskCalm ==
  ASSUME TypeInv, DiskInv, UNCHANGED diskVars, latest' >= latest, latest' \in Int,
         \A t \in Threads : thread'[t].pc \notin InDisk
  PROVE  DiskInv'
  BY DirTyped DEF DiskInv, HalfIsReplaced, diskVars, InDisk, At

LEMMA DiskInvDisk ==
  ASSUME ~Overlap, TypeInv, Alone, DiskInv, NEW t \in Threads, Step(t), DiskStep(t)
  PROVE  DiskInv'
<1> DEFINE v == thread[t].ver
<1>1. /\ latest \in Nat /\ module.meta \in Nat /\ staging.meta \in Nat /\ v \in Nat
      /\ module \in Dir /\ staging \in Dir /\ UNCHANGED latest
  BY DirTyped DEF Step, serviceVars
<1>2. \A u \in Threads : u # t => thread[u].pc = "idle" /\ thread'[u].pc = "idle"
  BY StepAlone
<1>3. thread'[t].ver = v
  BY DiskGoes
<1>4. NoDir.meta = 0 /\ None = 0
  BY DEF NoDir, None
<1>5. ASSUME module'.meta <= latest /\ staging'.meta <= latest /\ HalfIsReplaced',
             thread'[t].pc \in InDisk => v <= latest,
             thread'[t].pc \in InDisk \ {"rename"} => module'.meta < latest,
             thread'[t].pc = "unpack" => stager' = t,
             thread'[t].pc \in {"describe", "remove", "rename"} => staging'.whole
      PROVE  DiskInv'
  BY <1>1, <1>2, <1>3, <1>5 DEF DiskInv, At, InDisk
<1>6. CASE Stage(t) /\ thread'[t].pc = "unpack"
  BY <1>1, <1>4, <1>5, <1>6 DEF Stage, DiskInv, HalfIsReplaced, At, InDisk
<1>7. CASE Unpack(t) /\ thread'[t].pc = "describe"
  <2>1. stager = t /\ v <= latest /\ module.meta < latest
    BY <1>7 DEF Unpack, DiskInv, At, InDisk
  <2>2. staging' = [code |-> v, meta |-> None, whole |-> TRUE] /\ UNCHANGED module
    BY <1>7, <2>1 DEF Unpack
  <2>3. staging'.meta = 0 /\ staging'.whole
    BY <1>4, <2>2
  <2> QED BY <1>1, <1>5, <1>7, <2>1, <2>2, <2>3 DEF HalfIsReplaced, DiskInv
<1>8. CASE Describe(t) /\ thread'[t].pc = "remove"
  <2>1. staging'.meta = v /\ staging'.whole = staging.whole /\ UNCHANGED <<module, stager>>
    BY <1>1, <1>8 DEF Describe, Dir
  <2> QED BY <1>1, <1>5, <1>8, <2>1 DEF Describe, DiskInv, HalfIsReplaced, At, InDisk
<1>9. CASE Remove(t) /\ thread'[t].pc = "rename"
  <2>1. module.meta < latest /\ v <= latest /\ staging.whole /\ staging.meta <= latest
    BY <1>9 DEF Remove, DiskInv, At, InDisk
  <2>2. \A m \in {None, module.meta} : [module EXCEPT !.whole = FALSE, !.meta = m].meta = m
    BY <1>1 DEF Dir
  <2>3. module' = NoDir \/ module'.meta \in {None, module.meta}
    BY <1>9, <2>2 DEF Remove, Remains
  <2>4. module'.meta < latest
    BY <1>1, <1>4, <2>1, <2>3
  <2>5. staging' = staging
    BY <1>9 DEF Remove
  <2>6. HalfIsReplaced'
    BY <1>1, <2>4 DEF HalfIsReplaced
  <2>7. staging'.whole /\ staging'.meta <= latest
    BY <2>1, <2>5
  <2>8. module'.meta <= latest
    BY <1>9, <1>1, <1>4, <2>3, <2>1
  <2> QED BY <1>5, <1>9, <2>1, <2>6, <2>7, <2>8
<1>10. CASE Rename(t) /\ thread'[t].pc = "forget"
  BY <1>1, <1>4, <1>5, <1>10 DEF Rename, DiskInv, HalfIsReplaced, At, InDisk
<1> QED BY <1>6, <1>7, <1>8, <1>9, <1>10, DiskGoes

LEMMA DiskInvStep ==
  ASSUME ~Overlap, TypeInv, Alone, DiskInv, [Next]_vars
  PROVE  DiskInv'
<1>1. CASE Service \/ UNCHANGED vars
  <2>1. UNCHANGED <<diskVars, thread>> /\ latest' >= latest /\ latest' \in Int
    BY <1>1, ServiceGoes, DirTyped DEF vars, serviceVars
  <2> QED BY <2>1, DirTyped DEF DiskInv, HalfIsReplaced, diskVars, At
<1>2. CASE UserStep \/ Wake \/ Start \/ Stop \/ Day
  <2>1. UNCHANGED <<latest, diskVars>> /\ \A t \in Threads : thread'[t].pc \notin InDisk
    BY <1>2, OtherGoes DEF Calm, InDisk
  <2> QED BY <2>1, DiskCalm, DirTyped
<1>3. ASSUME NEW t \in Threads, Step(t) PROVE DiskInv'
  <2>1. UNCHANGED latest /\ \A u \in Threads : u # t => thread'[u].pc = "idle"
    BY <1>3, StepAlone DEF Step, serviceVars
  <2>2. ASSUME UNCHANGED diskVars, thread'[t].pc \notin InDisk PROVE DiskInv'
    <3>1. \A u \in Threads : thread'[u].pc \notin InDisk
      BY <2>1, <2>2 DEF InDisk
    <3> QED BY <2>1, <2>2, <3>1, DiskCalm, DirTyped
  <2>3. CASE CallStep(t)
    <3>1. UNCHANGED diskVars
      BY <2>3 DEF CallStep
    <3>2. CASE FetchNew(t) /\ thread'[t].pc = "stage" /\ thread'[t].ver = latest
      <4>1. module.meta # latest
        BY <3>2 DEF FetchNew
      <4> QED BY <2>1, <3>1, <3>2, <4>1, DirTyped DEF DiskInv, HalfIsReplaced, diskVars, At, InDisk
    <3>3. CASE thread'[t].pc \in {"open", "idle", "update", "load"}
      BY <2>2, <3>1, <3>3 DEF InDisk
    <3> QED BY <2>3, <3>2, <3>3, CallGoes
  <2>4. CASE FileStep(t)
    BY <2>2, <2>4, FileGoes DEF FileStep, InDisk
  <2>5. CASE DiskStep(t)
    BY <1>3, <2>5, DiskInvDisk
  <2>6. CASE ProcessStep(t)
    <3>1. thread'[t].pc \notin InDisk
      BY <2>6, ProcessGoes, DiesTo, RestingPc DEF InDisk
    <3> QED BY <2>2, <2>6, <3>1 DEF ProcessStep
  <2> QED BY <1>3, <2>3, <2>4, <2>5, <2>6 DEF Step
<1> QED BY <1>1, <1>2, <1>3 DEF Next

LEMMA DiskInvInit == Init => DiskInv
  BY RestingPc DEF Init, DiskInv, HalfIsReplaced, NoDir, None, InDisk, At

\* What an interrupted installation leaves never passes for the newest version,
\* if signing in and out wait for the work that is going on.
THEOREM HalvesReplaced == ASSUME ~Overlap PROVE Spec => []HalfIsReplaced
<1>1. Init => TypeInv /\ Alone /\ DiskInv
  BY TypeInit, AloneInit, DiskInvInit
<1>2. TypeInv /\ Alone /\ DiskInv /\ [Next]_vars => (TypeInv /\ Alone /\ DiskInv)'
  BY TypeStep, AloneStep, DiskInvStep
<1>3. DiskInv => HalfIsReplaced
  BY DEF DiskInv
<1> QED BY <1>1, <1>2, <1>3, PTL DEF Spec

-----------------------------------------------------------------------------
(* The loaded package.                                                     *)

\* The package imported is the one on disk, or the user is told to restart.
Current ==
  mem.code # None =>
    module.code \in {None, mem.code} \/ RESTART_NEEDED \/ \E t \in Threads : At(t, "forget")
\* What serves routes is the package that is loaded, once it registered.
Serving == IF mem.loaded THEN mem.code # None /\ served = {mem.code} ELSE served = {}
Registering == \A t \in Threads : At(t, "register") => ~mem.loaded /\ mem.code = thread[t].ver
MemInv == Serving /\ Registering /\ Current

LEMMA MemTypedNow ==
  ASSUME TypeInv
  PROVE  /\ mem.code \in Versions \cup {None} /\ mem.loaded \in BOOLEAN /\ RESTART_NEEDED \in BOOLEAN
         /\ mem = [code |-> mem.code, loaded |-> mem.loaded]
  BY TypeParts DEF TypeInv, ProcessTyped, MemTyped

LEMMA NothingServed == ASSUME mem' = NoModule, served' = {} PROVE Serving' /\ Current'
  BY DEF Serving, Current, NoModule

LEMMA DiesMem == ASSUME Dies PROVE MemInv'
<1>1. Serving' /\ Current'
  BY DiesTo, NothingServed
<1>2. \A u \in Threads : thread'[u].pc = "idle"
  BY DiesTo, RestingPc
<1> QED BY <1>1, <1>2 DEF MemInv, Registering, At

\* Nobody loads or registers, and the directory keeps its code or loses it.
LEMMA MemCalm ==
  ASSUME MemInv, UNCHANGED <<mem, served, RESTART_NEEDED>>,
         \A t \in Threads : thread[t].pc # "forget" \/ thread'[t].pc = "forget",
         \A t \in Threads : thread'[t].pc # "register",
         \/ module'.code \in {None, module.code}
         \/ \E t \in Threads : thread'[t].pc = "forget"
  PROVE  MemInv'
<1>1. Serving' /\ Registering'
  BY DEF MemInv, Serving, Registering, At
<1>2. Current'
  BY DEF MemInv, Current, At
<1> QED BY <1>1, <1>2 DEF MemInv

LEMMA MemProcess ==
  ASSUME TypeInv, Alone, MemInv, NEW t \in Threads, Step(t), ProcessStep(t)
  PROVE  MemInv'
<1>1. UNCHANGED module /\ \A u \in Threads : u # t => thread[u].pc = "idle" /\ thread'[u].pc = "idle"
  BY StepAlone DEF ProcessStep, diskVars
<1>2. MemTyped
  BY TypeParts DEF TypeInv, ProcessTyped
<1>3. CASE Dies
  BY <1>3, DiesMem
<1>4. CASE /\ OthersStay(t) /\ thread'[t].pc \in {"install", "load", "idle"}
           /\ UNCHANGED <<mem, served, RESTART_NEEDED>> /\ thread[t].pc # "forget"
  <2>1. \A u \in Threads : thread[u].pc # "forget" /\ thread'[u].pc # "register"
    BY <1>1, <1>4
  <2> QED BY <1>1, <1>4, <2>1, MemCalm
<1>5. CASE _forget_import(t) /\ thread'[t].pc \in {"idle", "load"}
  <2>1. Registering'
    BY <1>1, <1>5 DEF Registering, At
  <2>2. CASE mem.loaded
    <3>1. RESTART_NEEDED' = TRUE /\ UNCHANGED <<mem, served>>
      BY <1>5, <2>2 DEF _forget_import, Forgets
    <3> QED BY <2>1, <3>1 DEF MemInv, Serving, Current
  <2>3. CASE ~mem.loaded
    <3>1. mem' = NoModule /\ UNCHANGED served
      BY <1>5, <2>3 DEF _forget_import, Forgets
    <3>2. served = {}
      BY <2>3 DEF MemInv, Serving
    <3> QED BY <2>1, <3>1, <3>2, NothingServed DEF MemInv
  <2> QED BY <2>2, <2>3
<1>6. CASE /\ Load(t) /\ thread'[t].pc = "register" /\ thread'[t].ver = mem'.code
           /\ mem'.code # None /\ ~mem.loaded /\ ~mem'.loaded
           /\ UNCHANGED <<served, RESTART_NEEDED>>
           /\ mem' = mem \/ mem'.code = module.code
  <2>1. Serving'
    BY <1>6 DEF MemInv, Serving
  <2>2. Registering'
    BY <1>1, <1>6 DEF Registering, At
  <2>3. \A u \in Threads : thread[u].pc # "forget"
    BY <1>1, <1>6 DEF Load, At
  <2>4. Current'
    BY <1>1, <1>6, <2>3 DEF MemInv, Current, At
  <2> QED BY <2>1, <2>2, <2>4 DEF MemInv
<1>7. CASE Register(t) /\ thread'[t].pc = "idle"
  <2> DEFINE v == thread[t].ver
  <2>1. ~mem.loaded /\ mem.code = v /\ served = {} /\ v \in Versions
    BY <1>7 DEF Register, MemInv, Registering, Serving, TypeInv, Registers
  <2>2. v # None
    BY <2>1, Constants DEF Versions, None
  <2>3. Registering'
    BY <1>1, <1>7 DEF Registering, At
  <2>4. \A u \in Threads : thread[u].pc # "forget"
    BY <1>1, <1>7 DEF Register, At
  <2>5. UNCHANGED RESTART_NEEDED
    BY <1>7 DEF Register
  <2>6. mem'.code = mem.code
    BY <1>2, <1>7 DEF Register, MemTyped
  <2>7. Current'
    BY <1>1, <2>4, <2>5, <2>6 DEF MemInv, Current, At
  <2>8. CASE UNCHANGED <<mem, served>>
    BY <2>3, <2>7, <2>8 DEF MemInv, Serving
  <2>9. CASE served' = served \cup {v} /\ mem' = [mem EXCEPT !.loaded = TRUE]
    <3>1. mem'.loaded = TRUE /\ mem'.code = v
      BY <1>2, <2>1, <2>9 DEF MemTyped
    <3>2. Serving'
      BY <2>1, <2>2, <2>9, <3>1 DEF Serving
    <3> QED BY <2>3, <2>7, <3>2 DEF MemInv
  <2> QED BY <1>7, <2>1, <2>8, <2>9 DEF Register
<1> QED BY <1>3, <1>4, <1>5, <1>6, <1>7, ProcessGoes

LEMMA MemStep ==
  ASSUME ~Overlap, TypeInv, Alone, MemInv, [Next]_vars
  PROVE  MemInv'
<1>1. CASE Service \/ UNCHANGED vars
  <2>1. UNCHANGED <<diskVars, processVars, thread>>
    BY <1>1, ServiceGoes DEF vars
  <2> QED BY <2>1 DEF MemInv, Serving, Registering, Current, diskVars, processVars, At
<1>2. CASE UserStep \/ Wake \/ Start \/ Stop \/ Day
  <2>1. CASE Dies
    BY <2>1, DiesMem
  <2>2. CASE (\A t \in Threads : thread[t].pc \in Calm) /\ UNCHANGED <<mem, served, RESTART_NEEDED>>
    <3>1. UNCHANGED module /\ \A t \in Threads : thread'[t].pc \in Calm
      BY <1>2, OtherGoes DEF diskVars
    <3> QED BY <2>2, <3>1, MemCalm DEF Calm
  <2> QED BY <1>2, <2>1, <2>2, OtherGoes
<1>3. ASSUME NEW t \in Threads, Step(t) PROVE MemInv'
  <2>1. \A u \in Threads : u # t => thread[u].pc = "idle" /\ thread'[u].pc = "idle"
    BY <1>3, StepAlone
  <2>2. ASSUME UNCHANGED processVars, UNCHANGED module \/ thread'[t].pc = "forget"
                 \/ module'.code \in {None, module.code},
               thread[t].pc # "forget", thread'[t].pc # "register"
        PROVE  MemInv'
    BY <2>1, <2>2, MemCalm DEF processVars
  <2>3. CASE CallStep(t)
    <3>1. thread[t].pc # "forget"
      BY <2>3 DEF CallStep, Answered, Unanswered, FetchNew, UpToDate, FetchFails, At
    <3>2. thread'[t].pc # "register"
      BY <2>3, CallGoes
    <3> QED BY <2>2, <2>3, <3>1, <3>2 DEF CallStep, diskVars
  <2>4. CASE FileStep(t)
    <3>1. thread[t].pc # "forget"
      BY <2>4 DEF FileStep, Open, Flush, At
    <3>2. thread'[t].pc # "register"
      BY <2>4, FileGoes
    <3> QED BY <2>2, <2>4, <3>1, <3>2 DEF FileStep, diskVars
  <2>5. CASE DiskStep(t)
    <3>1. thread[t].pc # "forget"
      BY <2>5 DEF DiskStep, Stage, Unpack, Describe, Remove, Rename, At
    <3>2. thread'[t].pc # "register"
      BY <2>5, DiskGoes
    <3>3. Remove(t) => module'.code \in {None, module.code}
      <4>1. \A m \in {None, module.meta} :
              [module EXCEPT !.whole = FALSE, !.meta = m].code = module.code
        BY DirTyped DEF Dir
      <4>2. NoDir.code = None
        BY DEF NoDir
      <4>3. Remove(t) => module' = NoDir
              \/ \E m \in {None, module.meta} : module' = [module EXCEPT !.whole = FALSE, !.meta = m]
        BY DEF Remove, Remains
      <4> QED BY <4>1, <4>2, <4>3
    <3>4. Stage(t) \/ Unpack(t) \/ Describe(t) => UNCHANGED module
      BY DEF Stage, Unpack, Describe
    <3> QED BY <2>2, <2>5, <3>1, <3>2, <3>3, <3>4, DiskGoes DEF DiskStep
  <2>6. CASE ProcessStep(t)
    BY <1>3, <2>6, MemProcess
  <2> QED BY <1>3, <2>3, <2>4, <2>5, <2>6 DEF Step
<1> QED BY <1>1, <1>2, <1>3 DEF Next

LEMMA MemInit == Init => MemInv
  BY RestingPc DEF Init, MemInv, Serving, Registering, Current, NoModule, None, At

LEMMA MemRuns == MemInv => RunsInstalled
<1> SUFFICES ASSUME MemInv PROVE RunsInstalled
  OBVIOUS
<1>1. Cardinality(served) <= 1
  <2>1. CASE mem.loaded
    <3>1. served = {mem.code}
      BY <2>1 DEF MemInv, Serving
    <3>2. Cardinality({mem.code}) = 1
      BY FS_Singleton
    <3> QED BY <3>1, <3>2
  <2>2. CASE ~mem.loaded
    <3>1. served = {}
      BY <2>2 DEF MemInv, Serving
    <3> QED BY <3>1, FS_EmptySet
  <2> QED BY <2>1, <2>2
<1>2. \A v \in served : v = mem.code /\ mem.code # None
  BY DEF MemInv, Serving
<1> QED BY <1>1, <1>2 DEF MemInv, Current, RunsInstalled

\* The app runs one version at a time, the one on disk or the user is told to
\* restart, if signing in and out wait for the work that is going on.
THEOREM RunsWhatIsInstalled == ASSUME ~Overlap PROVE Spec => []RunsInstalled
<1>1. Init => TypeInv /\ Alone /\ MemInv
  BY TypeInit, AloneInit, MemInit
<1>2. TypeInv /\ Alone /\ MemInv /\ [Next]_vars => (TypeInv /\ Alone /\ MemInv)'
  BY TypeStep, AloneStep, MemStep
<1> QED BY <1>1, <1>2, MemRuns, PTL DEF Spec

-----------------------------------------------------------------------------
(* The account.                                                            *)

\* What is about to be written is a good answer, or the account of this
\* machine with the warning; and nobody else has written meanwhile.
KeepInv ==
  \A t \in Threads :
    /\ At(t, "ask") /\ t = Loop => thread[t].rec = stored
    /\ At(t, "open") => good(thread[t].rec) \/ thread[t].rec = Rejected(stored)
    /\ At(t, "flush") => stored = Nothing /\ thread[t].linked

LEMMA HeldIs ==
  ASSUME Alone, KeepInv
  PROVE  /\ (\A t \in Threads : ~At(t, "flush")) => Held = stored
         /\ \A t \in Threads : At(t, "flush") => Held = thread[t].rec
<1> DEFINE writers == {t \in Threads : At(t, "flush") /\ thread[t].linked}
<1>1. ASSUME \A t \in Threads : ~At(t, "flush") PROVE Held = stored
  <2>1. writers = {}
    BY <1>1
  <2> QED BY <2>1 DEF Held
<1>2. ASSUME NEW t \in Threads, At(t, "flush") PROVE Held = thread[t].rec
  <2>1. stored = Nothing /\ thread[t].linked
    BY <1>2 DEF KeepInv
  <2>2. \A u \in Threads : At(u, "flush") => u = t
    BY <1>2 DEF Alone, Idle, At
  <2>3. writers = {t}
    BY <1>2, <2>1, <2>2
  <2>4. (CHOOSE u \in writers : TRUE) = t
    BY <2>3
  <2> QED BY <2>1, <2>3, <2>4 DEF Held
<1> QED BY <1>1, <1>2

LEMMA HeldIsNext ==
  ASSUME Alone', KeepInv'
  PROVE  /\ (\A t \in Threads : thread'[t].pc # "flush") => Held' = stored'
         /\ \A t \in Threads : thread'[t].pc = "flush" => Held' = thread'[t].rec
<1> DEFINE writers == {t \in Threads : At(t, "flush") /\ thread[t].linked}
<1>1. ASSUME \A t \in Threads : thread'[t].pc # "flush" PROVE Held' = stored'
  <2>1. writers' = {}
    BY <1>1 DEF At
  <2> QED BY <2>1 DEF Held
<1>2. ASSUME NEW t \in Threads, thread'[t].pc = "flush" PROVE Held' = thread'[t].rec
  <2>1. stored' = Nothing /\ thread'[t].linked
    BY <1>2 DEF KeepInv, At
  <2>2. \A u \in Threads : thread'[u].pc = "flush" => u = t
    BY <1>2 DEF Alone, Idle, At
  <2>3. writers' = {t}
    BY <1>2, <2>1, <2>2 DEF At
  <2>4. (CHOOSE u \in writers' : TRUE) = t
    BY <2>3
  <2> QED BY <2>1, <2>3, <2>4 DEF Held
<1> QED BY <1>1, <1>2

\* An answer: signed and so good for a term, or that the token is not known.
LEMMA AnswerWrites ==
  ASSUME TypeInv, KeepInv, NEW t \in Threads, Answered(t), thread'[t].pc # "idle"
  PROVE  good(thread'[t].rec) \/ thread'[t].rec = Rejected(stored)
<1> DEFINE rec == thread[t].rec
<1> USE DEF Steps
<1>1. ThreadsTyped /\ rec \in Record /\ plan \in [Tokens -> Plans] /\ valid \subseteq Tokens
  BY HoldsTyped, TypeParts DEF TypeInv, AccountTypeOK
<1>2. CASE rec.token \in valid
  <2>1. Signed(rec.token) \in Record /\ good(Signed(rec.token))
    BY <1>1, <1>2, Constants DEF Signed, Record, good
  <2>2. GoesWith(t, "open", Signed(rec.token))
    BY <1>2 DEF Answered
  <2>3. thread'[t].rec = Signed(rec.token)
    BY <1>1, <2>1, <2>2, GoesWithTo
  <2> QED BY <2>1, <2>3
<1>3. CASE rec.token \notin valid /\ t = Loop
  <2>1. Rejected(rec) \in Record /\ rec = stored
    BY <1>1, <1>3 DEF Rejected, Record, Answered, KeepInv
  <2>2. GoesWith(t, "open", Rejected(rec))
    BY <1>3 DEF Answered
  <2>3. thread'[t].rec = Rejected(rec)
    BY <1>1, <2>1, <2>2, GoesWithTo
  <2> QED BY <2>1, <2>3
<1>4. CASE rec.token \notin valid /\ t # Loop
  <2>1. Goes(t, "idle")
    BY <1>4 DEF Answered
  <2> QED BY <1>1, <2>1, GoesIdle
<1> QED BY <1>2, <1>3, <1>4

\* Who neither asks nor writes after the step keeps the invariant.
LEMMA KeepCalm ==
  ASSUME \A t \in Threads : thread'[t].pc \notin {"ask", "open", "flush"}
  PROVE  KeepInv'
  BY DEF KeepInv, At

LEMMA KeepStep ==
  ASSUME ~Overlap, TypeInv, Alone, KeepInv, [Next]_vars
  PROVE  KeepInv'
<1> USE DEF Steps
<1>1. ThreadsTyped /\ stored \in Record
  BY TypeParts DEF TypeInv, AccountTypeOK
<1>2. CASE Service \/ UNCHANGED vars
  <2>1. UNCHANGED <<stored, thread>>
    BY <1>2, ServiceGoes DEF vars
  <2> QED BY <2>1 DEF KeepInv, At
<1>3. CASE UserStep
  <2>1. CASE meta_account_disconnect
    <3>1. \A u \in Threads : Idle(u)
      BY <2>1 DEF meta_account_disconnect, MayStart
    <3>2. \A u \in Threads : thread'[u] = thread[u]
      BY <2>1, <3>1 DEF meta_account_disconnect, Idle, At
    <3> QED BY <3>1, <3>2, KeepCalm DEF Idle, At
  <2>2. ASSUME NEW r \in Requests, NEW k \in Tokens, meta_account_connect(r, k) PROVE KeepInv'
    <3>1. r \in Threads /\ r # Loop /\ [Nothing EXCEPT !.token = k] \in Record
      BY NothingTyped, Constants DEF Threads, Record
    <3>2. OthersStay(r) /\ thread'[r].pc = "ask"
      BY <1>1, <2>2, <3>1, GoesWithTo DEF meta_account_connect
    <3>3. \A u \in Threads : Idle(u)
      BY <2>2 DEF meta_account_connect, MayStart
    <3> QED BY <3>1, <3>2, <3>3 DEF KeepInv, OthersStay, Idle, At
  <2> QED BY <1>3, <2>1, <2>2 DEF UserStep
<1>4. CASE Wake
  <2>1. (\A u \in Threads : Idle(u)) /\ UNCHANGED stored
    BY <1>4 DEF Wake, MayStart
  <2>2. CASE GoesWith(Loop, "ask", stored)
    <3>1. OthersStay(Loop) /\ thread'[Loop].pc = "ask" /\ thread'[Loop].rec = stored
      BY <1>1, <2>2, GoesWithTo, Constants
    <3> QED BY <2>1, <3>1 DEF KeepInv, OthersStay, Idle, At
  <2>3. CASE Goes(Loop, "update")
    <3>1. OthersStay(Loop) /\ thread'[Loop].pc = "update"
      BY <1>1, <2>3, GoesTo, Constants
    <3> QED BY <2>1, <3>1, KeepCalm DEF OthersStay, Idle, At
  <2> QED BY <1>4, <2>2, <2>3 DEF Wake
<1>5. CASE Start
  <2>1. OthersStay(Boot) /\ thread'[Boot].pc = "update"
    BY <1>1, <1>5, GoesTo, Constants DEF Start
  <2>2. \A u \in Threads : Idle(u)
    BY <1>5 DEF Start, Alone
  <2> QED BY <2>1, <2>2, KeepCalm DEF OthersStay, Idle, At
<1>6. CASE Stop
  <2>1. \A u \in Threads : thread'[u].pc = "idle"
    BY <1>6, DiesTo, RestingPc DEF Stop
  <2> QED BY <2>1, KeepCalm
<1>7. CASE Day
  <2>1. stored' = Aged(stored)
    BY <1>7 DEF Day
  <2>2. \A u \in Threads : /\ thread[u].pc \in {"idle", "ask", "install"}
                           /\ thread'[u].pc = thread[u].pc
                           /\ thread'[u].rec = Aged(thread[u].rec)
    BY <1>1, <1>7, DayTo
  <2> QED BY <2>1, <2>2 DEF KeepInv, At
<1>8. ASSUME NEW t \in Threads, Step(t) PROVE KeepInv'
  <2>1. \A u \in Threads : u # t => thread'[u].pc = "idle"
    BY <1>8, StepAlone
  <2>2. ASSUME thread'[t].pc \notin {"ask", "open", "flush"} PROVE KeepInv'
    BY <2>1, <2>2, KeepCalm
  <2>3. CASE CallStep(t)
    <3>1. UNCHANGED stored
      BY <2>3 DEF CallStep
    <3>2. CASE Answered(t) /\ thread'[t].pc = "open"
      <4>1. good(thread'[t].rec) \/ thread'[t].rec = Rejected(stored)
        BY <3>2, AnswerWrites
      <4> QED BY <2>1, <3>1, <3>2, <4>1 DEF KeepInv, At
    <3> QED BY <2>2, <2>3, <3>2, CallGoes
  <2>4. CASE FileStep(t)
    <3>1. CASE Open(t) /\ thread'[t].pc = "flush" /\ thread'[t].linked
      BY <2>1, <3>1 DEF KeepInv, Open, At
    <3> QED BY <2>2, <2>4, <3>1, FileGoes
  <2>5. CASE DiskStep(t)
    BY <2>2, <2>5, DiskGoes
  <2>6. CASE ProcessStep(t)
    <3>1. thread'[t].pc \notin {"ask", "open", "flush"}
      BY <2>6, ProcessGoes, DiesTo, RestingPc
    <3> QED BY <2>2, <3>1
  <2> QED BY <1>8, <2>3, <2>4, <2>5, <2>6 DEF Step
<1> QED BY <1>2, <1>3, <1>4, <1>5, <1>6, <1>7, <1>8 DEF Next

LEMMA KeepInit == Init => KeepInv
  BY RestingPc DEF Init, KeepInv, At

\* A thread that writes replaces the account by a good answer, or by itself
\* with the warning.
LEMMA FileKeeps ==
  ASSUME TypeInv, Alone, KeepInv, Alone', KeepInv', NEW t \in Threads, Step(t), FileStep(t),
         pro(Held), ~pro(Held')
  PROVE  good(Held') /\ Held'.plan = "free"
<1> DEFINE rec == thread[t].rec
<1>1. rec \in Record /\ stored \in Record
  BY HoldsTyped, TypeParts DEF TypeInv, AccountTypeOK
<1>2. \A u \in Threads : u # t => thread[u].pc = "idle" /\ thread'[u].pc = "idle"
  BY StepAlone
<1>3. CASE Open(t) /\ thread'[t].pc = "flush" /\ thread'[t].rec = rec
  <2>1. Held = stored
    BY <1>2, <1>3, HeldIs DEF Open, At
  <2>2. Held' = rec
    BY <1>3, HeldIsNext
  <2>3. good(rec) \/ rec = Rejected(stored)
    BY <1>3 DEF Open, KeepInv
  <2>4. Rejected(stored).left = stored.left /\ Rejected(stored).plan = stored.plan
    BY <1>1 DEF Rejected, Record
  <2>5. rec # Rejected(stored)
    BY <2>1, <2>2, <2>4 DEF pro, good
  <2> QED BY <1>1, <2>2, <2>3, <2>5 DEF pro, Record, Plans
<1>4. CASE Flush(t) /\ thread'[t].pc \in {"update", "install", "idle"}
  <2>1. At(t, "flush") /\ stored = Nothing /\ thread[t].linked
    BY <1>4 DEF Flush, KeepInv
  <2>2. Held = rec
    BY <2>1, HeldIs
  <2>3. stored' = rec
    BY <1>4, <2>1 DEF Flush
  <2>4. Held' = stored'
    BY <1>2, <1>4, HeldIsNext
  <2> QED BY <2>2, <2>3, <2>4
<1> QED BY <1>3, <1>4, FileGoes

\* The account this machine has changes with a day, when somebody signs in or
\* out, when the process ends, and when a thread writes the file.
LEMMA HeldMoves ==
  ASSUME ~Overlap, TypeInv, Alone, KeepInv, Alone', KeepInv', Next
  PROVE  \/ Held' = Held
         \/ Day \/ meta_account_disconnect \/ Stop
         \/ \E t \in Threads : Step(t) /\ FileStep(t)
<1>1. ASSUME UNCHANGED stored,
             \A u \in Threads : thread[u].pc # "flush" /\ thread'[u].pc # "flush"
      PROVE  Held' = Held
  <2>1. Held = stored
    BY <1>1, HeldIs DEF At
  <2>2. Held' = stored'
    BY <1>1, HeldIsNext
  <2> QED BY <1>1, <2>1, <2>2
<1>2. ASSUME UserStep \/ Wake \/ Start, ~meta_account_disconnect PROVE Held' = Held
  <2>1. UNCHANGED stored
    BY <1>2 DEF UserStep, meta_account_connect, Wake, Start
  <2>2. \A u \in Threads : thread'[u].pc \in Calm
    BY <1>2, OtherGoes
  <2>3. \A u \in Threads : thread[u].pc = "idle"
    BY <1>2 DEF UserStep, meta_account_connect, Wake, Start, MayStart, Alone, Idle, At
  <2> QED BY <1>1, <2>1, <2>2, <2>3 DEF Calm
<1>3. CASE Service
  BY <1>3, ServiceGoes DEF Held, At
<1>4. ASSUME NEW t \in Threads, Step(t), ~FileStep(t) PROVE Held' = Held
  <2>1. \A u \in Threads : u # t => thread[u].pc = "idle" /\ thread'[u].pc = "idle"
    BY <1>4, StepAlone
  <2>2. CASE CallStep(t)
    <3>1. thread[t].pc # "flush" /\ UNCHANGED stored
      BY <2>2 DEF CallStep, Answered, Unanswered, FetchNew, UpToDate, FetchFails, At
    <3>2. thread'[t].pc # "flush"
      BY <2>2, CallGoes
    <3> QED BY <1>1, <2>1, <3>1, <3>2
  <2>3. CASE DiskStep(t)
    <3>1. thread[t].pc # "flush" /\ UNCHANGED stored
      BY <2>3 DEF DiskStep, Stage, Unpack, Describe, Remove, Rename, At
    <3>2. thread'[t].pc # "flush"
      BY <2>3, DiskGoes
    <3> QED BY <1>1, <2>1, <3>1, <3>2
  <2>4. CASE ProcessStep(t)
    <3>1. thread[t].pc # "flush" /\ UNCHANGED stored
      BY <2>4 DEF ProcessStep, update, FetchCut, InstallBreaks, _forget_import, Load, Register, At
    <3>2. thread'[t].pc # "flush"
      BY <2>4, ProcessGoes, DiesTo, RestingPc
    <3> QED BY <1>1, <2>1, <3>1, <3>2
  <2> QED BY <1>4, <2>2, <2>3, <2>4 DEF Step
<1> QED BY <1>2, <1>3, <1>4 DEF Next

\* Neither an outage nor a revoked token takes Pro from a paid account before
\* its answer expires, if signing in and out wait for the work that goes on.
THEOREM ProIsKept == ASSUME ~Overlap PROVE Spec => KeepsPro
<1> DEFINE Keeps == pro(Held) /\ ~pro(Held') =>
                      \/ Day \/ meta_account_disconnect \/ mode' = "off"
                      \/ good(Held') /\ Held'.plan = "free"
           IInv == TypeInv /\ Alone /\ KeepInv
<1>1. Init => IInv
  BY TypeInit, AloneInit, KeepInit
<1>2. IInv /\ [Next]_vars => IInv'
  BY TypeStep, AloneStep, KeepStep
<1>3. IInv /\ [Next]_vars => [Keeps]_vars
  <2> SUFFICES ASSUME IInv, Next, pro(Held), ~pro(Held'),
                      ~Day, ~meta_account_disconnect, mode' # "off"
               PROVE  good(Held') /\ Held'.plan = "free"
    OBVIOUS
  <2>1. IInv'
    BY <1>2
  <2>2. Held' # Held /\ ~Stop
    BY DEF Stop, Dies
  <2>3. PICK t \in Threads : Step(t) /\ FileStep(t)
    BY <2>1, <2>2, HeldMoves
  <2> QED BY <2>1, <2>3, FileKeeps
<1> QED BY <1>1, <1>2, <1>3, PTL DEF Spec, KeepsPro
=============================================================================
