---------------------------- MODULE Pools_proofs ----------------------------
(***************************************************************************)
(* Theorems about Pools, for any deploys, pools, names, lists, threads and *)
(* any number of crashes.                                                  *)
(***************************************************************************)
EXTENDS Pools, TLAPS

-----------------------------------------------------------------------------
(* The invariant.                                                          *)

Row == {NoRow} \cup {r \in [name : Names, ends : Deploys \X Deploys] : r.ends[1] # r.ends[2]}
Rows == [PoolIds -> Row]
Lines == [PoolIds -> Seq(Deploys)]

EditRec == [pc : {"idle", "clear", "fill", "check", "drop", "dropped"}, id : PoolIds \cup {NoPool},
            list : Lists \cup {<<>>}, new : BOOLEAN]
TurnRec == [pc : {"idle", "ladder", "serve"}, id : PoolIds \cup {NoPool},
            ends : Seq(Deploys), ids : Seq(Deploys), lists : SUBSET Lists]

\* The handler at work writes a pool, or deletes one.
Writing == edit.pc \in {"clear", "fill", "check"}
Dropping == edit.pc \in {"drop", "dropped"}

\* TypeOK does not say what an edit and a turn carry.
TypeInv ==
  /\ table \in [Deploys -> Statuses]
  /\ made \in 0..Len(Pools)
  /\ pools \in Rows /\ members \in Lines
  /\ disk \in [pools : Rows, members : Lines]
  /\ edit \in EditRec
  /\ edit.pc # "idle" => edit.id \in PoolIds
  /\ Writing => edit.list \in Lists
  /\ turn \in [Threads -> TurnRec]
  /\ \A t \in Threads : turn[t].pc # "idle" => turn[t].id \in PoolIds
  /\ meant \in [PoolIds -> SUBSET Lists]
  /\ cut \subseteq PoolIds /\ refused \subseteq PoolIds
  /\ crashes \in 0..MaxCrashes

\* The ids given out so far.
Minted == {Pools[i] : i \in 1..made}

\* A refused pool is nowhere, its id is not minted again and nobody edits it.
Nowhere(p) ==
  pools[p] = NoRow /\ members[p] = <<>> /\ disk.pools[p] = NoRow /\ disk.members[p] = <<>>
RefusedInv ==
  /\ refused \subseteq Minted
  /\ \A p \in refused : Nowhere(p)
  /\ \A p \in PoolIds \ Minted : pools[p] = NoRow /\ disk.pools[p] = NoRow
  /\ edit.pc # "idle" => edit.id \in Minted \ refused
  /\ Dropping => pools[edit.id] = NoRow
  /\ edit.pc = "dropped" => members[edit.id] = <<>>

\* s is the beginning of one of the lists.
Begins(s, lists) == \E list \in lists : IsPrefix(s, list)
Editing(p) == edit.pc \in {"clear", "fill"} /\ edit.id = p

\* What was committed, and what the connection sees, against what was meant.
\* The disk misses no more than the statements of one transaction.
MeantOf(p) ==
  /\ \/ pools[p] = disk.pools[p]
     \/ Dropping /\ edit.id = p /\ pools[p] = NoRow
  /\ (edit.pc \in {"fill", "dropped"} /\ edit.id = p) \/ disk.members[p] = members[p]
  /\ members[p] = <<>> \/ Begins(members[p], meant[p])
  /\ disk.members[p] = <<>> \/ Begins(disk.members[p], meant[p])
  /\ disk.pools[p] # NoRow => Begins(disk.pools[p].ends, meant[p])
  /\ disk.pools[p] # NoRow /\ ~Editing(p) =>
       disk.members[p] # <<>> /\ (p \notin cut => meant[p] = {disk.members[p]})
EditInv ==
  /\ Writing =>
       IsPool(edit.id) /\ edit.list \in meant[edit.id] /\ pools[edit.id].ends = Ends(edit.list)
  /\ edit.pc = "fill" => IsPrefix(members[edit.id], edit.list)
  /\ Dropping => pools[edit.id] = NoRow
  /\ edit.pc = "dropped" => members[edit.id] = <<>>
MeantInv == (\A p \in PoolIds : MeantOf(p)) /\ EditInv

\* A turn knows every list its pool may have had since it began.
LadderOf(t) ==
  /\ turn[t].pc # "idle" =>
       /\ meant[turn[t].id] \subseteq turn[t].lists
       /\ turn[t].ends # <<>> /\ Begins(turn[t].ends, turn[t].lists)
  /\ turn[t].pc = "serve" => turn[t].ids # <<>> /\ Begins(turn[t].ids, turn[t].lists)
LadderInv == \A t \in Threads : LadderOf(t)

-----------------------------------------------------------------------------
(* Lemmas.                                                                 *)

\* What the assumption says of the constants, in parts.
LEMMA Constants ==
  /\ MaxCrashes \in Nat /\ NoName \notin Names
  /\ Len(Pools) \in Nat /\ DOMAIN Pools = 1..Len(Pools) /\ IsInjective(Pools)
  /\ \A i \in 1..Len(Pools) : Pools[i] \in PoolIds
<1>1. MaxCrashes \in Nat /\ NoName \notin Names /\ Pools \in Seq(PoolIds) /\ IsInjective(Pools)
  BY PoolsAssumption, Zenon DEF PoolsAssumption
<1>2. Len(Pools) \in Nat /\ DOMAIN Pools = 1..Len(Pools)
  BY <1>1
<1>3. \A i \in 1..Len(Pools) : Pools[i] \in PoolIds
  BY <1>1
<1> QED BY <1>1, <1>2, <1>3

\* The first two of a list of distinct deploys differ.
LEMMA EndsDiffer ==
  ASSUME NEW list \in Lists
  PROVE  Ends(list) \in Deploys \X Deploys /\ Ends(list)[1] # Ends(list)[2]
<1>1. list \in Seq(Deploys) /\ Len(list) >= 2 /\ IsInjective(list)
  BY PoolsAssumption DEF PoolsAssumption
<1>2. 1 \in DOMAIN list /\ 2 \in DOMAIN list
  BY <1>1
<1>3. list[1] \in Deploys /\ list[2] \in Deploys
  BY <1>1, <1>2
<1>4. list[1] # list[2]
  BY <1>1, <1>2 DEF IsInjective
<1> QED BY <1>3, <1>4 DEF Ends

\* Both ends of a row are a list of deploys, and of no row they are none.
LEMMA EndsTyped ==
  ASSUME NEW rows \in Rows, NEW p \in PoolIds
  PROVE  rows[p].ends \in Seq(Deploys)
<1>1. CASE rows[p] = NoRow
  <2>1. NoRow.ends = <<>>
    BY DEF NoRow
  <2>2. rows[p].ends = <<>>
    BY <1>1, <2>1
  <2> QED BY <2>2
<1>2. CASE rows[p] # NoRow
  <2>1. rows[p].ends \in Deploys \X Deploys
    BY <1>2 DEF Rows, Row
  <2>2. PICK d \in Deploys, e \in Deploys : rows[p].ends = <<d, e>>
    BY <2>1
  <2>3. <<d, e>> \in Seq(Deploys)
    OBVIOUS
  <2> QED BY <2>2, <2>3
<1> QED BY <1>1, <1>2

\* What the next start fills in is a list of deploys.
LEMMA BackfilledIsList ==
  ASSUME NEW rows \in Rows, NEW ms \in Lines
  PROVE  Backfilled(rows, ms) \in Lines
  BY EndsTyped DEF Backfilled, Lines

\* A row that is written keeps the table's type.
LEMMA WriteTyped ==
  ASSUME TypeInv, NEW p \in PoolIds, NEW name \in Names, NEW list \in Lists
  PROVE  [pools EXCEPT ![p] = [name |-> name, ends |-> Ends(list)]] \in Rows
  BY EndsDiffer DEF TypeInv, Rows, Row

-----------------------------------------------------------------------------
(* Types.                                                                  *)

LEMMA IdleTyped == NoEdit \in EditRec /\ IdleTurn \in TurnRec
<1>1. NoEdit \in EditRec
  BY DEF NoEdit, EditRec
<1>2. <<>> \in Seq(Deploys)
  OBVIOUS
<1>3. IdleTurn \in TurnRec
  BY <1>2 DEF IdleTurn, TurnRec
<1> QED BY <1>1, <1>3

LEMMA TypeInit == Init => TypeInv
<1> SUFFICES ASSUME Init PROVE TypeInv
  OBVIOUS
<1>1. pools \in Rows
  BY DEF Init, Rows, Row
<1>2. members \in Lines
  <2>1. <<>> \in Seq(Deploys)
    OBVIOUS
  <2> QED BY <2>1 DEF Init, Lines
<1>3. disk \in [pools : Rows, members : Lines]
  BY <1>1, <1>2 DEF Init
<1>4. edit \in EditRec /\ edit.pc = "idle"
  BY IdleTyped DEF Init, NoEdit
<1>5. turn \in [Threads -> TurnRec] /\ \A t \in Threads : turn[t].pc = "idle"
  BY IdleTyped DEF Init, IdleTurn
<1>6. table \in [Deploys -> Statuses]
  BY DEF Init, Statuses
<1>7. made \in 0..Len(Pools) /\ crashes \in 0..MaxCrashes
  BY Constants DEF Init
<1>8. meant \in [PoolIds -> SUBSET Lists] /\ cut \subseteq PoolIds /\ refused \subseteq PoolIds
  BY DEF Init
<1> QED BY <1>1, <1>2, <1>3, <1>4, <1>5, <1>6, <1>7, <1>8 DEF TypeInv, Writing

LEMMA WriteRowTyped ==
  ASSUME TypeInv, NEW p \in PoolIds, NEW name \in Names, NEW list \in Lists,
         NEW new \in BOOLEAN, WriteRow(p, name, list, new), made' \in 0..Len(Pools)
  PROVE  TypeInv'
<1>1. pools' \in Rows /\ disk' \in [pools : Rows, members : Lines]
  BY WriteTyped DEF WriteRow, Commits, TypeInv
<1>2. meant' \in [PoolIds -> SUBSET Lists]
  BY DEF WriteRow, TypeInv
<1>3. edit' \in EditRec /\ edit'.id \in PoolIds /\ edit'.list \in Lists
  BY DEF WriteRow, EditRec
<1>4. turn' \in [Threads -> TurnRec]
      /\ \A t \in Threads : turn'[t].pc # "idle" => turn'[t].id \in PoolIds
  <2>1. ASSUME NEW t \in Threads
        PROVE  [turn[t] EXCEPT !.lists = @ \cup {list}] \in TurnRec
    BY DEF TypeInv, TurnRec
  <2>2. ASSUME NEW t \in Threads
        PROVE  turn'[t] \in TurnRec /\ (turn'[t].pc # "idle" => turn'[t].id \in PoolIds)
    BY <2>1 DEF WriteRow, TypeInv, TurnRec
  <2> QED BY <2>2 DEF WriteRow
<1>5. members' \in Lines /\ table' \in [Deploys -> Statuses]
      /\ cut' \subseteq PoolIds /\ refused' \subseteq PoolIds /\ crashes' \in 0..MaxCrashes
  BY DEF WriteRow, TypeInv
<1> QED BY <1>1, <1>2, <1>3, <1>4, <1>5 DEF TypeInv

LEMMA EditTyped == TypeInv /\ EditStep => TypeInv'
<1> SUFFICES ASSUME TypeInv, EditStep PROVE TypeInv'
  OBVIOUS
<1> USE DEF ghosts, Writing
<1>1. CASE Clear
  <2>1. <<>> \in Seq(Deploys)
    OBVIOUS
  <2>2. members' \in Lines
    BY <1>1, <2>1 DEF Clear, TypeInv, Lines
  <2>3. edit' \in EditRec /\ edit'.id = edit.id /\ edit'.list = edit.list
    BY <1>1 DEF Clear, TypeInv, EditRec
  <2> QED BY <1>1, <2>2, <2>3 DEF Clear, TypeInv
<1>2. CASE Fill
  <2>1. edit.id \in PoolIds /\ edit.list \in Seq(Deploys)
    BY <1>2, PoolsAssumption DEF Fill, TypeInv, PoolsAssumption
  <2>2. members[edit.id] \in Seq(Deploys)
    BY <2>1 DEF TypeInv, Lines
  <2>3. edit.list[Len(members[edit.id]) + 1] \in Deploys
    BY <1>2, <2>1, <2>2 DEF Fill
  <2>4. Append(members[edit.id], edit.list[Len(members[edit.id]) + 1]) \in Seq(Deploys)
    BY <2>2, <2>3
  <2>5. members' \in Lines
    BY <1>2, <2>4 DEF Fill, TypeInv, Lines
  <2> QED BY <1>2, <2>5 DEF Fill, TypeInv
<1>3. CASE Filled
  <2>1. edit' \in EditRec /\ edit'.id = edit.id /\ edit'.list = edit.list
    BY <1>3 DEF Filled, TypeInv, EditRec
  <2>2. edit.id \in PoolIds /\ edit.list \in Lists
    BY <1>3 DEF Filled, TypeInv
  <2>3. meant' \in [PoolIds -> SUBSET Lists]
    BY <1>3, <2>2 DEF Filled, TypeInv
  <2>4. disk' \in [pools : Rows, members : Lines]
    BY <1>3 DEF Filled, Commits, TypeInv
  <2>5. cut' \subseteq PoolIds
    BY <1>3 DEF Filled, TypeInv
  <2> QED BY <1>3, <2>1, <2>2, <2>3, <2>4, <2>5 DEF Filled, TypeInv
<1>4. CASE Accepted \/ UpdateRefused
  <2>1. edit' = NoEdit
    BY <1>4 DEF Accepted, UpdateRefused
  <2>2. edit' \in EditRec /\ edit'.pc = "idle"
    BY <2>1, IdleTyped DEF NoEdit
  <2> QED BY <1>4, <2>2 DEF Accepted, UpdateRefused, TypeInv
<1>5. CASE CreateRefused
  <2>1. pools' \in Rows
    BY <1>5 DEF CreateRefused, TypeInv, Rows, Row
  <2>2. edit' \in EditRec /\ edit'.pc = "drop" /\ edit'.id = edit.id /\ edit.pc = "check"
    BY <1>5 DEF CreateRefused, TypeInv, EditRec
  <2> QED BY <1>5, <2>1, <2>2 DEF CreateRefused, TypeInv
<1>6. CASE Drop
  <2>1. <<>> \in Seq(Deploys)
    OBVIOUS
  <2>2. members' \in Lines
    BY <1>6, <2>1 DEF Drop, TypeInv, Lines
  <2>3. edit' \in EditRec /\ edit'.pc = "dropped" /\ edit'.id = edit.id /\ edit.pc = "drop"
    BY <1>6 DEF Drop, TypeInv, EditRec
  <2> QED BY <1>6, <2>2, <2>3 DEF Drop, TypeInv
<1>7. CASE Dropped
  <2>1. disk' \in [pools : Rows, members : Lines]
    BY <1>7 DEF Dropped, Commits, TypeInv
  <2>2. edit' \in EditRec /\ edit'.pc = "idle"
    BY <1>7, IdleTyped DEF Dropped, NoEdit
  <2>3. refused' \subseteq PoolIds
    BY <1>7 DEF Dropped, Refuses, TypeInv
  <2> QED BY <1>7, <2>1, <2>2, <2>3 DEF Dropped, TypeInv
<1> QED BY <1>1, <1>2, <1>3, <1>4, <1>5, <1>6, <1>7 DEF EditStep

LEMMA TypeStep == TypeInv /\ [Next]_vars => TypeInv'
<1> SUFFICES ASSUME TypeInv, [Next]_vars PROVE TypeInv'
  OBVIOUS
<1> USE DEF ghosts, Writing
<1>1. ASSUME NEW d \in Deploys, DeathNoted(d) \/ DeployChanges(d) PROVE TypeInv'
  <2>1. table' \in [Deploys -> Statuses]
    BY <1>1 DEF DeathNoted, DeployChanges, TypeInv, Statuses
  <2>2. disk' \in [pools : Rows, members : Lines]
    BY <1>1 DEF DeathNoted, DeployChanges, Commits, TypeInv
  <2> QED BY <1>1, <2>1, <2>2 DEF DeathNoted, DeployChanges, TypeInv
<1>2. ASSUME NEW name \in Names, NEW list \in Lists, create_pool(name, list) PROVE TypeInv'
  <2>1. made + 1 \in 1..Len(Pools) /\ made' \in 0..Len(Pools)
    BY <1>2, Constants DEF create_pool, TypeInv
  <2>2. Pools[made + 1] \in PoolIds
    BY <2>1, Constants
  <2> QED BY <1>2, <2>1, <2>2, WriteRowTyped DEF create_pool
<1>3. ASSUME NEW p \in PoolIds, NEW name \in Names, NEW list \in Lists,
             update_pool(p, name, list) PROVE TypeInv'
  <2>1. made' \in 0..Len(Pools)
    BY <1>3 DEF update_pool, TypeInv
  <2> QED BY <1>3, <2>1, WriteRowTyped DEF update_pool
<1>4. ASSUME NEW p \in PoolIds, destroy_pool(p) PROVE TypeInv'
  <2>1. pools' \in Rows
    BY <1>4 DEF destroy_pool, TypeInv, Rows, Row
  <2>2. edit' \in EditRec /\ edit'.pc = "drop" /\ edit'.id = p
    BY <1>4 DEF destroy_pool, EditRec
  <2> QED BY <1>4, <2>1, <2>2 DEF destroy_pool, TypeInv
<1>5. ASSUME NEW t \in Threads, NEW what, Ask(t, what) PROVE TypeInv'
  <2>1. PICK p \in PoolIds :
          turn' = [turn EXCEPT ![t] = [IdleTurn EXCEPT !.pc = "ladder", !.id = p,
                                         !.ends = pools[p].ends, !.lists = meant[p]]]
    BY <1>5 DEF Ask
  <2>2. pools[p].ends \in Seq(Deploys)
    BY <2>1, EndsTyped DEF TypeInv
  <2>3. turn'[t] \in TurnRec /\ turn'[t].id \in PoolIds
    BY <2>1, <2>2, IdleTyped DEF TypeInv, TurnRec
  <2>4. turn' \in [Threads -> TurnRec]
        /\ \A u \in Threads : turn'[u].pc # "idle" => turn'[u].id \in PoolIds
    BY <2>1, <2>3 DEF TypeInv
  <2> QED BY <1>5, <2>4 DEF Ask, TypeInv
<1>6. ASSUME NEW t \in Threads, get_pool_models(t) PROVE TypeInv'
  <2>1. turn[t] \in TurnRec /\ turn[t].id \in PoolIds
    BY <1>6 DEF get_pool_models, TypeInv
  <2>2. members[turn[t].id] \in Seq(Deploys) /\ turn[t].ends \in Seq(Deploys)
    BY <2>1 DEF TypeInv, Lines, TurnRec
  <2>3. turn'[t] \in TurnRec /\ turn'[t].id = turn[t].id
    BY <1>6, <2>1, <2>2 DEF get_pool_models, TypeInv, TurnRec
  <2>4. turn' \in [Threads -> TurnRec]
        /\ \A u \in Threads : turn'[u].pc # "idle" => turn'[u].id \in PoolIds
    BY <1>6, <2>1, <2>3 DEF get_pool_models, TypeInv
  <2> QED BY <1>6, <2>4 DEF get_pool_models, TypeInv
<1>7. ASSUME NEW t \in Threads, TurnEnds(t) PROVE TypeInv'
  <2>1. disk' \in [pools : Rows, members : Lines]
    BY <1>7 DEF TurnEnds, Commits, TypeInv
  <2>2. turn' \in [Threads -> TurnRec]
        /\ \A u \in Threads : turn'[u].pc # "idle" => turn'[u].id \in PoolIds
    BY <1>7, IdleTyped DEF TurnEnds, TypeInv, IdleTurn
  <2> QED BY <1>7, <2>1, <2>2 DEF TurnEnds, TypeInv
<1>8. CASE Crash
  <2>1. pools' \in Rows /\ members' \in Lines
    BY <1>8, BackfilledIsList DEF Crash, TypeInv
  <2>2. disk' \in [pools : Rows, members : Lines]
    BY <1>8, <2>1 DEF Crash, Commits
  <2>3. edit' \in EditRec /\ edit'.pc = "idle"
    BY <1>8, IdleTyped DEF Crash, NoEdit
  <2>4. turn' \in [Threads -> TurnRec] /\ \A t \in Threads : turn'[t].pc = "idle"
    BY <1>8, IdleTyped DEF Crash, IdleTurn
  <2>5. cut' \subseteq PoolIds
    BY <1>8 DEF Crash, TypeInv
  <2>6. crashes' \in 0..MaxCrashes
    BY <1>8, Constants DEF Crash, TypeInv
  <2> QED BY <1>8, <2>1, <2>2, <2>3, <2>4, <2>5, <2>6 DEF Crash, TypeInv
<1>9. CASE UNCHANGED vars
  BY <1>9 DEF vars, TypeInv
<1> QED BY <1>1, <1>2, <1>3, <1>4, <1>5, <1>6, <1>7, <1>8, <1>9, EditTyped DEF Next

\* The tables, the edit, the turns and the refused pools have their types
\* (central/db.py, the pool handlers of central/app.py).
THEOREM PoolsTypeCorrect == Spec => []TypeOK
<1>1. TypeInv => TypeOK
  <2> SUFFICES ASSUME TypeInv PROVE TypeOK
    OBVIOUS
  <2>1. ASSUME NEW rows \in Rows, NEW p \in PoolIds, rows[p] # NoRow
        PROVE  /\ rows[p].name \in Names
               /\ \E d, e \in Deploys : d # e /\ rows[p].ends = <<d, e>>
    <3>1. rows[p] \in [name : Names, ends : Deploys \X Deploys] /\ rows[p].ends[1] # rows[p].ends[2]
      BY <2>1 DEF Rows, Row
    <3>2. PICK d \in Deploys, e \in Deploys : rows[p].ends = <<d, e>>
      BY <3>1
    <3> QED BY <3>1, <3>2
  <2>2. ASSUME NEW db \in {[pools |-> pools, members |-> members], disk}
        PROVE  db.pools \in Rows /\ db.members \in Lines
    BY <2>2 DEF TypeInv
  <2>3. ASSUME NEW db \in {[pools |-> pools, members |-> members], disk}, NEW p \in PoolIds
        PROVE  /\ db.pools[p] = NoRow \/
                    /\ db.pools[p].name \in Names
                    /\ \E d, e \in Deploys : d # e /\ db.pools[p].ends = <<d, e>>
               /\ db.members[p] \in Seq(Deploys)
    BY <2>1, <2>2 DEF Lines
  <2>4. edit.pc \in {"idle", "clear", "fill", "check", "drop", "dropped"}
        /\ \A t \in Threads : turn[t].pc \in {"idle", "ladder", "serve"}
    BY DEF TypeInv, EditRec, TurnRec
  <2> QED BY <2>3, <2>4 DEF TypeOK, TypeInv
<1> QED BY <1>1, TypeInit, TypeStep, PTL DEF Spec

-----------------------------------------------------------------------------
(* Names.                                                                  *)

Unique(rows) ==
  \A p, q \in PoolIds : rows[p] # NoRow /\ rows[p].name = rows[q].name => p = q

\* Taking a pool out disturbs no name: no pool has the name of an absent one.
LEMMA UniqueWithout ==
  ASSUME NEW rows \in Rows, Unique(rows), NEW p
  PROVE  Unique([rows EXCEPT ![p] = NoRow])
<1>1. ASSUME NEW q \in PoolIds, rows[q] # NoRow PROVE rows[q].name # NoRow.name
  BY <1>1, Constants DEF Rows, Row, NoRow
<1> QED BY <1>1 DEF Unique, Rows

\* Writing a pool under a name that is free keeps the names apart.
LEMMA UniqueWith ==
  ASSUME Unique(pools), pools \in Rows, NEW p \in PoolIds, NEW name \in Names,
         NameFree(p, name), NEW ends
  PROVE  Unique([pools EXCEPT ![p] = [name |-> name, ends |-> ends]])
<1> DEFINE new == [name |-> name, ends |-> ends]
<1>1. name # NoRow.name
  BY Constants DEF NoRow
<1>2. ASSUME NEW q \in PoolIds, q # p PROVE pools[q].name # name
  <2>1. CASE pools[q] = NoRow
    BY <2>1, <1>1
  <2>2. CASE pools[q] # NoRow
    BY <1>2, <2>2 DEF NameFree, Live, IsPool
  <2> QED BY <2>1, <2>2
<1>3. new.name = name
  OBVIOUS
<1> HIDE DEF new
<1> QED BY <1>2, <1>3 DEF Unique, Rows

\* How a step may change the rows, and that the disk gets what the connection
\* sees or nothing.
LEMMA RowsStep ==
  ASSUME TypeInv, Next
  PROVE  /\ \/ pools' = pools
            \/ pools' = disk.pools
            \/ \E p \in PoolIds : pools' = [pools EXCEPT ![p] = NoRow]
            \/ \E p \in PoolIds, name \in Names, list \in Lists :
                 /\ NameFree(p, name)
                 /\ pools' = [pools EXCEPT ![p] = [name |-> name, ends |-> Ends(list)]]
         /\ disk'.pools \in {pools', disk.pools}
<1>1. ASSUME NEW d \in Deploys, DeathNoted(d) \/ DeployChanges(d)
      PROVE  pools' = pools /\ disk'.pools \in {pools', disk.pools}
  BY <1>1 DEF DeathNoted, DeployChanges, Commits
<1>2. ASSUME NEW p \in PoolIds, NEW name \in Names, NEW list \in Lists, NEW new,
             WriteRow(p, name, list, new)
      PROVE  /\ NameFree(p, name)
             /\ pools' = [pools EXCEPT ![p] = [name |-> name, ends |-> Ends(list)]]
             /\ disk'.pools = pools'
  BY <1>2 DEF WriteRow, Commits
<1>3. ASSUME NEW name \in Names, NEW list \in Lists, create_pool(name, list)
      PROVE  \E p \in PoolIds : WriteRow(p, name, list, TRUE)
  <2>1. Pools[made + 1] \in PoolIds
    BY <1>3, Constants DEF create_pool, TypeInv
  <2> QED BY <1>3, <2>1 DEF create_pool
<1>4. ASSUME NEW p \in PoolIds, destroy_pool(p)
      PROVE  pools' = [pools EXCEPT ![p] = NoRow] /\ disk' = disk
  BY <1>4 DEF destroy_pool
<1>5. ASSUME EditStep
      PROVE  /\ pools' = pools \/ \E p \in PoolIds : pools' = [pools EXCEPT ![p] = NoRow]
             /\ disk'.pools \in {pools', disk.pools}
  <2>1. CASE CreateRefused
    BY <2>1 DEF CreateRefused, TypeInv
  <2>2. CASE Filled \/ Dropped
    BY <2>2 DEF Filled, Dropped, Commits
  <2>3. CASE Clear \/ Fill \/ Accepted \/ UpdateRefused \/ Drop
    BY <2>3 DEF Clear, Fill, Accepted, UpdateRefused, Drop
  <2> QED BY <1>5, <2>1, <2>2, <2>3 DEF EditStep
<1>6. ASSUME NEW t \in Threads, NEW what, Ask(t, what) \/ get_pool_models(t) \/ TurnEnds(t)
      PROVE  pools' = pools /\ disk'.pools \in {pools', disk.pools}
  <2>1. CASE Ask(t, what)
    BY <2>1 DEF Ask
  <2>2. CASE get_pool_models(t)
    BY <2>2 DEF get_pool_models
  <2>3. CASE TurnEnds(t)
    BY <2>3 DEF TurnEnds, Commits
  <2> QED BY <1>6, <2>1, <2>2, <2>3
<1>7. CASE Crash
  BY <1>7 DEF Crash, Commits
<1>8. CASE \E name \in Names, list \in Lists :
             \/ create_pool(name, list)
             \/ \E p \in PoolIds : update_pool(p, name, list)
  <2>1. PICK p \in PoolIds, name \in Names, list \in Lists, new \in BOOLEAN :
          WriteRow(p, name, list, new)
    BY <1>8, <1>3 DEF update_pool
  <2> QED BY <1>2, <2>1
<1>9. CASE \E t \in Threads :
             \/ \E what \in {"router", "auto"} \cup Deploys \cup PoolIds \cup Names : Ask(t, what)
             \/ get_pool_models(t) \/ TurnEnds(t)
  <2>1. PICK t \in Threads :
             \/ \E what \in {"router", "auto"} \cup Deploys \cup PoolIds \cup Names : Ask(t, what)
             \/ get_pool_models(t) \/ TurnEnds(t)
    BY <1>9
  <2> QED BY <1>6, <2>1
<1>10. CASE \E d \in Deploys : DeathNoted(d) \/ DeployChanges(d)
  BY <1>1, <1>10
<1>11. CASE \E p \in PoolIds : destroy_pool(p)
  BY <1>4, <1>11
<1> QED BY <1>5, <1>7, <1>8, <1>9, <1>10, <1>11 DEF Next

\* No two pools of a user share a name, in the connection or on disk, through
\* edits, refusals and crashes (app._resolve_pool_args).
THEOREM NamesStayApart == Spec => []NamesApart
<1> DEFINE Inv == TypeInv /\ Unique(pools) /\ Unique(disk.pools)
<1>1. Init => Inv
  <2> SUFFICES ASSUME Init PROVE Unique(pools) /\ Unique(disk.pools)
    BY TypeInit
  <2>1. disk.pools = pools /\ \A p \in PoolIds : pools[p] = NoRow
    BY DEF Init
  <2> QED BY <2>1 DEF Unique
<1>2. Inv /\ [Next]_vars => Inv'
  <2> SUFFICES ASSUME Inv, [Next]_vars PROVE Inv'
    OBVIOUS
  <2>1. TypeInv'
    BY TypeStep
  <2>2. CASE Next
    <3>1. Unique(pools')
      <4>1. CASE pools' = pools \/ pools' = disk.pools
        BY <4>1
      <4>2. ASSUME NEW p \in PoolIds, pools' = [pools EXCEPT ![p] = NoRow]
            PROVE  Unique(pools')
        BY <4>2, UniqueWithout DEF TypeInv
      <4>3. ASSUME NEW p \in PoolIds, NEW name \in Names, NEW list \in Lists, NameFree(p, name),
                   pools' = [pools EXCEPT ![p] = [name |-> name, ends |-> Ends(list)]]
            PROVE  Unique(pools')
        BY <4>3, UniqueWith DEF TypeInv
      <4> QED BY <2>2, <4>1, <4>2, <4>3, RowsStep
    <3>2. Unique(disk'.pools)
      BY <2>2, <3>1, RowsStep
    <3> QED BY <2>1, <3>1, <3>2
  <2>3. CASE UNCHANGED vars
    BY <2>1, <2>3 DEF vars
  <2> QED BY <2>2, <2>3
<1>3. Inv => NamesApart
  BY DEF Unique, NamesApart
<1> QED BY <1>1, <1>2, <1>3, PTL DEF Spec

-----------------------------------------------------------------------------
(* Refused pools.                                                          *)

\* Who writes to a pool that is not refused leaves the refused ones alone.
LEMMA WriteRefuses ==
  ASSUME TypeInv, RefusedInv, NEW p \in PoolIds \ refused, NEW name, NEW list, NEW new,
         WriteRow(p, name, list, new), made' = made \/ made' = made + 1, p \in Minted'
  PROVE  RefusedInv'
<1>1. Minted \subseteq Minted'
  BY DEF Minted, TypeInv
<1>2. refused' = refused /\ members' = members /\ disk'.members = members
      /\ disk'.pools = pools' /\ edit'.id = p
  BY DEF WriteRow, Commits
<1>3. \A q \in PoolIds : q # p => pools'[q] = pools[q]
  BY DEF WriteRow, TypeInv, Rows
<1>4. \A q \in refused : Nowhere(q)'
  BY <1>2, <1>3 DEF RefusedInv, Nowhere, TypeInv
<1>5. \A q \in PoolIds \ Minted' : pools'[q] = NoRow /\ disk'.pools[q] = NoRow
  BY <1>1, <1>2, <1>3 DEF RefusedInv
<1>6. edit'.pc = "clear"
  BY DEF WriteRow
<1> QED BY <1>1, <1>2, <1>4, <1>5, <1>6 DEF RefusedInv, Dropping

LEMMA RefusedStep == TypeInv /\ RefusedInv /\ [Next]_vars => RefusedInv'
<1> SUFFICES ASSUME TypeInv, RefusedInv, [Next]_vars PROVE RefusedInv'
  OBVIOUS
<1> USE DEF ghosts, Dropping
<1>1. ASSUME NEW d \in Deploys, DeathNoted(d) \/ DeployChanges(d) PROVE RefusedInv'
  BY <1>1 DEF DeathNoted, DeployChanges, Commits, RefusedInv, Nowhere, Minted
<1>2. ASSUME NEW name \in Names, NEW list \in Lists, create_pool(name, list) PROVE RefusedInv'
  <2> DEFINE p == Pools[made + 1]
  <2>1. made + 1 \in 1..Len(Pools) /\ made' = made + 1
    BY <1>2, Constants DEF create_pool, TypeInv
  <2>2. p \in PoolIds /\ p \notin Minted /\ p \in Minted'
    BY <2>1, Constants DEF Minted, IsInjective, TypeInv
  <2>3. WriteRow(p, name, list, TRUE)
    BY <1>2 DEF create_pool
  <2> QED BY <2>1, <2>2, <2>3, WriteRefuses DEF RefusedInv
<1>3. ASSUME NEW p \in PoolIds, NEW name \in Names, NEW list \in Lists,
             update_pool(p, name, list) PROVE RefusedInv'
  <2>1. p \in Minted /\ p \notin refused
    BY <1>3 DEF update_pool, IsPool, RefusedInv, Nowhere
  <2>2. made' = made /\ p \in Minted'
    BY <1>3, <2>1 DEF update_pool, Minted
  <2> QED BY <1>3, <2>1, <2>2, WriteRefuses DEF update_pool
<1>4. ASSUME NEW p \in PoolIds, destroy_pool(p) PROVE RefusedInv'
  <2>1. p \in Minted \ refused
    BY <1>4 DEF destroy_pool, IsPool, RefusedInv, Nowhere
  <2>2. \A q \in PoolIds : pools'[q] = IF q = p THEN NoRow ELSE pools[q]
    BY <1>4 DEF destroy_pool, TypeInv, Rows
  <2>3. edit'.id = p /\ edit'.pc = "drop" /\ UNCHANGED <<made, members, disk, refused>>
    BY <1>4 DEF destroy_pool
  <2> QED BY <2>1, <2>2, <2>3 DEF RefusedInv, Nowhere, Minted, TypeInv
<1>5. CASE Clear \/ Fill
  <2>1. /\ edit.pc # "idle" /\ edit'.id = edit.id /\ edit'.pc = "fill"
        /\ UNCHANGED <<made, pools, disk, refused>>
    BY <1>5 DEF Clear, Fill, TypeInv, EditRec
  <2>2. \A q \in PoolIds : q # edit.id => members'[q] = members[q]
    BY <1>5 DEF Clear, Fill, TypeInv, Lines
  <2> QED BY <2>1, <2>2 DEF RefusedInv, Nowhere, Minted, TypeInv
<1>6. CASE Filled
  <2>1. edit.pc # "idle" /\ edit'.id = edit.id /\ edit'.pc = "check"
    BY <1>6 DEF Filled, TypeInv, EditRec
  <2>2. UNCHANGED <<made, pools, members, refused>> /\ disk'.pools = pools /\ disk'.members = members
    BY <1>6 DEF Filled, Commits
  <2> QED BY <2>1, <2>2 DEF RefusedInv, Nowhere, Minted
<1>7. CASE Accepted \/ UpdateRefused
  BY <1>7 DEF Accepted, UpdateRefused, NoEdit, RefusedInv, Nowhere, Minted
<1>8. CASE CreateRefused
  <2>1. edit.id \in PoolIds /\ edit.id \in Minted \ refused
    BY <1>8 DEF CreateRefused, TypeInv, RefusedInv
  <2>2. \A q \in PoolIds : pools'[q] = IF q = edit.id THEN NoRow ELSE pools[q]
    BY <1>8 DEF CreateRefused, TypeInv, Rows
  <2>3. edit'.id = edit.id /\ edit'.pc = "drop" /\ UNCHANGED <<made, members, disk, refused>>
    BY <1>8 DEF CreateRefused, TypeInv, EditRec
  <2> QED BY <2>1, <2>2, <2>3 DEF RefusedInv, Nowhere, Minted, TypeInv
<1>13. CASE Drop
  <2>1. /\ edit.pc = "drop" /\ edit'.id = edit.id /\ edit'.pc = "dropped"
        /\ UNCHANGED <<made, pools, disk, refused>>
    BY <1>13 DEF Drop, TypeInv, EditRec
  <2>2. \A q \in PoolIds : members'[q] = IF q = edit.id THEN <<>> ELSE members[q]
    BY <1>13 DEF Drop, TypeInv, Lines
  <2> QED BY <2>1, <2>2 DEF RefusedInv, Nowhere, Minted, TypeInv
<1>14. CASE Dropped
  <2>1. /\ pools[edit.id] = NoRow /\ members[edit.id] = <<>>
        /\ edit.id \in PoolIds /\ edit.id \in Minted
    BY <1>14 DEF Dropped, RefusedInv, TypeInv
  <2>2. /\ UNCHANGED <<made, pools, members>> /\ disk'.pools = pools /\ disk'.members = members
        /\ refused' \subseteq refused \cup {edit.id} /\ edit'.pc = "idle"
    BY <1>14 DEF Dropped, Commits, Refuses, NoEdit
  <2> QED BY <2>1, <2>2 DEF RefusedInv, Nowhere, Minted, TypeInv
<1>9. ASSUME NEW t \in Threads, NEW what, Ask(t, what) \/ get_pool_models(t) \/ TurnEnds(t)
      PROVE  RefusedInv'
  <2>1. UNCHANGED <<made, pools, members, edit, refused>>
    BY <1>9 DEF Ask, get_pool_models, TurnEnds
  <2>2. disk' = disk \/ (disk'.pools = pools /\ disk'.members = members)
    <3>1. CASE Ask(t, what) \/ get_pool_models(t)
      BY <3>1 DEF Ask, get_pool_models
    <3>2. CASE TurnEnds(t)
      BY <3>2 DEF TurnEnds, Commits
    <3> QED BY <1>9, <3>1, <3>2
  <2> QED BY <2>1, <2>2 DEF RefusedInv, Nowhere, Minted
<1>10. CASE Crash
  <2>1. UNCHANGED <<made, refused>> /\ edit'.pc = "idle"
    BY <1>10 DEF Crash, NoEdit
  <2>2. pools' = disk.pools /\ disk'.pools = pools' /\ disk'.members = members'
    BY <1>10 DEF Crash, Commits
  <2>3. \A q \in PoolIds : disk.pools[q] = NoRow /\ disk.members[q] = <<>> => members'[q] = <<>>
    <3>1. NoRow.ends = <<>>
      BY DEF NoRow
    <3> QED BY <1>10, <3>1 DEF Crash, Backfilled
  <2> QED BY <2>1, <2>2, <2>3 DEF RefusedInv, Nowhere, Minted, TypeInv
<1>11. CASE UNCHANGED vars
  BY <1>11 DEF vars, RefusedInv, Nowhere, Minted
<1>12. CASE \E t \in Threads :
             \/ \E what \in {"router", "auto"} \cup Deploys \cup PoolIds \cup Names : Ask(t, what)
             \/ get_pool_models(t) \/ TurnEnds(t)
  BY <1>9, <1>12
<1> QED BY <1>1, <1>2, <1>3, <1>4, <1>5, <1>6, <1>7, <1>8, <1>10, <1>11, <1>12, <1>13, <1>14
        DEF Next, EditStep

\* A pool whose creation was refused is nowhere, and no commit of another
\* thread and no crash brings it back (central/app.py:1117).
THEOREM RefusedStaysGone == Spec => []RefusedIsGone
<1>1. Init => RefusedInv
  BY DEF Init, NoEdit, RefusedInv, Minted, Dropping
<1>2. TypeInv /\ RefusedInv => RefusedIsGone
  BY DEF TypeInv, RefusedInv, Nowhere, RefusedIsGone, IsPool
<1> QED BY <1>1, <1>2, TypeInit, TypeStep, RefusedStep, PTL DEF Spec

-----------------------------------------------------------------------------
(* Beginnings of lists.                                                    *)

LEMMA PrefixPoints ==
  ASSUME NEW s \in Seq(Deploys), NEW t \in Seq(Deploys)
  PROVE  IsPrefix(s, t) <=> Len(s) <= Len(t) /\ \A i \in 1..Len(s) : s[i] = t[i]
<1> DEFINE u == SubSeq(s, 1, Len(s))
           v == SubSeq(t, 1, Len(s))
<1>1. CASE Len(s) <= Len(t)
  <2>1. u \in Seq(Deploys) /\ v \in Seq(Deploys)
    BY <1>1
  <2>2. Len(u) = Len(s) /\ Len(v) = Len(s)
    BY <1>1
  <2>3. \A i \in 1..Len(s) : u[i] = s[i] /\ v[i] = t[i]
    BY <1>1
  <2>4. IsPrefix(s, t) <=> u = v
    BY <1>1 DEF IsPrefix
  <2> HIDE DEF u, v
  <2>5. (\A i \in 1..Len(s) : u[i] = v[i]) => u = v
    BY <2>1, <2>2
  <2>6. (\A i \in 1..Len(s) : u[i] = v[i]) <=> \A i \in 1..Len(s) : s[i] = t[i]
    BY <2>3
  <2>7. u = v => \A i \in 1..Len(s) : u[i] = v[i]
    OBVIOUS
  <2> QED BY <1>1, <2>4, <2>5, <2>6, <2>7
<1>2. CASE ~(Len(s) <= Len(t))
  BY <1>2 DEF IsPrefix
<1> QED BY <1>1, <1>2

LEMMA PrefixGrows ==
  ASSUME NEW s \in Seq(Deploys), NEW t \in Seq(Deploys), IsPrefix(s, t), Len(s) < Len(t)
  PROVE  IsPrefix(Append(s, t[Len(s) + 1]), t)
<1> DEFINE u == Append(s, t[Len(s) + 1])
<1>1. t[Len(s) + 1] \in Deploys
  OBVIOUS
<1>2. u \in Seq(Deploys) /\ Len(u) = Len(s) + 1 /\ u[Len(s) + 1] = t[Len(s) + 1]
      /\ \A i \in 1..Len(s) : u[i] = s[i]
  BY <1>1
<1>3. \A i \in 1..Len(u) : u[i] = t[i]
  BY <1>2, PrefixPoints
<1> HIDE DEF u
<1>4. IsPrefix(u, t)
  BY <1>2, <1>3, PrefixPoints
<1> QED BY <1>4 DEF u

LEMMA PrefixWhole ==
  ASSUME NEW s \in Seq(Deploys), NEW t \in Seq(Deploys), IsPrefix(s, t), Len(s) >= Len(t)
  PROVE  s = t
<1>1. Len(s) = Len(t) /\ \A i \in 1..Len(s) : s[i] = t[i]
  BY PrefixPoints
<1> QED BY <1>1

LEMMA PrefixSelf ==
  ASSUME NEW t \in Seq(Deploys)
  PROVE  IsPrefix(t, t)
  BY PrefixPoints

LEMMA PrefixEmpty ==
  ASSUME NEW s \in Seq(Deploys), s = <<>>, NEW t \in Seq(Deploys)
  PROVE  IsPrefix(s, t)
<1>1. Len(s) = 0 /\ 0 <= Len(t)
  OBVIOUS
<1>2. \A i \in 1..Len(s) : s[i] = t[i]
  BY <1>1
<1> QED BY <1>1, <1>2, PrefixPoints

LEMMA EndsBegin ==
  ASSUME NEW list \in Lists
  PROVE  list \in Seq(Deploys) /\ list # <<>> /\ Ends(list) # <<>> /\ IsPrefix(Ends(list), list)
<1>1. list \in Seq(Deploys) /\ Len(list) >= 2
  BY PoolsAssumption, Zenon DEF PoolsAssumption
<1>2. list[1] \in Deploys /\ list[2] \in Deploys
  BY <1>1
<1>3. Ends(list) \in Seq(Deploys) /\ Len(Ends(list)) = 2
      /\ Ends(list)[1] = list[1] /\ Ends(list)[2] = list[2]
  BY <1>2 DEF Ends
<1>4. \A i \in 1..Len(Ends(list)) : Ends(list)[i] = list[i]
  BY <1>3
<1>5. IsPrefix(Ends(list), list)
  BY <1>1, <1>3, <1>4, PrefixPoints
<1>6. Len(<<>>) = 0
  OBVIOUS
<1> QED BY <1>1, <1>3, <1>5, <1>6

-----------------------------------------------------------------------------
(* What is stored.                                                         *)

LEMMA EndsNotEmpty ==
  ASSUME NEW rows \in Rows, NEW p \in PoolIds, rows[p] # NoRow
  PROVE  rows[p].ends # <<>>
<1>1. PICK d \in Deploys, e \in Deploys : rows[p].ends = <<d, e>>
  BY DEF Rows, Row
<1>2. Len(<<d, e>>) = 2 /\ Len(<<>>) = 0
  OBVIOUS
<1> QED BY <1>1, <1>2

\* A row is committed with the members the pool had.
LEMMA MeantWrite ==
  ASSUME TypeInv, MeantInv, NEW p \in PoolIds, NEW name \in Names, NEW list \in Lists, NEW new,
         WriteRow(p, name, list, new)
  PROVE  MeantInv'
<1> DEFINE row == [name |-> name, ends |-> Ends(list)]
<1>1. /\ disk'.pools = pools' /\ disk'.members = members /\ members' = members
      /\ edit' = [pc |-> "clear", id |-> p, list |-> list, new |-> new]
      /\ cut' = cut /\ edit.pc = "idle"
  BY DEF WriteRow, Commits, Quiet
<1>2. pools' = [pools EXCEPT ![p] = row]
  BY DEF WriteRow
<1>3. row # NoRow /\ row.ends = Ends(list)
  BY Constants DEF NoRow
<1>4. pools'[p] = row /\ \A q \in PoolIds : q # p => pools'[q] = pools[q]
  BY <1>2 DEF TypeInv, Rows
<1>5. /\ meant'[p] = meant[p] \cup {list}
      /\ \A q \in PoolIds : q # p => meant'[q] = meant[q]
  BY DEF WriteRow, TypeInv
<1>6. Begins(Ends(list), meant'[p])
  BY <1>5, EndsBegin DEF Begins
<1> HIDE DEF row
<1>7. ASSUME NEW q \in PoolIds PROVE MeantOf(q)'
  <2>0. MeantOf(q)
    BY DEF MeantInv
  <2>1. CASE q = p
    BY <1>1, <1>3, <1>4, <1>5, <1>6, <2>0, <2>1 DEF MeantOf, Editing, Begins
  <2>2. CASE q # p
    BY <1>1, <1>4, <1>5, <2>0, <2>2 DEF MeantOf, Editing, Dropping
  <2> QED BY <2>1, <2>2
<1>8. EditInv'
  BY <1>1, <1>3, <1>4, <1>5 DEF EditInv, IsPool, Dropping
<1> QED BY <1>7, <1>8 DEF MeantInv

\* A row is taken out while its pool is not being written.
LEMMA MeantRemove ==
  ASSUME TypeInv, MeantInv, NEW p \in PoolIds, pools' = [pools EXCEPT ![p] = NoRow],
         edit.pc \in {"idle", "check"}, edit'.pc = "drop", edit'.id = p,
         UNCHANGED <<members, disk, meant, cut>>
  PROVE  MeantInv'
<1>1. \A q \in PoolIds : pools'[q] = IF q = p THEN NoRow ELSE pools[q]
  BY DEF TypeInv, Rows
<1>2. ASSUME NEW q \in PoolIds PROVE MeantOf(q)'
  <2>0. MeantOf(q)
    BY DEF MeantInv
  <2> QED BY <1>1, <2>0 DEF MeantOf, Editing, Dropping
<1>3. EditInv'
  BY <1>1 DEF EditInv, Writing, Dropping
<1> QED BY <1>2, <1>3 DEF MeantInv

LEMMA MeantEdit == TypeInv /\ MeantInv /\ EditStep => MeantInv'
<1> SUFFICES ASSUME TypeInv, MeantInv, EditStep PROVE MeantInv'
  OBVIOUS
<1> USE DEF ghosts, Writing, Dropping
<1>0. /\ edit.pc # "idle" => edit.id \in PoolIds
      /\ Writing => edit.list \in Lists
      /\ \A list \in Lists : list \in Seq(Deploys) /\ list # <<>>
      /\ \A q \in PoolIds : members[q] \in Seq(Deploys)
  BY EndsBegin DEF TypeInv, Lines
<1>1. CASE Clear
  <2>1. edit.pc = "clear" /\ edit'.pc = "fill" /\ edit'.id = edit.id /\ edit'.list = edit.list
    BY <1>1 DEF Clear, TypeInv, EditRec
  <2>2. UNCHANGED <<pools, disk, meant, cut>>
    BY <1>1 DEF Clear
  <2>3. \A q \in PoolIds : members'[q] = IF q = edit.id THEN <<>> ELSE members[q]
    BY <1>1 DEF Clear, TypeInv, Lines
  <2>4. IsPrefix(members'[edit.id], edit.list)
    <3>1. members'[edit.id] = <<>> /\ <<>> \in Seq(Deploys)
      BY <1>0, <2>1, <2>3
    <3> QED BY <1>0, <2>1, <3>1, PrefixEmpty
  <2>5. ASSUME NEW q \in PoolIds PROVE MeantOf(q)'
    <3>0. MeantOf(q)
      BY DEF MeantInv
    <3> QED BY <2>1, <2>2, <2>3, <3>0 DEF MeantOf, Editing, IsPool
  <2>6. EditInv'
    BY <2>1, <2>2, <2>4 DEF MeantInv, EditInv, IsPool
  <2> QED BY <2>5, <2>6 DEF MeantInv
<1>2. CASE Fill
  <2> DEFINE old == members[edit.id]
             new == Append(old, edit.list[Len(old) + 1])
  <2>1. edit.pc = "fill" /\ Len(old) < Len(edit.list) /\ UNCHANGED <<pools, disk, meant, cut, edit>>
    BY <1>2 DEF Fill
  <2>2. \A q \in PoolIds : members'[q] = IF q = edit.id THEN new ELSE members[q]
    BY <1>2 DEF Fill, TypeInv, Lines
  <2>3. IsPrefix(new, edit.list) /\ edit.list \in meant[edit.id]
    BY <1>0, <2>1, PrefixGrows DEF MeantInv, EditInv
  <2> HIDE DEF new
  <2>4. ASSUME NEW q \in PoolIds PROVE MeantOf(q)'
    <3>0. MeantOf(q)
      BY DEF MeantInv
    <3> QED BY <2>1, <2>2, <2>3, <3>0 DEF MeantOf, Editing, IsPool, Begins
  <2>5. EditInv'
    BY <1>0, <2>1, <2>2, <2>3 DEF MeantInv, EditInv, IsPool
  <2> QED BY <2>4, <2>5 DEF MeantInv
<1>3. CASE Filled
  <2>1. /\ edit.pc = "fill" /\ edit'.pc = "check"
        /\ edit'.id = edit.id /\ edit'.list = edit.list
    BY <1>3 DEF Filled, TypeInv, EditRec
  <2>2. UNCHANGED <<pools, members>> /\ disk'.pools = pools /\ disk'.members = members
    BY <1>3 DEF Filled, Commits
  <2>3. \A q \in PoolIds : meant'[q] = IF q = edit.id THEN {edit.list} ELSE meant[q]
    BY <1>3 DEF Filled, TypeInv
  <2>4. cut' = cut \ {edit.id}
    BY <1>3 DEF Filled
  <2>5. members[edit.id] = edit.list
    BY <1>0, <1>3, <2>1, PrefixWhole DEF Filled, MeantInv, EditInv
  <2>6. IsPrefix(edit.list, edit.list) /\ edit.list # <<>>
    BY <1>0, <2>1, PrefixSelf
  <2>7. pools[edit.id].ends = Ends(edit.list) /\ IsPrefix(Ends(edit.list), edit.list)
    BY <1>0, <2>1, EndsBegin DEF MeantInv, EditInv
  <2>8. ASSUME NEW q \in PoolIds PROVE MeantOf(q)'
    <3>0. MeantOf(q)
      BY DEF MeantInv
    <3>1. CASE q = edit.id
      BY <2>1, <2>2, <2>3, <2>5, <2>6, <2>7, <3>1 DEF MeantOf, Begins
    <3>2. CASE q # edit.id
      BY <2>1, <2>2, <2>3, <2>4, <3>0, <3>2 DEF MeantOf, Editing, IsPool
    <3> QED BY <3>1, <3>2
  <2>9. EditInv'
    BY <1>0, <2>1, <2>2, <2>3 DEF MeantInv, EditInv, IsPool
  <2> QED BY <2>8, <2>9 DEF MeantInv
<1>4. CASE Accepted \/ UpdateRefused
  <2>1. edit.pc = "check" /\ edit'.pc = "idle" /\ UNCHANGED <<pools, members, disk, meant, cut>>
    BY <1>4 DEF Accepted, UpdateRefused, NoEdit
  <2>2. ASSUME NEW q \in PoolIds PROVE MeantOf(q)'
    <3>0. MeantOf(q)
      BY DEF MeantInv
    <3> QED BY <2>1, <3>0 DEF MeantOf, Editing, IsPool
  <2> QED BY <2>1, <2>2 DEF MeantInv, EditInv
<1>5. CASE CreateRefused
  <2>1. edit'.pc = "drop" /\ edit'.id = edit.id
    BY <1>5 DEF CreateRefused, TypeInv, EditRec
  <2> QED BY <1>0, <1>5, <2>1, MeantRemove DEF CreateRefused
<1>6. CASE Drop
  <2>1. edit.pc = "drop" /\ edit'.pc = "dropped" /\ edit'.id = edit.id
    BY <1>6 DEF Drop, TypeInv, EditRec
  <2>2. UNCHANGED <<pools, disk, meant, cut>>
    BY <1>6 DEF Drop
  <2>3. \A q \in PoolIds : members'[q] = IF q = edit.id THEN <<>> ELSE members[q]
    BY <1>6 DEF Drop, TypeInv, Lines
  <2>4. ASSUME NEW q \in PoolIds PROVE MeantOf(q)'
    <3>0. MeantOf(q)
      BY DEF MeantInv
    <3> QED BY <2>1, <2>2, <2>3, <3>0 DEF MeantOf, Editing
  <2>5. EditInv'
    BY <1>0, <2>1, <2>2, <2>3 DEF MeantInv, EditInv
  <2> QED BY <2>4, <2>5 DEF MeantInv
<1>7. CASE Dropped
  <2>1. edit.pc = "dropped" /\ edit'.pc = "idle" /\ UNCHANGED <<pools, members, meant, cut>>
    BY <1>7 DEF Dropped, NoEdit
  <2>2. disk'.pools = pools /\ disk'.members = members
    BY <1>7 DEF Dropped, Commits
  <2>3. ASSUME NEW q \in PoolIds PROVE MeantOf(q)'
    <3>0. MeantOf(q)
      BY DEF MeantInv
    <3> QED BY <2>1, <2>2, <3>0 DEF MeantOf, Editing, MeantInv, EditInv
  <2> QED BY <2>1, <2>3 DEF MeantInv, EditInv
<1> QED BY <1>1, <1>2, <1>3, <1>4, <1>5, <1>6, <1>7 DEF EditStep

LEMMA MeantStep == TypeInv /\ MeantInv /\ [Next]_vars => MeantInv'
<1> SUFFICES ASSUME TypeInv, MeantInv, [Next]_vars PROVE MeantInv'
  OBVIOUS
<1> USE DEF ghosts, Dropping
\* Somebody else commits what the connection holds, or nobody does.
<1>1. ASSUME UNCHANGED <<pools, members, edit, meant, cut>>,
             disk' = disk \/ (disk'.pools = pools /\ disk'.members = members)
      PROVE  MeantInv'
  <2>1. ASSUME NEW q \in PoolIds PROVE MeantOf(q)'
    <3>0. MeantOf(q)
      BY DEF MeantInv
    <3> QED BY <1>1, <3>0 DEF MeantOf, Editing, MeantInv, EditInv
  <2>2. EditInv'
    BY <1>1 DEF MeantInv, EditInv, IsPool, Writing
  <2> QED BY <2>1, <2>2 DEF MeantInv
<1>2. ASSUME NEW d \in Deploys, DeathNoted(d) \/ DeployChanges(d) PROVE MeantInv'
  BY <1>1, <1>2 DEF DeathNoted, DeployChanges, Commits
<1>3. ASSUME NEW name \in Names, NEW list \in Lists, create_pool(name, list) PROVE MeantInv'
  <2>1. Pools[made + 1] \in PoolIds
    BY <1>3, Constants DEF create_pool, TypeInv
  <2> QED BY <1>3, <2>1, MeantWrite DEF create_pool
<1>4. ASSUME NEW p \in PoolIds, NEW name \in Names, NEW list \in Lists,
             update_pool(p, name, list) PROVE MeantInv'
  BY <1>4, MeantWrite DEF update_pool
<1>5. ASSUME NEW p \in PoolIds, destroy_pool(p) PROVE MeantInv'
  BY <1>5, MeantRemove DEF destroy_pool, Quiet
<1>6. ASSUME NEW t \in Threads, NEW what, Ask(t, what) \/ get_pool_models(t) \/ TurnEnds(t)
      PROVE  MeantInv'
  <2>1. CASE Ask(t, what) \/ get_pool_models(t)
    BY <1>1, <2>1 DEF Ask, get_pool_models
  <2>2. CASE TurnEnds(t)
    BY <1>1, <2>2 DEF TurnEnds, Commits
  <2> QED BY <1>6, <2>1, <2>2
<1>7. CASE Crash
  <2>1. /\ pools' = disk.pools /\ disk'.pools = pools' /\ disk'.members = members'
        /\ meant' = meant /\ edit'.pc = "idle"
    BY <1>7 DEF Crash, Commits, NoEdit
  <2>2. \A q \in PoolIds :
          members'[q] = IF disk.members[q] = <<>> THEN disk.pools[q].ends ELSE disk.members[q]
    BY <1>7 DEF Crash, Backfilled
  <2>3. cut' = IF edit.pc \in {"clear", "fill"} THEN cut \cup {edit.id} ELSE cut
    BY <1>7 DEF Crash
  <2>4. ASSUME NEW q \in PoolIds PROVE MeantOf(q)'
    <3>0. MeantOf(q)
      BY DEF MeantInv
    <3>1. CASE disk.pools[q] = NoRow
      <4>1. disk.pools[q].ends = <<>>
        BY <3>1 DEF NoRow
      <4> QED BY <2>1, <2>2, <3>0, <3>1, <4>1 DEF MeantOf
    <3>2. CASE disk.pools[q] # NoRow
      <4>1. disk.pools[q].ends # <<>> /\ Begins(disk.pools[q].ends, meant[q])
        BY <3>0, <3>2, EndsNotEmpty DEF TypeInv, MeantOf
      <4>2. Begins(members'[q], meant[q]) /\ members'[q] # <<>>
        BY <2>2, <3>0, <4>1 DEF MeantOf
      <4>3. q \notin cut' => meant[q] = {members'[q]}
        <5>1. SUFFICES ASSUME q \notin cut' PROVE meant[q] = {members'[q]}
          OBVIOUS
        <5>2. ~Editing(q) /\ q \notin cut
          BY <2>3, <5>1 DEF Editing
        <5>3. disk.members[q] # <<>> /\ meant[q] = {disk.members[q]}
          BY <3>0, <3>2, <5>2 DEF MeantOf
        <5> QED BY <2>2, <5>3
      <4> QED BY <2>1, <4>1, <4>2, <4>3 DEF MeantOf
    <3> QED BY <3>1, <3>2
  <2> QED BY <2>1, <2>4 DEF MeantInv, EditInv, Writing
<1>8. CASE UNCHANGED vars
  BY <1>1, <1>8 DEF vars
<1>9. CASE \E t \in Threads :
             \/ \E what \in {"router", "auto"} \cup Deploys \cup PoolIds \cup Names : Ask(t, what)
             \/ get_pool_models(t) \/ TurnEnds(t)
  BY <1>6, <1>9
<1> QED BY <1>2, <1>3, <1>4, <1>5, <1>7, <1>8, <1>9, MeantEdit DEF Next

LEMMA MeantInit == Init => MeantInv
<1> SUFFICES ASSUME Init PROVE MeantInv
  OBVIOUS
<1>1. ASSUME NEW p \in PoolIds PROVE MeantOf(p)
  BY DEF Init, MeantOf
<1> QED BY <1>1 DEF Init, NoEdit, MeantInv, EditInv, Writing, Dropping

\* Between two edits a pool has the models it was last given; after an edit a
\* crash cut short, the first of the old or of the new list
\* (Store.update_pool, replace_pool_models and _migrate).
THEOREM PoolsAreStoredAsMeant == Spec => []StoredAsMeant
<1>1. TypeInv /\ MeantInv => StoredAsMeant
  <2> SUFFICES ASSUME MeantInv, Quiet, NEW p \in Live
               PROVE  /\ p \notin cut => meant[p] = {members[p]}
                      /\ members[p] # <<>> /\ Begins(members[p], meant[p])
    BY DEF StoredAsMeant, Begins
  <2> QED BY DEF MeantInv, MeantOf, Editing, Dropping, Quiet, Live, IsPool
<1> QED BY <1>1, TypeInit, TypeStep, MeantInit, MeantStep, PTL DEF Spec

-----------------------------------------------------------------------------
(* Ladders.                                                                *)

\* Whatever a name resolves to, a pool among it exists.
LEMMA ResolvedPoolsLive ==
  ASSUME NEW what, NEW p \in Resolve(what) \cap PoolIds
  PROVE  p \in Live
<1>1. \A ps : Newest(ps) \subseteq ps
  BY DEF Newest
<1>2. PoolIds \cap Deploys = {}
  BY PoolsAssumption, Zenon DEF PoolsAssumption
<1>3. CASE what \in {"router", "auto"}
  BY <1>1, <1>3 DEF Resolve
<1>4. CASE what \notin {"router", "auto"}
  <2> DEFINE named == {q \in Live : pools[q].name = what}
  <2>1. p \in {d \in Deploys : d = what /\ table[d] # "absent"} \/ p \in {q \in Live : q = what}
        \/ p \in Newest(named) \/ p \in Serving(what)
    BY <1>4 DEF Resolve, FirstOf
  <2>2. p \in {q \in Live : q = what} \/ p \in Newest(named)
    BY <1>2, <2>1 DEF Serving
  <2>3. Newest(named) \subseteq named
    BY <1>1
  <2> QED BY <2>2, <2>3
<1> QED BY <1>3, <1>4

LEMMA LadderStep == TypeInv /\ MeantInv /\ LadderInv /\ [Next]_vars => LadderInv'
<1> SUFFICES ASSUME TypeInv, MeantInv, LadderInv, [Next]_vars, NEW t \in Threads
             PROVE  LadderOf(t)'
  BY DEF LadderInv
<1> USE DEF ghosts
<1>0. LadderOf(t)
  BY DEF LadderInv
<1>1. ASSUME UNCHANGED <<turn, meant>> PROVE LadderOf(t)'
  BY <1>0, <1>1 DEF LadderOf
\* A turn of the pool learns of the new list.
<1>2. ASSUME NEW p \in PoolIds, NEW name \in Names, NEW list \in Lists, NEW new,
             WriteRow(p, name, list, new)
      PROVE  LadderOf(t)'
  <2>1. turn[t] \in TurnRec
    BY DEF TypeInv
  <2>2. /\ UNCHANGED <<turn[t].pc, turn[t].id, turn[t].ends, turn[t].ids>>
        /\ turn'[t].lists = IF turn[t].id = p THEN turn[t].lists \cup {list} ELSE turn[t].lists
    BY <1>2, <2>1 DEF WriteRow, TurnRec
  <2>3. \A q \in PoolIds : meant'[q] = IF q = p THEN meant[q] \cup {list} ELSE meant[q]
    BY <1>2 DEF WriteRow, TypeInv
  <2>4. turn[t].pc # "idle" => turn[t].id \in PoolIds
    BY DEF TypeInv
  <2>5. turn[t].lists \subseteq turn'[t].lists
    BY <2>2
  <2>6. Begins(turn[t].ends, turn[t].lists) => Begins(turn[t].ends, turn'[t].lists)
    BY <2>5 DEF Begins
  <2>7. Begins(turn[t].ids, turn[t].lists) => Begins(turn[t].ids, turn'[t].lists)
    BY <2>5 DEF Begins
  <2>8. turn[t].pc # "idle" => meant'[turn[t].id] \subseteq turn'[t].lists
    BY <1>0, <2>2, <2>3, <2>4 DEF LadderOf
  <2> QED BY <1>0, <2>2, <2>6, <2>7, <2>8 DEF LadderOf
<1>3. ASSUME NEW name \in Names, NEW list \in Lists, create_pool(name, list) PROVE LadderOf(t)'
  <2>1. Pools[made + 1] \in PoolIds
    BY <1>3, Constants DEF create_pool, TypeInv
  <2> QED BY <1>2, <1>3, <2>1 DEF create_pool
\* An edit that is done leaves a pool one of the lists it might have had.
<1>4. CASE Filled
  <2>1. edit.list \in meant[edit.id] /\ turn' = turn
    BY <1>4 DEF Filled, MeantInv, EditInv, Writing
  <2>2. \A q \in PoolIds : meant'[q] \subseteq meant[q]
    BY <1>4, <2>1 DEF Filled, TypeInv
  <2>3. turn[t].pc # "idle" => turn[t].id \in PoolIds
    BY DEF TypeInv
  <2> QED BY <1>0, <2>1, <2>2, <2>3 DEF LadderOf
<1>5. CASE Clear \/ Fill \/ Accepted \/ CreateRefused \/ UpdateRefused \/ Drop \/ Dropped
  BY <1>1, <1>5 DEF Clear, Fill, Accepted, CreateRefused, UpdateRefused, Drop, Dropped
<1>6. ASSUME NEW u \in Threads, NEW what, Ask(u, what) PROVE LadderOf(t)'
  <2>1. PICK p \in Resolve(what) \cap PoolIds :
          turn' = [turn EXCEPT ![u] = [IdleTurn EXCEPT !.pc = "ladder", !.id = p,
                                         !.ends = pools[p].ends, !.lists = meant[p]]]
    BY <1>6 DEF Ask
  <2>2. meant' = meant
    BY <1>6 DEF Ask
  <2>3. CASE u = t
    <3>1. pools[p] # NoRow
      BY ResolvedPoolsLive DEF Live, IsPool
    <3>2. pools[p].ends # <<>> /\ Begins(pools[p].ends, meant[p])
      BY <3>1, EndsNotEmpty DEF TypeInv, MeantInv, MeantOf, Dropping
    <3>3. /\ turn'[t].pc = "ladder" /\ turn'[t].id = p
          /\ turn'[t].ends = pools[p].ends /\ turn'[t].lists = meant[p]
      BY <2>1, <2>3 DEF IdleTurn, TypeInv
    <3> QED BY <2>2, <3>2, <3>3 DEF LadderOf
  <2>4. CASE u # t
    BY <1>0, <2>1, <2>2, <2>4 DEF LadderOf, TypeInv
  <2> QED BY <2>3, <2>4
\* The thread finds the first models of a list, or none.
<1>7. ASSUME NEW u \in Threads, get_pool_models(u) PROVE LadderOf(t)'
  <2> DEFINE id == turn[t].id
  <2>1. meant' = meant
    BY <1>7 DEF get_pool_models
  <2>2. CASE u = t
    <3>1. turn[t] \in TurnRec /\ turn[t].pc = "ladder" /\ id \in PoolIds
      BY <1>7, <2>2 DEF get_pool_models, TypeInv
    <3>2. /\ turn'[t].pc = "serve" /\ UNCHANGED <<turn[t].id, turn[t].ends, turn[t].lists>>
          /\ turn'[t].ids = IF members[id] = <<>> THEN turn[t].ends ELSE members[id]
      BY <1>7, <2>2, <3>1 DEF get_pool_models, TypeInv, TurnRec
    <3>3. members[id] = <<>> \/ Begins(members[id], meant[id])
      BY <3>1 DEF MeantInv, MeantOf
    <3>4. /\ meant[id] \subseteq turn[t].lists
          /\ turn[t].ends # <<>> /\ Begins(turn[t].ends, turn[t].lists)
      BY <1>0, <3>1 DEF LadderOf
    <3>5. Begins(members[id], meant[id]) => Begins(members[id], turn[t].lists)
      BY <3>4 DEF Begins
    <3>6. turn'[t].ids # <<>> /\ Begins(turn'[t].ids, turn[t].lists)
      BY <3>2, <3>3, <3>4, <3>5
    <3> QED BY <2>1, <3>2, <3>4, <3>6 DEF LadderOf
  <2>3. CASE u # t
    BY <1>0, <1>7, <2>1, <2>3 DEF get_pool_models, LadderOf, TypeInv
  <2> QED BY <2>2, <2>3
<1>8. ASSUME NEW u \in Threads, TurnEnds(u) PROVE LadderOf(t)'
  <2>1. IdleTurn.pc = "idle"
    BY DEF IdleTurn
  <2>2. meant' = meant /\ turn' = [turn EXCEPT ![u] = IdleTurn]
    BY <1>8 DEF TurnEnds
  <2> QED BY <1>0, <2>1, <2>2 DEF LadderOf, TypeInv
<1>9. CASE Crash
  <2>1. turn'[t].pc = "idle"
    BY <1>9 DEF Crash, IdleTurn
  <2> QED BY <2>1 DEF LadderOf
<1>10. ASSUME NEW d \in Deploys, DeathNoted(d) \/ DeployChanges(d) PROVE LadderOf(t)'
  BY <1>1, <1>10 DEF DeathNoted, DeployChanges
<1>11. ASSUME NEW p \in PoolIds, destroy_pool(p) PROVE LadderOf(t)'
  BY <1>1, <1>11 DEF destroy_pool
<1>12. ASSUME NEW p \in PoolIds, NEW name \in Names, NEW list \in Lists,
              update_pool(p, name, list)
       PROVE  LadderOf(t)'
  BY <1>2, <1>12 DEF update_pool
<1>13. CASE \E u \in Threads :
              \/ \E what \in {"router", "auto"} \cup Deploys \cup PoolIds \cup Names : Ask(u, what)
              \/ get_pool_models(u) \/ TurnEnds(u)
  BY <1>6, <1>7, <1>8, <1>13
<1>14. CASE UNCHANGED vars
  BY <1>1, <1>14 DEF vars
<1> QED BY <1>3, <1>4, <1>5, <1>9, <1>10, <1>11, <1>12, <1>13, <1>14 DEF Next, EditStep

\* The ladder of a turn is the beginning of a list its pool had while the turn
\* ran, never empty and never of two lists (router._pool_candidates).
THEOREM LaddersArePrefixes == Spec => []LadderIsPrefix
<1>1. Init => LadderInv
  BY DEF Init, IdleTurn, LadderInv, LadderOf
<1>2. LadderInv => LadderIsPrefix
  BY DEF LadderInv, LadderOf, LadderIsPrefix, Begins
<1> QED BY <1>1, <1>2, TypeInit, TypeStep, MeantInit, MeantStep, LadderStep, PTL DEF Spec
=============================================================================
