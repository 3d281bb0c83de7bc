------------------------------- MODULE Pools -------------------------------
(***************************************************************************)
(* The pools of one user: the rows (central/db.py), the handlers that      *)
(* write them and what a client's "model" resolves to (central/app.py),    *)
(* and the list of models a routing thread reads (central/router.py).      *)
(*                                                                         *)
(* A handler never awaits, but it makes several statements and commits,    *)
(* on the one SQLite connection that the routing threads and the reconcile *)
(* thread share: they read its half-written rows, any commit of theirs     *)
(* commits those, and a crash may come between two.  A pool's judge and    *)
(* mode are stored with the row, unchecked, and left out.                  *)
(***************************************************************************)
EXTENDS Sequences, FiniteSets, Integers, SequencesExt

CONSTANTS
  Deploys,
  ModelOf,      \* the name of the model each serves
  Mortal,       \* deploys that fail, come back or are destroyed
  Pools,        \* ids, in the order uuid4() mints them: a sequence
  Names,        \* names of pools and of models
  Lists,        \* the lists of deploys users send
  Threads,      \* requests being routed
  MaxCrashes,   \* bound: crashes of the central
  NoPool,
  NoName        \* what an empty name stands for; no pool has one

PoolIds == ToSet(Pools)
NoRow == [name |-> NoName, ends |-> <<>>]

\* _resolve_pool_args lets nothing else through.
ASSUME PoolsAssumption ==
  /\ ModelOf \in [Deploys -> Names] /\ Mortal \subseteq Deploys
  /\ \A list \in Lists : list \in Seq(Deploys) /\ Len(list) >= 2 /\ IsInjective(list)
  /\ Pools \in Seq(PoolIds) /\ IsInjective(Pools)
  /\ NoPool \notin PoolIds /\ PoolIds \cap Deploys = {}
  /\ NoName \notin Names
  /\ MaxCrashes \in Nat

VARIABLES
  table,      \* the deploys: "healthy", "closed" (healthy, without an endpoint), ...
  made,       \* pools created so far
  pools,      \* pools: PoolIds -> row, as the connection sees it
  members,    \* pool_models: PoolIds -> list of deploys, likewise
  disk,       \* both, as they were committed
  edit,       \* the pool handler at work
  turn,       \* Threads -> a routing turn
  meant,      \* PoolIds -> the lists the user knows it may have
  cut,        \* pools whose edit a crash cut short
  refused,    \* pools whose creation was answered with an error
  crashes

vars == <<table, made, pools, members, disk, edit, turn, meant, cut, refused, crashes>>
ghosts == <<meant, cut, refused>>

Statuses == {"healthy", "closed", "failed", "absent"}
IsPool(p) == pools[p] # NoRow
Live == {p \in PoolIds : IsPool(p)}
Ready(d) == table[d] = "healthy"

NoEdit == [pc |-> "idle", id |-> NoPool, list |-> <<>>, new |-> FALSE]
IdleTurn == [pc |-> "idle", id |-> NoPool, ends |-> <<>>, ids |-> <<>>, lists |-> {}]
Quiet == edit.pc = "idle"

\* _conn.commit(), whoever calls it.
Commits(ps, ms) == disk' = [pools |-> ps, members |-> ms]

-----------------------------------------------------------------------------
Init ==
  /\ table = [d \in Deploys |-> "healthy"]
  /\ made = 0
  /\ pools = [p \in PoolIds |-> NoRow]
  /\ members = [p \in PoolIds |-> <<>>]
  /\ disk = [pools |-> pools, members |-> members]
  /\ edit = NoEdit
  /\ turn = [t \in Threads |-> IdleTurn]
  /\ meant = [p \in PoolIds |-> {}]
  /\ cut = {} /\ refused = {}
  /\ crashes = 0

-----------------------------------------------------------------------------
(* The deploys, and everything else that writes to the database.             *)

\* The reconcile thread saves a dead model, at any time.
DeathNoted(d) ==
  /\ d \in Mortal /\ table[d] \in {"healthy", "closed"}
  /\ table' = [table EXCEPT ![d] = "failed"]
  /\ Commits(pools, members)
  /\ UNCHANGED <<made, pools, members, edit, turn, ghosts, crashes>>

\* A handler or a job, between the handlers of pools: a redeploy that came
\* up, another machine's connection, a DELETE.
DeployChanges(d) ==
  /\ d \in Mortal /\ table[d] # "absent" /\ Quiet
  /\ \E status \in {"healthy", "closed", "absent"} : table' = [table EXCEPT ![d] = status]
  /\ Commits(pools, members)
  /\ UNCHANGED <<made, pools, members, edit, turn, ghosts, crashes>>

-----------------------------------------------------------------------------
(* The handlers of pools, one action per statement others may come before.   *)

\* Mutant of NameFree: an edited pool may take any name.
NewNameFree(p, name) == IsPool(p) \/ \A q \in Live : pools[q].name # name
NameFree(p, name) == \A q \in Live \ {p} : pools[q].name # name

\* Mutant of Ends: the first model twice.
FirstTwice(list) == <<list[1], list[1]>>
\* weak_id and strong_id: "strong" is the second, however long the list.
Ends(list) == <<list[1], list[2]>>

\* The row is inserted or updated, and committed.
WriteRow(p, name, list, new) ==
  /\ Quiet /\ NameFree(p, name)
  /\ pools' = [pools EXCEPT ![p] = [name |-> name, ends |-> Ends(list)]]
  /\ Commits(pools', members)
  /\ edit' = [pc |-> "clear", id |-> p, list |-> list, new |-> new]
  /\ meant' = [meant EXCEPT ![p] = @ \cup {list}]
  /\ turn' = [t \in Threads |->
       IF turn[t].id = p THEN [turn[t] EXCEPT !.lists = @ \cup {list}] ELSE turn[t]]
  /\ UNCHANGED <<table, members, cut, refused, crashes>>

create_pool(name, list) ==
  /\ made < Len(Pools)
  /\ made' = made + 1
  /\ WriteRow(Pools[made + 1], name, list, TRUE)

update_pool(p, name, list) ==
  /\ IsPool(p)
  /\ WriteRow(p, name, list, FALSE)
  /\ UNCHANGED made

\* DELETE /pools/{id}: delete_pool takes the row out of pools ...
destroy_pool(p) ==
  /\ Quiet /\ IsPool(p)
  /\ pools' = [pools EXCEPT ![p] = NoRow]
  /\ edit' = [pc |-> "drop", id |-> p, list |-> <<>>, new |-> FALSE]
  /\ UNCHANGED <<table, made, members, disk, turn, ghosts, crashes>>

\* ... then those of pool_models ...
Drop ==
  /\ edit.pc = "drop"
  /\ members' = [members EXCEPT ![edit.id] = <<>>]
  /\ edit' = [edit EXCEPT !.pc = "dropped"]
  /\ UNCHANGED <<table, made, pools, disk, turn, ghosts, crashes>>

Refuses == IF edit.new THEN refused \cup {edit.id} ELSE refused
\* Mutant of Dropped: delete_pool without its commit.
DroppedOnly ==
  /\ edit.pc = "dropped"
  /\ refused' = Refuses
  /\ edit' = NoEdit
  /\ UNCHANGED <<table, made, pools, members, disk, turn, meant, cut, crashes>>
\* ... and commits: the 204, or the error create_pool answers.
Dropped ==
  /\ edit.pc = "dropped"
  /\ Commits(pools, members)
  /\ refused' = Refuses
  /\ edit' = NoEdit
  /\ UNCHANGED <<table, made, pools, members, turn, meant, cut, crashes>>

\* Mutant of Clear: the old rows stay.
ClearNothing ==
  /\ edit.pc = "clear"
  /\ edit' = [edit EXCEPT !.pc = "fill"]
  /\ UNCHANGED <<table, made, pools, members, disk, turn, ghosts, crashes>>
\* replace_pool_models: DELETE ...
Clear ==
  /\ edit.pc = "clear"
  /\ members' = [members EXCEPT ![edit.id] = <<>>]
  /\ edit' = [edit EXCEPT !.pc = "fill"]
  /\ UNCHANGED <<table, made, pools, disk, turn, ghosts, crashes>>

\* ... one INSERT per deploy ...
Fill ==
  LET n == Len(members[edit.id]) IN
  /\ edit.pc = "fill" /\ n < Len(edit.list)
  /\ members' = [members EXCEPT ![edit.id] = Append(@, edit.list[n + 1])]
  /\ UNCHANGED <<table, made, pools, disk, edit, turn, ghosts, crashes>>

\* ... and the commit.
Filled ==
  /\ edit.pc = "fill" /\ Len(members[edit.id]) >= Len(edit.list)
  /\ Commits(pools, members)
  /\ edit' = [edit EXCEPT !.pc = "check"]
  /\ meant' = [meant EXCEPT ![edit.id] = {edit.list}]
  /\ cut' = cut \ {edit.id}
  /\ UNCHANGED <<table, made, pools, members, turn, refused, crashes>>

\* _check_pool_members accepts: 201 or 200.
Accepted ==
  /\ edit.pc = "check" /\ \A d \in ToSet(edit.list) : Ready(d)
  /\ edit' = NoEdit
  /\ UNCHANGED <<table, made, pools, members, disk, turn, ghosts, crashes>>

\* It refuses, and create_pool has delete_pool take out what it wrote.
CreateRefused ==
  /\ edit.pc = "check" /\ edit.new /\ \E d \in ToSet(edit.list) : ~Ready(d)
  /\ pools' = [pools EXCEPT ![edit.id] = NoRow]
  /\ edit' = [edit EXCEPT !.pc = "drop"]
  /\ UNCHANGED <<table, made, members, disk, turn, ghosts, crashes>>

\* It refuses, and what update_pool wrote stays.
UpdateRefused ==
  /\ edit.pc = "check" /\ ~edit.new /\ \E d \in ToSet(edit.list) : ~Ready(d)
  /\ edit' = NoEdit
  /\ UNCHANGED <<table, made, pools, members, disk, turn, ghosts, crashes>>

EditStep ==
  \/ Clear \/ Fill \/ Filled \/ Accepted \/ CreateRefused \/ UpdateRefused
  \/ Drop \/ Dropped

-----------------------------------------------------------------------------
(* What a client's "model" means.                                            *)

Newest(ps) == {Pools[i] : i \in {j \in 1..made : Pools[j] \in ps
                                   /\ \A k \in j + 1..made : Pools[k] \notin ps}}

Serving(name) == {d \in Deploys : ModelOf[d] = name /\ Ready(d)}

FirstOf(some, others) == IF some # {} THEN some ELSE others

\* _resolve_target, what it may return: the router, an id, a pool's name, a
\* model's name, in this order; none is a 404 or a 422.
Resolve(what) ==
  IF what \in {"router", "auto"} THEN Newest(Live)
  ELSE FirstOf({d \in Deploys : d = what /\ table[d] # "absent"},
       FirstOf({p \in Live : p = what},
       FirstOf(Newest({p \in Live : pools[p].name = what}), Serving(what))))

-----------------------------------------------------------------------------
(* A request, and its thread.                                                *)

\* openai_chat resolves the name and reads the pool's row on the event loop.
Ask(t, what) ==
  /\ Quiet /\ turn[t].pc = "idle"
  /\ \E p \in Resolve(what) \cap PoolIds :
       turn' = [turn EXCEPT ![t] = [IdleTurn EXCEPT !.pc = "ladder", !.id = p,
                                      !.ends = pools[p].ends, !.lists = meant[p]]]
  /\ UNCHANGED <<table, made, pools, members, disk, edit, ghosts, crashes>>

\* _pool_candidates asks for the members, in the thread, at any time; a pool
\* without any gets the two ends of the row read before.
get_pool_models(t) ==
  /\ turn[t].pc = "ladder"
  /\ turn' = [turn EXCEPT ![t].pc = "serve",
                ![t].ids = IF members[turn[t].id] = <<>> THEN turn[t].ends
                           ELSE members[turn[t].id]]
  /\ UNCHANGED <<table, made, pools, members, disk, edit, ghosts, crashes>>

\* The turn is answered, or was refused for want of two models.  Its session
\* was saved on the way, or not.
TurnEnds(t) ==
  /\ turn[t].pc = "serve"
  /\ turn' = [turn EXCEPT ![t] = IdleTurn]
  /\ \/ Commits(pools, members)
     \/ UNCHANGED disk
  /\ UNCHANGED <<table, made, pools, members, edit, ghosts, crashes>>

-----------------------------------------------------------------------------
\* Mutant of Backfilled: Store() leaves pools without members alone.
NotBackfilled(rows, ms) == ms
\* Store._migrate: a pool without members gets the two of its row.
Backfilled(rows, ms) ==
  [p \in PoolIds |-> IF ms[p] = <<>> THEN rows[p].ends ELSE ms[p]]

\* The central crashes and starts again.
Crash ==
  /\ crashes < MaxCrashes
  /\ crashes' = crashes + 1
  /\ pools' = disk.pools
  /\ members' = Backfilled(disk.pools, disk.members)
  /\ Commits(pools', members')
  /\ cut' = IF edit.pc \in {"clear", "fill"} THEN cut \cup {edit.id} ELSE cut
  /\ edit' = NoEdit
  /\ turn' = [t \in Threads |-> IdleTurn]
  /\ UNCHANGED <<table, made, meant, refused>>

Next ==
  \/ \E d \in Deploys : DeathNoted(d) \/ DeployChanges(d)
  \/ \E name \in Names, list \in Lists :
       \/ create_pool(name, list)
       \/ \E p \in PoolIds : update_pool(p, name, list)
  \/ \E p \in PoolIds : destroy_pool(p)
  \/ EditStep
  \/ \E t \in Threads :
       \/ \E what \in {"router", "auto"} \cup Deploys \cup PoolIds \cup Names : Ask(t, what)
       \/ get_pool_models(t) \/ TurnEnds(t)
  \/ Crash

Spec == Init /\ [][Next]_vars

-----------------------------------------------------------------------------
\* The tables hold what their columns may; the two ends of a row differ.
TypeOK ==
  /\ table \in [Deploys -> Statuses]
  /\ made \in 0..Len(Pools)
  /\ \A db \in {[pools |-> pools, members |-> members], disk} :
       \A p \in PoolIds :
         /\ db.pools[p] = NoRow \/
              /\ db.pools[p].name \in Names
              /\ \E d, e \in Deploys : d # e /\ db.pools[p].ends = <<d, e>>
         /\ db.members[p] \in Seq(Deploys)
  /\ edit.pc \in {"idle", "clear", "fill", "check", "drop", "dropped"}
  /\ \A t \in Threads : turn[t].pc \in {"idle", "ladder", "serve"}
  /\ meant \in [PoolIds -> SUBSET Lists]
  /\ cut \subseteq PoolIds /\ refused \subseteq PoolIds
  /\ crashes \in 0..MaxCrashes

\* No two pools share a name, on disk either, so a client that sends one never
\* gets another pool's answer (app._resolve_pool_args, _resolve_target).
NamesApart ==
  \A rows \in {pools, disk.pools} : \A p, q \in PoolIds :
    rows[p] # NoRow /\ rows[p].name = rows[q].name => p = q

\* Between two edits a pool has exactly the models it was last given, in their
\* order.  An edit that a crash cut short leaves the first models of the old
\* or of the new list, at least one: never an empty pool, and never a mixture.
StoredAsMeant ==
  Quiet =>
    \A p \in Live :
      /\ p \notin cut => meant[p] = {members[p]}
      /\ members[p] # <<>> /\ \E list \in meant[p] : IsPrefix(members[p], list)

\* The ladder a turn walks is the beginning of a list the pool had while the
\* turn ran, although the thread may read between the statements of an edit
\* and holds a row that was read before it.
LadderIsPrefix ==
  \A t \in Threads :
    turn[t].pc = "serve" =>
      /\ turn[t].ids # <<>>
      /\ \E list \in turn[t].lists : IsPrefix(turn[t].ids, list)

\* A pool whose creation was refused leaves no row and no members, whatever
\* other threads commit while it is undone, and no crash brings it back
\* (tests/test_central_api.py:251).
RefusedIsGone ==
  \A p \in refused : ~IsPool(p) /\ members[p] = <<>> /\ disk.members[p] = <<>>
=============================================================================
