--------------------------- MODULE Metrics_proofs ---------------------------
(***************************************************************************)
(* Theorems about Metrics, for any deploys, any number of samples kept and *)
(* drawn, and any bound on the clock and the counters.                     *)
(***************************************************************************)
EXTENDS Metrics, FiniteSetTheorems, WellFoundedInduction, TLAPS

-----------------------------------------------------------------------------
(* Lemmas about samples.                                                   *)

LEMMA Constants ==
  /\ METRICS_KEEP \in Nat /\ METRICS_KEEP > 0 /\ Limit \in Nat
  /\ MaxClock \in Nat /\ MaxTokens \in Nat /\ MaxCrashes \in Nat
  BY MetricsAssumption DEF MetricsAssumption

LEMMA SampleTyped ==
  ASSUME NEW s \in Sample
  PROVE  s.ts \in Nat /\ s.total \in Nat /\ s.made \in Nat
  BY Constants DEF Sample

\* No two samples have one time.
Distinct(rows) == \A s, t \in rows : s.ts = t.ts => s = t

LEMMA Oldest ==
  ASSUME NEW rows, rows \subseteq Sample, rows # {}
  PROVE  \E m \in rows : \A s \in rows : m.ts <= s.ts
<1> DEFINE T == {s.ts : s \in rows}
           R == OpToRel(<, Nat)
<1>1. T \subseteq Nat /\ T # {}
  BY SampleTyped
<1>2. IsWellFoundedOn(R, Nat)
  BY NatLessThanWellFounded
<1>3. \A x, y \in Nat : y < x => <<y, x>> \in R
  BY DEF OpToRel
<1> HIDE DEF R
<1>4. PICK x \in T : \A y \in T : <<y, x>> \notin R
  BY <1>1, <1>2, WFMin
<1> HIDE DEF T
<1>5. ASSUME NEW y \in T PROVE x <= y
  <2>1. x \in Nat /\ y \in Nat
    BY <1>1
  <2>2. ~(y < x)
    BY <1>3, <1>4, <2>1, Zenon
  <2> QED BY <2>1, <2>2
<1> USE DEF T
<1>6. PICK m \in rows : m.ts = x
  BY <1>4
<1> QED BY <1>5, <1>6

\* What is kept of a deploy is no more than METRICS_KEEP: all but the oldest of
\* it are newer than the oldest of it.
LEMMA PruneBounds ==
  ASSUME NEW rows, rows \subseteq Sample, IsFiniteSet(rows), Distinct(rows)
  PROVE  /\ prune(rows) \subseteq rows /\ IsFiniteSet(prune(rows)) /\ Distinct(prune(rows))
         /\ Cardinality(prune(rows)) <= METRICS_KEEP
<1> DEFINE P == prune(rows)
<1>1. P \subseteq rows /\ IsFiniteSet(P) /\ Distinct(P) /\ P \subseteq Sample
  BY FS_Subset DEF prune, Distinct
<1>2. CASE P = {}
  BY <1>1, <1>2, FS_EmptySet, Constants
<1>3. CASE P # {}
  <2>1. PICK m \in P : \A s \in P : m.ts <= s.ts
    BY <1>1, <1>3, Oldest
  <2> DEFINE newer == {t \in rows : t.ts > m.ts}
  <2>2. Cardinality(newer) < METRICS_KEEP
    BY <2>1 DEF prune
  <2>3. \A s \in P \ {m} : s.ts > m.ts
    <3> SUFFICES ASSUME NEW s \in P, s # m PROVE s.ts > m.ts
      OBVIOUS
    <3>1. s.ts # m.ts /\ m.ts <= s.ts
      BY <1>1, <2>1 DEF Distinct
    <3>2. s.ts \in Nat /\ m.ts \in Nat
      BY <1>1, <2>1, SampleTyped
    <3> QED BY <3>1, <3>2
  <2>4. P \ {m} \subseteq newer
    BY <1>1, <2>3
  <2>5. newer \subseteq rows
    OBVIOUS
  <2> HIDE DEF newer, P
  <2>6. IsFiniteSet(newer)
    BY <2>5, FS_Subset
  <2>7. Cardinality(P \ {m}) <= Cardinality(newer)
    BY <2>4, <2>6, FS_Subset
  <2>8. Cardinality(P \ {m}) = Cardinality(P) - 1
    BY <1>1, <2>1, FS_RemoveElement
  <2>9. Cardinality(P) \in Nat /\ Cardinality(newer) \in Nat
    BY <1>1, <2>6, FS_CardinalityType
  <2>10. Cardinality(P) <= METRICS_KEEP
    BY <2>2, <2>7, <2>8, <2>9, Constants
  <2> QED BY <1>1, <2>10 DEF P
<1> QED BY <1>2, <1>3

-----------------------------------------------------------------------------
(* Types.                                                                  *)

\* TypeOK, and what it takes to keep no more than METRICS_KEEP samples: that
\* they are told apart by their time.
CountersTyped ==
  /\ total \in [Deploys -> 0..MaxTokens] /\ made \in [Deploys -> 0..MaxTokens]
  /\ \A d \in Deploys : total[d] <= made[d]
RowsTyped ==
  \A d \in Deploys : /\ history[d] \subseteq Sample /\ IsFiniteSet(history[d])
                     /\ Distinct(history[d]) /\ Cardinality(history[d]) <= METRICS_KEEP + crashes
TakenTyped == taken = {} \/ \E d \in Deploys, s \in Sample : taken = {[id |-> d, sample |-> s]}
TakenNew == \A x \in taken : \A s \in history[x.id] : s.ts # x.sample.ts
StatusTyped == status \in [Deploys -> {"none", "sampled", "stopping", "gone"}]

TypeInv ==
  /\ StatusTyped /\ CountersTyped /\ clock \in 0..MaxClock
  /\ history = [d \in Deploys |-> history[d]] /\ RowsTyped
  /\ todo \subseteq Deploys /\ TakenTyped /\ TakenNew /\ crashes \in 0..MaxCrashes

LEMMA TypeInvType == TypeInv => TypeOK
  BY DEF TypeInv, TypeOK, StatusTyped, CountersTyped, RowsTyped, TakenTyped

LEMMA TakenIs ==
  ASSUME TypeInv, NEW x \in taken
  PROVE  /\ x.id \in Deploys /\ x.sample \in Sample /\ taken = {x}
         /\ \A s \in history[x.id] : s.ts # x.sample.ts
  BY DEF TypeInv, TakenTyped, TakenNew

LEMMA TypeInit == Init => TypeInv
<1> SUFFICES ASSUME Init PROVE TypeInv
  OBVIOUS
<1>1. RowsTyped
  BY FS_EmptySet, Constants DEF Init, RowsTyped, Distinct
<1> QED BY <1>1, Constants DEF Init, TypeInv, StatusTyped, CountersTyped, TakenTyped, TakenNew

\* Samples that were not there before come with save_metrics only.
LEMMA RowsFewer ==
  ASSUME TypeInv, NEW d \in Deploys, history' = [history EXCEPT ![d] = {}],
         UNCHANGED <<taken, crashes>>
  PROVE  history' = [e \in Deploys |-> history'[e]] /\ RowsTyped' /\ TakenNew'
<1>1. \A e \in Deploys : history'[e] = IF e = d THEN {} ELSE history[e]
  BY DEF TypeInv
<1>2. RowsTyped'
  BY <1>1, FS_EmptySet, Constants DEF TypeInv, RowsTyped, Distinct
<1>3. TakenNew'
  BY <1>1, TakenIs DEF TakenNew
<1> QED BY <1>2, <1>3 DEF TypeInv

LEMMA SaveTyped ==
  ASSUME TypeInv, save_metrics
  PROVE  history' = [e \in Deploys |-> history'[e]] /\ RowsTyped' /\ taken' = {}
<1>1. PICK x \in taken : history' = [history EXCEPT ![x.id] = prune(@ \cup {x.sample})]
  BY DEF save_metrics
<1> DEFINE rows == history[x.id] \cup {x.sample}
<1>2. x.id \in Deploys /\ x.sample \in Sample /\ \A s \in history[x.id] : s.ts # x.sample.ts
  BY TakenIs
<1>3. \A e \in Deploys : history'[e] = IF e = x.id THEN prune(rows) ELSE history[e]
  BY <1>1, <1>2 DEF TypeInv
<1>4. rows \subseteq Sample /\ Distinct(rows)
  BY <1>2 DEF TypeInv, RowsTyped, Distinct
<1>5. IsFiniteSet(rows)
  BY <1>2, FS_AddElement DEF TypeInv, RowsTyped
<1> HIDE DEF rows
<1>6. /\ prune(rows) \subseteq Sample /\ IsFiniteSet(prune(rows)) /\ Distinct(prune(rows))
      /\ Cardinality(prune(rows)) <= METRICS_KEEP /\ Cardinality(prune(rows)) \in Nat
  BY <1>4, <1>5, PruneBounds, FS_CardinalityType
<1>7. UNCHANGED crashes /\ crashes \in Nat /\ METRICS_KEEP \in Nat
  BY Constants DEF save_metrics, TypeInv
<1>8. RowsTyped'
  BY <1>3, <1>6, <1>7 DEF TypeInv, RowsTyped
<1> QED BY <1>1, <1>8 DEF TypeInv, save_metrics

\* A crash between the two commits leaves one sample too many.
LEMMA CrashTyped ==
  ASSUME TypeInv, Crash
  PROVE  TypeInv'
<1>1. /\ crashes' = crashes + 1 /\ crashes \in Nat /\ crashes' \in 0..MaxCrashes
      /\ METRICS_KEEP \in Nat
  BY Constants DEF Crash, TypeInv
<1>2. taken' = {} /\ todo' = {} /\ UNCHANGED <<status, total, made, clock>>
  BY DEF Crash
<1>3. history' = [e \in Deploys |-> history'[e]] /\ RowsTyped'
  <2>1. CASE UNCHANGED history
    <3>1. \A d \in Deploys : Cardinality(history[d]) \in Nat
      BY FS_CardinalityType DEF TypeInv, RowsTyped
    <3> QED BY <1>1, <2>1, <3>1 DEF TypeInv, RowsTyped
  <2>2. ASSUME NEW x \in taken, history' = [history EXCEPT ![x.id] = @ \cup {x.sample}]
        PROVE  history' = [e \in Deploys |-> history'[e]] /\ RowsTyped'
    <3> DEFINE rows == history[x.id] \cup {x.sample}
    <3>1. x.id \in Deploys /\ x.sample \in Sample /\ \A s \in history[x.id] : s.ts # x.sample.ts
      BY TakenIs
    <3>2. \A e \in Deploys : history'[e] = IF e = x.id THEN rows ELSE history[e]
      BY <2>2, <3>1 DEF TypeInv
    <3>3. rows \subseteq Sample /\ Distinct(rows)
      BY <3>1 DEF TypeInv, RowsTyped, Distinct
    <3>4. /\ IsFiniteSet(history[x.id]) /\ Cardinality(history[x.id]) \in Nat
          /\ Cardinality(history[x.id]) <= METRICS_KEEP + crashes
      BY <3>1, FS_CardinalityType DEF TypeInv, RowsTyped
    <3>5. /\ IsFiniteSet(rows) /\ Cardinality(rows) \in Nat
          /\ Cardinality(rows) <= Cardinality(history[x.id]) + 1
      <4>1. /\ IsFiniteSet(rows)
            /\ \/ Cardinality(rows) = Cardinality(history[x.id])
               \/ Cardinality(rows) = Cardinality(history[x.id]) + 1
        BY <3>4, FS_AddElement
      <4> HIDE DEF rows
      <4> QED BY <3>4, <4>1
    <3> HIDE DEF rows
    <3>6. Cardinality(rows) <= METRICS_KEEP + crashes'
      BY <1>1, <3>4, <3>5
    <3>7. \A e \in Deploys : Cardinality(history[e]) \in Nat
      BY FS_CardinalityType DEF TypeInv, RowsTyped
    <3>8. \A e \in Deploys : Cardinality(history[e]) <= METRICS_KEEP + crashes'
      BY <1>1, <3>7 DEF TypeInv, RowsTyped
    <3>9. RowsTyped'
      BY <3>2, <3>3, <3>5, <3>6, <3>8 DEF TypeInv, RowsTyped
    <3> QED BY <2>2, <3>9 DEF TypeInv
  <2> QED BY <2>1, <2>2 DEF Crash
<1>4. TakenTyped' /\ TakenNew'
  BY <1>2 DEF TakenTyped, TakenNew
<1>5. StatusTyped' /\ CountersTyped'
  BY <1>2 DEF TypeInv, StatusTyped, CountersTyped
<1> QED BY <1>1, <1>2, <1>3, <1>4, <1>5 DEF TypeInv

LEMMA TypeStep == TypeInv /\ [Next]_vars => TypeInv'
<1> SUFFICES ASSUME TypeInv, [Next]_vars PROVE TypeInv'
  OBVIOUS
<1> USE DEF TypeInv, loopVars
<1>1. ASSUME UNCHANGED <<history, taken, crashes>>
      PROVE  history' = [d \in Deploys |-> history'[d]] /\ RowsTyped' /\ TakenTyped' /\ TakenNew'
  BY <1>1 DEF RowsTyped, TakenTyped, TakenNew
<1>2. UNCHANGED <<total, made>> => CountersTyped'
  BY DEF CountersTyped
<1>3. ASSUME NEW d \in Deploys, Serve(d) \/ destroy_deploy(d) PROVE TypeInv'
  <2>1. StatusTyped'
    BY <1>3 DEF Serve, destroy_deploy, StatusTyped
  <2> QED BY <1>1, <1>2, <1>3, <2>1 DEF Serve, destroy_deploy
<1>4. ASSUME NEW d \in Deploys, redeploy(d) \/ DestroyEnd(d) PROVE TypeInv'
  <2>1. StatusTyped'
    BY <1>4 DEF redeploy, DestroyEnd, delete, StatusTyped
  <2>2. history' = [history EXCEPT ![d] = {}] /\ UNCHANGED <<total, made, clock, todo, taken, crashes>>
    BY <1>4 DEF redeploy, DestroyEnd, delete
  <2>3. TakenTyped'
    BY <2>2 DEF TakenTyped
  <2> QED BY <1>2, <2>1, <2>2, <2>3, RowsFewer
<1>5. ASSUME NEW d \in Deploys, Generate(d) \/ ProcessRestart(d) PROVE TypeInv'
  <2>1. CountersTyped'
    BY <1>5, Constants DEF Generate, ProcessRestart, CountersTyped
  <2> QED BY <1>1, <1>5, <2>1 DEF Generate, ProcessRestart, StatusTyped
<1>6. CASE SetClock
  BY <1>1, <1>2, <1>6, Constants DEF SetClock, StatusTyped
<1>7. CASE LoopBegin
  BY <1>1, <1>2, <1>7 DEF LoopBegin, StatusTyped
<1>8. ASSUME NEW d \in Deploys, Scrape(d) PROVE TypeInv'
  <2> DEFINE s == [ts |-> clock, total |-> total[d], made |-> made[d]]
  <2>1. s \in Sample /\ taken' = {[id |-> d, sample |-> s]}
    BY <1>8 DEF Scrape, Sample, CountersTyped
  <2>2. TakenTyped' /\ TakenNew'
    BY <1>8, <2>1 DEF Scrape, TakenTyped, TakenNew
  <2> QED BY <1>2, <1>8, <2>2 DEF Scrape, StatusTyped, RowsTyped
<1>9. ASSUME NEW d \in Deploys, NoAnswer(d) PROVE TypeInv'
  BY <1>1, <1>2, <1>9 DEF NoAnswer, StatusTyped
<1>10. CASE save_metrics
  <2>1. TakenTyped' /\ TakenNew'
    BY <1>10 DEF save_metrics, TakenTyped, TakenNew
  <2> QED BY <1>2, <1>10, <2>1, SaveTyped DEF save_metrics, StatusTyped
<1>11. CASE UNCHANGED vars
  BY <1>1, <1>2, <1>11 DEF vars, StatusTyped
<1> QED BY <1>3, <1>4, <1>5, <1>6, <1>7, <1>8, <1>9, <1>10, <1>11, CrashTyped
       DEF Next, LoopStep

\* Whatever is deleted while a sample is on its way, at most METRICS_KEEP
\* samples of a deploy are kept, and one more for every crash.
THEOREM MetricsTypeCorrect == Spec => []TypeOK
<1> QED BY TypeInit, TypeStep, TypeInvType, PTL DEF Spec

-----------------------------------------------------------------------------
(* What a deleted deploy leaves.                                           *)

\* A deploy that is gone has no sample left, or its last one, which was on its
\* way when the row was deleted: then the loop will not ask for it again.
OrphanInv ==
  /\ \A x \in taken : x.id \notin todo
  /\ \A d \in Deploys : status[d] = "gone" =>
       /\ Cardinality(history[d]) <= 1
       /\ history[d] # {} => d \notin todo /\ \A x \in taken : x.id # d

LEMMA OrphanInit == Init => OrphanInv
  BY DEF Init, OrphanInv

LEMMA OrphanSave == ASSUME TypeInv, OrphanInv, save_metrics PROVE OrphanInv'
<1>1. PICK x \in taken : history' = [history EXCEPT ![x.id] = prune(@ \cup {x.sample})]
  BY DEF save_metrics
<1>2. UNCHANGED <<status, todo>> /\ taken' = {}
  BY DEF save_metrics
<1>3. x.id \in Deploys /\ x.id \notin todo
  BY TakenIs DEF OrphanInv
<1>4. \A d \in Deploys : d # x.id => history'[d] = history[d]
  BY <1>1 DEF TypeInv
<1>5. ASSUME status[x.id] = "gone" PROVE Cardinality(history'[x.id]) <= 1
  <2>1. history[x.id] = {}
    BY <1>3, <1>5 DEF OrphanInv
  <2>2. history'[x.id] = prune({x.sample})
    BY <1>1, <1>3, <2>1 DEF TypeInv
  <2>3. prune({x.sample}) = {} \/ prune({x.sample}) = {x.sample}
    BY DEF prune
  <2>4. Cardinality({}) = 0 /\ Cardinality({x.sample}) = 1
    BY FS_EmptySet, FS_Singleton
  <2> QED BY <2>2, <2>3, <2>4
<1> QED BY <1>2, <1>3, <1>4, <1>5 DEF OrphanInv

LEMMA OrphanStep == TypeInv /\ OrphanInv /\ [Next]_vars => OrphanInv'
<1> SUFFICES ASSUME TypeInv, OrphanInv, [Next]_vars PROVE OrphanInv'
  OBVIOUS
<1> USE DEF loopVars
<1>1. ASSUME NEW d \in Deploys, Serve(d) \/ destroy_deploy(d) PROVE OrphanInv'
  <2>1. \A e \in Deploys : status'[e] = "gone" => status[e] = "gone"
    BY <1>1 DEF Serve, destroy_deploy, TypeInv, StatusTyped
  <2> QED BY <1>1, <2>1 DEF Serve, destroy_deploy, OrphanInv
<1>2. ASSUME NEW d \in Deploys, redeploy(d) \/ DestroyEnd(d) PROVE OrphanInv'
  <2>1. \A e \in Deploys : e # d => status'[e] = status[e] /\ history'[e] = history[e]
    BY <1>2 DEF redeploy, DestroyEnd, delete, TypeInv, StatusTyped
  <2>2. history'[d] = {} /\ UNCHANGED <<todo, taken>>
    BY <1>2 DEF redeploy, DestroyEnd, delete, TypeInv
  <2>3. Cardinality(history'[d]) <= 1
    BY <2>2, FS_EmptySet
  <2> QED BY <2>1, <2>2, <2>3 DEF OrphanInv
<1>3. CASE SetClock \/ \E d \in Deploys : Generate(d) \/ ProcessRestart(d)
  <2>1. UNCHANGED <<status, history, todo, taken>>
    BY <1>3 DEF SetClock, Generate, ProcessRestart
  <2> QED BY <2>1 DEF OrphanInv
<1>4. CASE LoopBegin
  BY <1>4 DEF LoopBegin, OrphanInv
<1>5. ASSUME NEW d \in Deploys, Scrape(d) PROVE OrphanInv'
  <2>1. \A x \in taken' : x.id = d
    BY <1>5 DEF Scrape
  <2> QED BY <1>5, <2>1 DEF Scrape, OrphanInv
<1>6. ASSUME NEW d \in Deploys, NoAnswer(d) PROVE OrphanInv'
  BY <1>6 DEF NoAnswer, OrphanInv
<1>7. CASE save_metrics
  BY <1>7, OrphanSave
<1>8. CASE UNCHANGED vars
  BY <1>8 DEF vars, OrphanInv
<1>9. CASE Crash
  <2>1. taken' = {} /\ todo' = {} /\ UNCHANGED status
    BY <1>9 DEF Crash
  <2>2. CASE UNCHANGED history
    BY <2>1, <2>2 DEF OrphanInv
  <2>3. ASSUME NEW x \in taken, history' = [history EXCEPT ![x.id] = @ \cup {x.sample}]
        PROVE  OrphanInv'
    <3>1. x.id \in Deploys /\ \A e \in Deploys : e # x.id => history'[e] = history[e]
      BY <2>3, TakenIs DEF TypeInv
    <3>2. status[x.id] = "gone" => history'[x.id] = {x.sample}
      BY <2>3, <3>1 DEF OrphanInv, TypeInv
    <3>3. Cardinality({x.sample}) = 1
      BY FS_Singleton
    <3>4. \A e \in Deploys : status'[e] = "gone" => Cardinality(history'[e]) <= 1
      <4> SUFFICES ASSUME NEW e \in Deploys, status[e] = "gone"
                   PROVE  Cardinality(history'[e]) <= 1
        BY <2>1
      <4>1. CASE e = x.id
        BY <3>2, <3>3, <4>1
      <4>2. CASE e # x.id
        BY <3>1, <4>2 DEF OrphanInv
      <4> QED BY <4>1, <4>2
    <3> QED BY <2>1, <3>4 DEF OrphanInv
  <2> QED BY <1>9, <2>2, <2>3 DEF Crash
<1> QED BY <1>1, <1>2, <1>3, <1>4, <1>5, <1>6, <1>7, <1>8, <1>9 DEF Next, LoopStep

\* A deploy that was destroyed leaves one row of the table behind at most.
THEOREM OrphansAreFew == Spec => []OneOrphan
<1>1. OrphanInv => OneOrphan
  BY DEF OrphanInv, OneOrphan
<1> QED BY <1>1, TypeInit, TypeStep, OrphanInit, OrphanStep, PTL DEF Spec

-----------------------------------------------------------------------------
(* The curve.                                                              *)

\* From one moment to a later one the counter grew by no more than was made.
Grew(old, t, m) == old.made <= m /\ t - old.total <= m - old.made

\* Of two samples with something made between them, the one with more made is
\* the later one.
Agree(s, t) == s.made < t.made => t.total - s.total <= t.made - s.made

CurveInv ==
  /\ \A d \in Deploys : \A s \in history[d] : Grew(s, total[d], made[d])
  /\ \A x \in taken : Grew(x.sample, total[x.id], made[x.id])
  /\ \A d \in Deploys : \A s, t \in history[d] : Agree(s, t)
  /\ \A x \in taken : \A s \in history[x.id] : Agree(s, x.sample) /\ Agree(x.sample, s)

LEMMA CurveInit == Init => CurveInv
  BY DEF Init, CurveInv

\* What is added is the sample that was on its way.
LEMMA CurveAdd ==
  ASSUME TypeInv, CurveInv, NEW x \in taken,
         \A d \in Deploys : \A s \in history'[d] :
           s \in history[d] \/ (d = x.id /\ s = x.sample),
         UNCHANGED <<total, made>>, taken' = {}
  PROVE  CurveInv'
<1>1. Agree(x.sample, x.sample)
  BY TakenIs, SampleTyped DEF Agree
<1>2. \A d \in Deploys : \A s \in history'[d] : Grew(s, total[d], made[d])
  BY DEF CurveInv
<1>3. \A d \in Deploys : \A s, t \in history'[d] : Agree(s, t)
  BY <1>1 DEF CurveInv
<1> QED BY <1>2, <1>3 DEF CurveInv

LEMMA CurveStep == TypeInv /\ CurveInv /\ [Next]_vars => CurveInv'
<1> SUFFICES ASSUME TypeInv, CurveInv, [Next]_vars PROVE CurveInv'
  OBVIOUS
<1> USE DEF loopVars
<1>1. CASE \E d \in Deploys : Serve(d) \/ destroy_deploy(d) \/ NoAnswer(d)
  <2>1. UNCHANGED <<total, made, history, taken>>
    BY <1>1 DEF Serve, destroy_deploy, NoAnswer
  <2> QED BY <2>1 DEF CurveInv
<1>2. ASSUME NEW d \in Deploys, redeploy(d) \/ DestroyEnd(d) PROVE CurveInv'
  <2>1. \A e \in Deploys : history'[e] = IF e = d THEN {} ELSE history[e]
    BY <1>2 DEF redeploy, DestroyEnd, delete, TypeInv
  <2>2. UNCHANGED <<total, made, taken>>
    BY <1>2 DEF redeploy, DestroyEnd, delete
  <2> QED BY <2>1, <2>2, TakenIs DEF CurveInv
<1>3. ASSUME NEW d \in Deploys, Generate(d) \/ ProcessRestart(d) PROVE CurveInv'
  <2>1. \A e \in Deploys : /\ total[e] \in Nat /\ made[e] \in Nat /\ total[e] <= made[e]
                           /\ total'[e] \in Int /\ made'[e] \in Int
                           /\ \/ UNCHANGED <<total[e], made[e]>>
                              \/ total'[e] = total[e] + 1 /\ made'[e] = made[e] + 1
                              \/ total'[e] = 0 /\ made'[e] = made[e]
    BY <1>3, Constants DEF Generate, ProcessRestart, TypeInv, CountersTyped
  <2>2. ASSUME NEW e \in Deploys, NEW s \in Sample, Grew(s, total[e], made[e])
        PROVE  Grew(s, total'[e], made'[e])
    BY <2>1, <2>2, SampleTyped DEF Grew
  <2>3. UNCHANGED <<history, taken>>
    BY <1>3 DEF Generate, ProcessRestart
  <2>4. \A e \in Deploys : history[e] \subseteq Sample
    BY DEF TypeInv, RowsTyped
  <2>5. \A e \in Deploys : \A s \in history'[e] : Grew(s, total'[e], made'[e])
    BY <2>2, <2>3, <2>4 DEF CurveInv
  <2>6. \A x \in taken' : Grew(x.sample, total'[x.id], made'[x.id])
    BY <2>2, <2>3, TakenIs DEF CurveInv
  <2> QED BY <2>3, <2>5, <2>6 DEF CurveInv
<1>4. CASE SetClock \/ LoopBegin
  <2>1. UNCHANGED <<total, made, history, taken>>
    BY <1>4 DEF SetClock, LoopBegin
  <2> QED BY <2>1 DEF CurveInv
<1>5. ASSUME NEW d \in Deploys, Scrape(d) PROVE CurveInv'
  <2> DEFINE new == [ts |-> clock, total |-> total[d], made |-> made[d]]
  <2>1. new.total = total[d] /\ new.made = made[d] /\ total[d] \in Nat /\ made[d] \in Nat
    BY DEF TypeInv, CountersTyped
  <2>2. \A x \in taken' : x.id = d /\ x.sample = new
    BY <1>5 DEF Scrape
  <2> HIDE DEF new
  <2>3. Grew(new, total[d], made[d])
    BY <2>1 DEF Grew
  <2>4. ASSUME NEW s \in history[d] PROVE Agree(s, new) /\ Agree(new, s)
    <3>1. s.made \in Nat /\ s.total \in Nat /\ Grew(s, total[d], made[d])
      BY SampleTyped DEF TypeInv, RowsTyped, CurveInv
    <3> QED BY <2>1, <3>1 DEF Agree, Grew
  <2>5. UNCHANGED <<total, made, history>>
    BY <1>5 DEF Scrape
  <2> QED BY <2>2, <2>3, <2>4, <2>5 DEF CurveInv
<1>6. CASE save_metrics \/ Crash
  <2>1. UNCHANGED <<total, made>> /\ taken' = {}
    BY <1>6 DEF save_metrics, Crash
  <2>2. CASE UNCHANGED history
    BY <2>1, <2>2 DEF CurveInv
  <2>3. ASSUME NEW x \in taken,
               \/ history' = [history EXCEPT ![x.id] = prune(@ \cup {x.sample})]
               \/ history' = [history EXCEPT ![x.id] = @ \cup {x.sample}]
        PROVE  CurveInv'
    <3>1. x.id \in Deploys
      BY TakenIs
    <3>2. \A d \in Deploys : \A s \in history'[d] :
            s \in history[d] \/ (d = x.id /\ s = x.sample)
      <4>1. history'[x.id] \subseteq history[x.id] \cup {x.sample}
        BY <2>3, <3>1 DEF TypeInv, prune
      <4>2. \A d \in Deploys : d # x.id => history'[d] = history[d]
        BY <2>3, <3>1 DEF TypeInv
      <4> QED BY <4>1, <4>2
    <3> QED BY <2>1, <3>2, CurveAdd
  <2> QED BY <1>6, <2>2, <2>3 DEF save_metrics, Crash
<1>7. CASE UNCHANGED vars
  BY <1>7 DEF vars, CurveInv
<1> QED BY <1>1, <1>2, <1>3, <1>4, <1>5, <1>6, <1>7 DEF Next, LoopStep

LEMMA CurveReal == TypeInv /\ CurveInv => SparkIsReal
<1> SUFFICES ASSUME TypeInv, CurveInv, NEW d \in Deploys, NEW p \in spark(d)
             PROVE  /\ Tokens(p[2], p[1]) >= 0
                    /\ p[1].made < p[2].made => Tokens(p[2], p[1]) <= p[2].made - p[1].made
  BY DEF SparkIsReal
<1>1. p[1] \in history[d] /\ p[2] \in history[d]
  BY DEF spark, list_metrics
<1>2. /\ p[1].total \in Nat /\ p[1].made \in Nat
      /\ p[2].total \in Nat /\ p[2].made \in Nat /\ Agree(p[1], p[2])
  BY <1>1, SampleTyped DEF TypeInv, RowsTyped, CurveInv
<1> QED BY <1>2 DEF Tokens, Agree

\* No point of a card's curve is negative or shows more tokens than the deploy
\* generated in between, whatever restarted.
THEOREM CurveIsReal == Spec => []SparkIsReal
<1> QED BY TypeInit, TypeStep, CurveInit, CurveStep, CurveReal, PTL DEF Spec

=============================================================================
