------------------------------ MODULE Metrics ------------------------------
(***************************************************************************)
(* The numbers on a deploy's card: the central's sampling loop and the     *)
(* curve it draws (central/app.py), the samples in the database            *)
(* (central/db.py) and what a sample tells (core/metrics.py).              *)
(*                                                                         *)
(* The loop reads the list of deploys once and then awaits one agent after *)
(* the other; handlers run in between.  A counter starts at zero whenever  *)
(* the model's process does, and the machine's clock may be set back.      *)
(***************************************************************************)
EXTENDS Integers, FiniteSets

CONSTANTS
  Deploys,
  METRICS_KEEP,   \* samples kept of each deploy
  Limit,          \* points of the curve at most
  MaxClock,       \* bound: readings of the clock
  MaxTokens,      \* bound: tokens each deploy generates
  MaxCrashes      \* bound: crashes of the central

ASSUME MetricsAssumption ==
  /\ METRICS_KEEP \in Nat \ {0} /\ Limit \in Nat \ {0}
  /\ MaxClock \in Nat /\ MaxTokens \in Nat /\ MaxCrashes \in Nat

VARIABLES
  status,    \* "none", "sampled" (a status the loop looks at), "gone", or
             \* "stopping": being destroyed, or failed, which the loop passes over too
  total,     \* generation_tokens_total of the model's process
  made,      \* tokens the deploy ever generated, whatever the counter says
  clock,     \* time.time() where the samples are taken
  history,   \* the metrics table
  todo,      \* the loop: deploys of its list still to ask
  taken,     \* ... and the sample an agent sent, not saved yet
  crashes

vars == <<status, total, made, clock, history, todo, taken, crashes>>

Sample == [ts : 0..MaxClock, total : 0..MaxTokens, made : 0..MaxTokens]

Init ==
  /\ status = [d \in Deploys |-> "none"]
  /\ total = [d \in Deploys |-> 0]
  /\ made = [d \in Deploys |-> 0]
  /\ clock = 0
  /\ history = [d \in Deploys |-> {}]
  /\ todo = {}
  /\ taken = {}
  /\ crashes = 0

Exists(d) == status[d] \in {"sampled", "stopping"}
loopVars == <<todo, taken, crashes>>

-----------------------------------------------------------------------------
(* The database. *)

\* list_metrics: the newest ones.  No two of a deploy have one time.
list_metrics(rows, limit) == {s \in rows : Cardinality({t \in rows : t.ts > s.ts}) < limit}

\* Mutant of prune: keeps one too many.
prune_late(rows) == {s \in rows : Cardinality({t \in rows : t.ts > s.ts}) <= METRICS_KEEP}

\* _prune_metrics: whatever is older than the newest METRICS_KEEP.
prune(rows) == {s \in rows : Cardinality({t \in rows : t.ts > s.ts}) < METRICS_KEEP}

-----------------------------------------------------------------------------
(* The deploys and their models. *)

\* A deploy starts to serve.
Serve(d) ==
  /\ status[d] = "none"
  /\ status' = [status EXCEPT ![d] = "sampled"]
  /\ UNCHANGED <<total, made, clock, history, loopVars>>

\* redeploy: the row keeps a status the loop looks at, the samples go.
redeploy(d) ==
  /\ Exists(d)
  /\ status' = [status EXCEPT ![d] = "sampled"]
  /\ history' = [history EXCEPT ![d] = {}]
  /\ UNCHANGED <<total, made, clock, loopVars>>

\* destroy_deploy, up to its await of the agent's stop, which may fail ...
destroy_deploy(d) ==
  /\ Exists(d)
  /\ status' = [status EXCEPT ![d] = "stopping"]
  /\ UNCHANGED <<total, made, clock, history, loopVars>>

\* store.delete, one transaction (a crash between its two statements, when
\* another thread has just committed the first, is left out).  Its mutant leaves
\* the samples to the next redeploy.
delete_row(d) ==
  /\ status' = [status EXCEPT ![d] = "gone"]
  /\ UNCHANGED history
delete(d) ==
  /\ status' = [status EXCEPT ![d] = "gone"]
  /\ history' = [history EXCEPT ![d] = {}]

\* ... and after it.
DestroyEnd(d) ==
  /\ status[d] = "stopping"
  /\ delete(d)
  /\ UNCHANGED <<total, made, clock, loopVars>>

Generate(d) ==
  /\ made[d] < MaxTokens
  /\ total' = [total EXCEPT ![d] = @ + 1]
  /\ made' = [made EXCEPT ![d] = @ + 1]
  /\ UNCHANGED <<status, clock, history, loopVars>>

\* The model's process is another one: a redeploy, or a crash.
ProcessRestart(d) ==
  /\ total' = [total EXCEPT ![d] = 0]
  /\ UNCHANGED <<status, made, clock, history, loopVars>>

\* Time passes, or the clock is corrected.
SetClock ==
  /\ clock' \in 0..clock + 1 /\ clock' <= MaxClock
  /\ UNCHANGED <<status, total, made, history, loopVars>>

-----------------------------------------------------------------------------
(* _metrics_loop. *)

\* Every 10 s after the last pass: store.list().
LoopBegin ==
  /\ todo = {} /\ taken = {}
  /\ todo' = {d \in Deploys : status[d] = "sampled"}
  /\ UNCHANGED <<status, total, made, clock, history, taken, crashes>>

\* agent_client.metrics: scrape reads the counters and then the clock, which
\* never shows one time twice.  The model may answer although it was stopped.
Scrape(d) ==
  /\ taken = {} /\ d \in todo
  /\ \A s \in history[d] : s.ts # clock
  /\ todo' = todo \ {d}
  /\ taken' = {[id |-> d, sample |-> [ts |-> clock, total |-> total[d], made |-> made[d]]]}
  /\ UNCHANGED <<status, total, made, clock, history, crashes>>

\* Mutant of NoAnswer: the loop ends with an exception.
NoAnswerEnds(d) == FALSE

\* An AgentError, or anything else: the next deploy.
NoAnswer(d) ==
  /\ taken = {} /\ d \in todo
  /\ todo' = todo \ {d}
  /\ UNCHANGED <<status, total, made, clock, history, taken, crashes>>

\* save_metrics, without another look at the deploy.
save_metrics ==
  /\ \E x \in taken :
       history' = [history EXCEPT ![x.id] = prune(@ \cup {x.sample})]
  /\ taken' = {}
  /\ UNCHANGED <<status, total, made, clock, todo, crashes>>

\* The central crashes and starts again: the pass is gone, and its sample is lost
\* or, between the two commits of save_metrics, saved without the prune.
Crash ==
  /\ crashes < MaxCrashes
  /\ crashes' = crashes + 1
  /\ todo' = {} /\ taken' = {}
  /\ \/ UNCHANGED history
     \/ \E x \in taken : history' = [history EXCEPT ![x.id] = @ \cup {x.sample}]
  /\ UNCHANGED <<status, total, made, clock>>

LoopStep == save_metrics \/ \E d \in Deploys : Scrape(d) \/ NoAnswer(d)

Next ==
  \/ \E d \in Deploys :
       \/ Serve(d) \/ redeploy(d) \/ destroy_deploy(d) \/ DestroyEnd(d)
       \/ Generate(d) \/ ProcessRestart(d)
  \/ SetClock
  \/ LoopBegin \/ LoopStep
  \/ Crash

Spec == Init /\ [][Next]_vars

\* Every call to an agent answers or times out.
FairSpec == Spec /\ WF_vars(LoopStep)

-----------------------------------------------------------------------------
(* What the card shows. *)

\* Mutant of Tokens: a counter that went back is trusted.
TokensSigned(cur, prev) == cur.total - prev.total

\* Tokens between two samples: _spark divides them by the time between.
Tokens(cur, prev) == IF cur.total >= prev.total THEN cur.total - prev.total ELSE 0

\* _spark: a point for each sample and the next one, the older of them first;
\* nothing to draw with less than two samples.
spark(d) ==
  LET snaps == list_metrics(history[d], Limit + 1) IN
  {p \in snaps \X snaps : /\ p[1].ts < p[2].ts
                          /\ \A s \in snaps : s.ts <= p[1].ts \/ p[2].ts <= s.ts}

-----------------------------------------------------------------------------
\* One sample at most is between the agent and the table, and of a deploy never
\* more are kept than METRICS_KEEP and one for every crash that came before the
\* prune.
TypeOK ==
  /\ status \in [Deploys -> {"none", "sampled", "stopping", "gone"}]
  /\ total \in [Deploys -> 0..MaxTokens] /\ made \in [Deploys -> 0..MaxTokens]
  /\ clock \in 0..MaxClock
  /\ \A d \in Deploys : history[d] \subseteq Sample /\ Cardinality(history[d]) <= METRICS_KEEP + crashes
  /\ crashes \in 0..MaxCrashes
  /\ todo \subseteq Deploys
  /\ taken = {} \/ \E d \in Deploys, s \in Sample : taken = {[id |-> d, sample |-> s]}

\* No point of the curve is negative, and none shows more tokens than the
\* deploy generated between its two samples, whatever restarted in between
\* (but for two samples that a clock set back may have swapped).
SparkIsReal ==
  \A d \in Deploys : \A p \in spark(d) :
    LET prev == p[1]
        cur == p[2] IN
    /\ Tokens(cur, prev) >= 0
    /\ prev.made < cur.made => Tokens(cur, prev) <= cur.made - prev.made

\* A deploy that is gone leaves one row behind at most: the sample that was on
\* its way while the row was deleted.  No later pass asks for it again.
OneOrphan == \A d \in Deploys : status[d] = "gone" => Cardinality(history[d]) <= 1

\* A pass ends, however many agents do not answer.
PassEnds == todo # {} ~> todo = {}
=============================================================================
