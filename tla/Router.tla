------------------------------- MODULE Router -------------------------------
(***************************************************************************)
(* The router (central/router.py, and the chat endpoint of central/app.py  *)
(* that calls it): which model of a pool answers a message, and the        *)
(* routing state of a conversation, a row of router_sessions.              *)
(*                                                                         *)
(* The endpoint reads the session on the event loop; the routing runs in a *)
(* thread with that object, so several turns of a conversation overlap,    *)
(* and a background judge outlives its turn.  A turn slot is one request,  *)
(* together with the judge thread it may leave behind.                     *)
(***************************************************************************)
EXTENDS Sequences, FiniteSets, Integers

CONSTANTS
  Models,         \* deploys
  Pools,          \* pools, each with
  Members,        \* ... its members, weakest first: Pools -> Seq(Models)
  Mode,           \* ... its mode: Pools -> Modes
  JudgeOf,        \* ... its judge: Pools -> Models, or NoModel
  Convs,          \* session ids clients send
  NoConv,         \* no session_id sent: an id nobody will send again
  Turns,          \* slots: requests at one time
  Confirmations,  \* CONFIRMATIONS
  MaxStreak,      \* bound: a counter stops there, or wraps in round_robin
  Mortal,         \* models that die, fail and come back
  Together,       \* TRUE: clients send a message before the last was answered
  Shared,         \* TRUE: clients send one session id to several pools
  Fragile,        \* TRUE: a judge's answer may break off, the central restart
  NoModel, NoPool

Modes == {"escalation", "advisor", "stage", "round_robin", "classifier"}

ASSUME RouterAssumption ==
  /\ Members \in [Pools -> Seq(Models)]
  /\ Mode \in [Pools -> Modes]
  /\ JudgeOf \in [Pools -> Models \cup {NoModel}]
  /\ Mortal \subseteq Models
  /\ {Together, Shared, Fragile} \subseteq BOOLEAN
  /\ Confirmations \in Nat \ {0} /\ MaxStreak \in Nat /\ MaxStreak >= Confirmations
  /\ \A p \in Pools : Mode[p] = "round_robin" =>
       \A n \in 2..Len(Members[p]) : (MaxStreak + 1) % n = 0
  /\ IsFiniteSet(Turns)
  /\ NoConv \notin Convs /\ NoModel \notin Models /\ NoPool \notin Pools

VARIABLES
  table,      \* Models -> the row of the deploy: status and endpoint
  alive,      \* models that answer
  sessions,   \* Convs -> Session : router_sessions
  silent,     \* sessions not touched for SESSION_TTL_SECONDS
  turn        \* Turns -> Turn

vars == <<table, alive, sessions, silent, turn>>

\* A session object or row; pool = NoPool: no row.
Session == [pool : Pools \cup {NoPool}, streak : 0..MaxStreak, latched : BOOLEAN]
NewSession(p) == [pool |-> p, streak |-> 0, latched |-> FALSE]

Pcs == {"route", "weak", "judge", "strong", "served", "verdict"}
Decisions == {"weak_ok", "weak_bad", "escalated", "latched", "advisor", "weak",
              "strong", "classifier", "round_robin", "none"}
Turn == [pc : Pcs \cup {"idle"}, conv : Convs \cup {NoConv}, pool : Pools \cup {NoPool},
         session : Session, stream : BOOLEAN,
         weak : Models \cup {NoModel},    \* the deploys it works with
         strong : Models \cup {NoModel},
         decision : Decisions,            \* why the answer is the one it is
         verdict : {"none", "fine", "bad"}]
IdleTurn == [pc |-> "idle", conv |-> NoConv, pool |-> NoPool, session |-> NewSession(NoPool),
             stream |-> FALSE, weak |-> NoModel, strong |-> NoModel,
             decision |-> "none", verdict |-> "none"]

\* A strike more; only whether it reaches Confirmations is ever asked.
Struck(n) == IF n < MaxStreak THEN n + 1 ELSE n
\* A message more in round_robin; only the remainder is ever asked.
Turned(n) == IF n < MaxStreak THEN n + 1 ELSE 0

Becomes(t, u) == turn' = [turn EXCEPT ![t] = u]
Ends(t) == Becomes(t, IdleTurn)
At(t, pc) == turn[t].pc = pc

\* _pool_candidates: a row with an endpoint is enough.  The places they have
\* in the pool, weakest first.
Listed(m) == table[m].status # "absent" /\ table[m].endpoint
Candidates(p) == {i \in 1..Len(Members[p]) : Listed(Members[p][i])}

\* _ladder raises when fewer than two are left.
TooFew(p) == Cardinality(Candidates(p)) < 2

\* The model of ladder[n]: the candidate with n weaker ones.
Ladder(p, n) ==
  {Members[p][i] : i \in {i \in Candidates(p) :
                           Cardinality({j \in Candidates(p) : j < i}) = n}}
Weakest(p) == Ladder(p, 0)
Strongest(p) == Ladder(p, Cardinality(Candidates(p)) - 1)

\* _judge_deploy, where there is one.
Judge(p) ==
  IF JudgeOf[p] # NoModel /\ Listed(JudgeOf[p]) THEN {JudgeOf[p]} ELSE Weakest(p)
JudgeAnswers(p) == Judge(p) \cap alive # {}

\* Mutant of Saved: the update sets the streak and leaves the latch alone.
SavedStreak(c, s) ==
  IF c = NoConv THEN sessions
  ELSE IF sessions[c].pool = NoPool THEN [sessions EXCEPT ![c] = s]
  ELSE [sessions EXCEPT ![c].streak = s.streak]
\* upsert_router_session: on conflict the pool of the row stays.
Saved(c, s) ==
  IF c = NoConv THEN sessions
  ELSE [sessions EXCEPT ![c] =
          [s EXCEPT !.pool = IF sessions[c].pool = NoPool THEN s.pool ELSE sessions[c].pool]]

-----------------------------------------------------------------------------
Init ==
  /\ table = [m \in Models |-> [status |-> "healthy", endpoint |-> TRUE]]
  /\ alive = Models
  /\ sessions = [c \in Convs |-> NewSession(NoPool)]
  /\ silent = {}
  /\ turn = [t \in Turns |-> IdleTurn]

-----------------------------------------------------------------------------
(* The deploys, as the rest of the central and the agents change them.       *)

ModelDies(m) ==
  /\ m \in Mortal \cap alive
  /\ alive' = alive \ {m}
  /\ UNCHANGED <<table, sessions, silent, turn>>

\* The reconcile pass: the endpoint of the row stays.
DeathNoted(m) ==
  /\ m \notin alive /\ table[m].status = "healthy"
  /\ table' = [table EXCEPT ![m].status = "failed"]
  /\ UNCHANGED <<alive, sessions, silent, turn>>

\* A redeploy that came up.
ModelBack(m) ==
  /\ m \in Mortal /\ table[m].status = "failed"
  /\ alive' = alive \cup {m}
  /\ table' = [table EXCEPT ![m] = [status |-> "healthy", endpoint |-> TRUE]]
  /\ UNCHANGED <<sessions, silent, turn>>

Destroyed(m) ==
  /\ m \in Mortal /\ table[m].status # "absent"
  /\ alive' = alive \ {m}
  /\ table' = [table EXCEPT ![m] = [status |-> "absent", endpoint |-> FALSE]]
  /\ UNCHANGED <<sessions, silent, turn>>

DeployStep == \E m \in Models : ModelDies(m) \/ DeathNoted(m) \/ ModelBack(m) \/ Destroyed(m)

\* Every call of a turn or of its judge is over long before the hour is.
HourPasses(c) ==
  /\ sessions[c].pool # NoPool
  /\ \A t \in Turns : turn[t].conv # c
  /\ silent' = silent \cup {c}
  /\ UNCHANGED <<table, alive, sessions, turn>>

-----------------------------------------------------------------------------
(* POST /v1/chat/completions, up to the thread: the session is read, renewed *)
(* and touched with no await in between.                                     *)

\* Mutant of Known: the id alone is looked at.
KnownId(c, p) == c # NoConv /\ sessions[c].pool # NoPool
Known(c, p) == c # NoConv /\ sessions[c].pool = p

SessionFor(c, p) ==
  IF Known(c, p) /\ c \notin silent THEN sessions[c] ELSE NewSession(p)

Message(t, c, p) ==
  LET s == SessionFor(c, p) IN
  /\ At(t, "idle")
  /\ ~Together /\ c # NoConv => \A u \in Turns : turn[u].conv = c => At(u, "verdict")
  /\ ~Shared /\ c # NoConv => sessions[c].pool \in {NoPool, p}
  /\ sessions' = IF Known(c, p) /\ c \notin silent THEN sessions ELSE Saved(c, s)
  /\ silent' = silent \ {c}
  /\ \E stream \in BOOLEAN :
       Becomes(t, [IdleTurn EXCEPT !.pc = "route", !.conv = c, !.pool = p,
                                   !.session = s, !.stream = stream])
  /\ UNCHANGED <<table, alive>>

-----------------------------------------------------------------------------
Judged(t, s) == sessions' = Saved(turn[t].conv, s)

(* The routing thread, one action from one call of a model to the next.      *)

\* The turn works with these deploys and waits for the answer of one.
Calls(t, pc, weak, strong, decision) ==
  Becomes(t, [turn[t] EXCEPT !.pc = pc, !.weak = weak, !.strong = strong,
                             !.decision = decision])

Routes(t, mode) == At(t, "route") /\ Mode[turn[t].pool] = mode

\* _ladder raises: "needs at least 2 running models".
RouteTooFew(t) ==
  /\ At(t, "route") /\ TooFew(turn[t].pool)
  /\ Mode[turn[t].pool] = "classifier" => Candidates(turn[t].pool) = {}
  /\ Ends(t)
  /\ UNCHANGED <<table, alive, sessions, silent>>

RouteEscalation(t) ==
  LET p == turn[t].pool IN
  /\ Routes(t, "escalation") /\ ~TooFew(p)
  /\ \E weak \in Weakest(p), strong \in Strongest(p) :
       IF turn[t].session.latched THEN Calls(t, "strong", NoModel, strong, "latched")
       ELSE Calls(t, "weak", weak, strong, "none")
  /\ UNCHANGED <<table, alive, sessions, silent>>

\* Only a streamed turn looks at the latch before the weak model is asked.
RouteAdvisor(t) ==
  LET p == turn[t].pool IN
  /\ Routes(t, "advisor") /\ ~TooFew(p)
  /\ \E weak \in Weakest(p), strong \in Strongest(p) :
       IF turn[t].session.latched /\ turn[t].stream
       THEN Calls(t, "strong", NoModel, strong, "latched")
       ELSE Calls(t, "weak", weak, strong, "none")
  /\ UNCHANGED <<table, alive, sessions, silent>>

\* The words of the message decide, unless the session is latched.
RouteStage(t) ==
  LET p == turn[t].pool
      latched == turn[t].session.latched
  IN
  /\ Routes(t, "stage") /\ ~TooFew(p)
  /\ \/ \E strong \in Strongest(p) :
          Calls(t, "strong", NoModel, strong,
                IF latched /\ turn[t].stream THEN "latched" ELSE "strong")
     \/ ~latched /\ \E weak \in Weakest(p) : Calls(t, "strong", NoModel, weak, "weak")
  /\ UNCHANGED <<table, alive, sessions, silent>>

RouteRoundRobin(t) ==
  LET p == turn[t].pool
      s == turn[t].session
  IN
  /\ Routes(t, "round_robin") /\ ~TooFew(p)
  /\ \E next \in Ladder(p, s.streak % Cardinality(Candidates(p))) :
       Calls(t, "strong", NoModel, next, "round_robin")
  /\ Judged(t, [s EXCEPT !.streak = Turned(@)])
  /\ UNCHANGED <<table, alive, silent>>

\* A judge that cannot be asked, or answers something else, means the first.
RouteClassifier(t) ==
  LET p == turn[t].pool IN
  /\ Routes(t, "classifier")
  /\ \E i \in Candidates(p) :
       /\ Members[p][i] \in Weakest(p) \/ JudgeAnswers(p)
       /\ Calls(t, "strong", NoModel, Members[p][i], "classifier")
  /\ UNCHANGED <<table, alive, sessions, silent>>

\* Mutant of CallFails: a failed call is tried again from the top.
CallRetried(t) ==
  /\ At(t, "weak") \/ At(t, "strong")
  /\ Becomes(t, [turn[t] EXCEPT !.pc = "route"])
  /\ UNCHANGED <<table, alive, sessions, silent>>
\* A call that fails, in time or by the model's word, or whose answer breaks
\* off: the endpoint turns every exception into a 502, and there is no strike.
CallFails(t) ==
  /\ At(t, "weak") \/ At(t, "strong")
  /\ Ends(t)
  /\ UNCHANGED <<table, alive, sessions, silent>>

\* The weak model answered; an empty answer is bad without asking the judge.
WeakAnswers(t) ==
  LET p == turn[t].pool
      latched == turn[t].session.latched
  IN
  /\ At(t, "weak") /\ turn[t].weak \in alive
  /\ \/ /\ Mode[p] = "escalation"
        /\ \E verdict \in {"none", "bad"} :
             Becomes(t, [turn[t] EXCEPT !.pc = "judge", !.verdict = verdict])
     \/ /\ Mode[p] = "advisor"
        /\ Becomes(t, IF latched THEN [turn[t] EXCEPT !.pc = "strong", !.decision = "latched"]
                      ELSE [turn[t] EXCEPT !.pc = "verdict", !.decision = "advisor"])
  /\ UNCHANGED <<table, alive, sessions, silent>>

\* The verdicts a judge may come to; one that cannot be asked, or answers
\* something else, accepts.
Verdicts(t) ==
  IF turn[t].verdict = "bad" THEN {"bad"}
  ELSE {"fine"} \cup (IF JudgeAnswers(turn[t].pool) THEN {"bad"} ELSE {})

\* route_escalation after the weak reply, with the session it was called with.
Escalate(t) ==
  LET s == turn[t].session
      empty == turn[t].verdict = "bad"
  IN
  /\ At(t, "judge")
  /\ \E verdict \in Verdicts(t) :
       \/ /\ verdict = "fine"
          /\ Judged(t, [s EXCEPT !.streak = 0])
          /\ Becomes(t, [turn[t] EXCEPT !.pc = "served", !.verdict = verdict,
                                        !.decision = "weak_ok"])
       \/ /\ verdict = "bad"
          /\ LET latches == s.streak + 1 >= Confirmations IN
             /\ Judged(t, [s EXCEPT !.streak = Struck(@), !.latched = @ \/ latches])
             /\ Becomes(t, [turn[t] EXCEPT
                  !.pc = IF latches THEN "strong" ELSE "served",
                  !.verdict = verdict,
                  !.decision = IF latches THEN "escalated"
                               ELSE IF empty THEN "weak_bad" ELSE "weak_ok"])
  /\ UNCHANGED <<table, alive, silent>>

\* The strong model, or the one the mode picked, answered.
StrongAnswers(t) ==
  /\ At(t, "strong") /\ turn[t].strong \in alive
  /\ Becomes(t, [turn[t] EXCEPT
       !.pc = IF Mode[turn[t].pool] = "advisor" /\ ~turn[t].stream THEN "verdict"
              ELSE "served"])
  /\ UNCHANGED <<table, alive, sessions, silent>>

\* The answer goes out and the decision is logged.
Served(t) ==
  /\ At(t, "served")
  /\ Ends(t)
  /\ UNCHANGED <<table, alive, sessions, silent>>

\* Mutant of CountNow: computed from the session the turn was called with.
StaleCount(t) == turn[t].session.streak
CountNow(t) == sessions[turn[t].conv].streak

\* apply_judge_verdict in the background thread, one UPDATE of the row there is.
Verdict(t) ==
  LET c == turn[t].conv IN
  /\ At(t, "verdict")
  /\ \E bad \in (IF JudgeAnswers(turn[t].pool) THEN BOOLEAN ELSE {FALSE}) :
       sessions' =
         IF c = NoConv THEN sessions
         ELSE [sessions EXCEPT
                 ![c].streak = IF bad THEN Struck(CountNow(t)) ELSE 0,
                 ![c].latched = @ \/ (bad /\ CountNow(t) + 1 >= Confirmations)]
  /\ Ends(t)
  /\ UNCHANGED <<table, alive, silent>>

\* The judge's answer breaks off or is no JSON: an exception _judge does not
\* catch.  In the foreground it ends the turn before anything is saved, in the
\* background it is dropped, as is an error of the UPDATE itself.
JudgeRaises(t) ==
  /\ Fragile
  /\ \/ At(t, "judge") /\ turn[t].verdict = "none" /\ Judge(turn[t].pool) # {}
     \/ At(t, "verdict")
  /\ Ends(t)
  /\ UNCHANGED <<table, alive, sessions, silent>>

TurnStep(t) ==
  \/ RouteTooFew(t) \/ RouteEscalation(t) \/ RouteAdvisor(t) \/ RouteStage(t)
  \/ RouteRoundRobin(t) \/ RouteClassifier(t)
  \/ CallFails(t) \/ WeakAnswers(t) \/ Escalate(t) \/ StrongAnswers(t)
  \/ Served(t) \/ Verdict(t) \/ JudgeRaises(t)

\* The central stops and starts again: requests and judges end where they are.
CentralRestart ==
  /\ Fragile /\ \E t \in Turns : ~At(t, "idle")
  /\ turn' = [t \in Turns |-> IdleTurn]
  /\ UNCHANGED <<table, alive, sessions, silent>>

Next ==
  \/ \E t \in Turns, c \in Convs \cup {NoConv}, p \in Pools : Message(t, c, p)
  \/ \E t \in Turns : TurnStep(t)
  \/ \E c \in Convs : HourPasses(c)
  \/ CentralRestart
  \/ DeployStep

Spec == Init /\ [][Next]_vars

\* A call has a time limit, and neither the thread of a request nor that of a
\* judge waits for anything else.
FairSpec == Spec /\ \A t \in Turns : WF_vars(TurnStep(t))

-----------------------------------------------------------------------------
TypeOK ==
  /\ table \in [Models -> [status : {"healthy", "failed", "absent"}, endpoint : BOOLEAN]]
  /\ alive \subseteq Models
  /\ sessions \in [Convs -> Session]
  /\ silent \subseteq Convs
  /\ turn \in [Turns -> Turn]
  /\ \A t \in Turns : turn[t].session.pool = turn[t].pool  \* its own session

\* The turns of a conversation whose verdict is not in yet, its rejected
\* replies in a row, and whether it is pinned.
Waiting(c) == {t \in Turns : turn[t].conv = c /\ turn[t].pc \in {"judge", "verdict"}}
Asked == [c \in Convs |-> Cardinality(Waiting(c))]
Strikes == [c \in Convs |-> IF sessions[c].streak < Confirmations
                            THEN sessions[c].streak ELSE Confirmations]
Pinned == [c \in Convs |-> sessions[c].latched]

\* A conversation that waits for its answers before the next message, and
\* keeps to one pool, is counted and pinned as README.md:272-299 promises:
\* every verdict counts once, however late the judge of an advisor pool comes,
\* and one that is lost (Fragile) leaves strikes and latch as they are.
Promise == INSTANCE Latch WITH asked <- Asked, strikes <- Strikes, pinned <- Pinned,
                               MayLose <- Fragile
LatchSpec == Promise!Spec

\* No turn is left without an answer or an error, and no judge deliberates
\* forever, whatever dies while they run (the time limits of agent_client.chat).
TurnEnds == \A t \in Turns : ~At(t, "idle") ~> At(t, "idle")

\* A turn answered by the strong model because the judge said so twice has
\* its conversation pinned before the answer is there, so the next message
\* goes straight there even when this answer fails (router.route_escalation).
StrongIsPinned ==
  \A t \in Turns :
    turn[t].decision \in {"escalated", "latched"} /\ turn[t].conv # NoConv
      => sessions[turn[t].conv].latched
=============================================================================
