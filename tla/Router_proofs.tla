--------------------------- MODULE Router_proofs ---------------------------
(***************************************************************************)
(* Theorems about Router, for any models, pools, clients and requests.     *)
(***************************************************************************)
EXTENDS Router, FiniteSetTheorems, TLAPS

-----------------------------------------------------------------------------
(* Lemmas about turns and rows.                                            *)

LEMMA Constants ==
  /\ \A p \in Pools : Mode[p] \in Modes /\ \A i \in 1..Len(Members[p]) : Members[p][i] \in Models
  /\ Confirmations \in Nat /\ Confirmations > 0
  /\ MaxStreak \in Nat /\ MaxStreak >= Confirmations
  /\ NoConv \notin Convs /\ NoPool \notin Pools /\ IsFiniteSet(Turns)
  BY RouterAssumption DEF RouterAssumption

SessionsTyped == sessions \in [Convs -> Session]

\* A slot that is free remembers nothing, and a turn has a session of its pool.
TurnsTyped ==
  /\ turn \in [Turns -> Turn]
  /\ \A t \in Turns : /\ turn[t].session.pool = turn[t].pool
                      /\ At(t, "idle") => turn[t] = IdleTurn
                      /\ ~At(t, "idle") => turn[t].pool \in Pools

LEMMA NewTyped ==
  ASSUME NEW p \in Pools \cup {NoPool}
  PROVE  /\ NewSession(p) \in Session /\ NewSession(p).pool = p
         /\ NewSession(p).streak = 0 /\ NewSession(p).latched = FALSE
  BY Constants DEF NewSession, Session

LEMMA IdleIs ==
  /\ IdleTurn \in Turn /\ IdleTurn.pc = "idle" /\ IdleTurn.conv = NoConv
  /\ IdleTurn.pool = NoPool /\ IdleTurn.session = NewSession(NoPool)
  /\ IdleTurn.decision = "none"
  BY NewTyped DEF IdleTurn, Turn, Decisions

OthersStay(t) == \A u \in Turns : u # t => turn'[u] = turn[u]
SameTurn(t) ==
  /\ turn'[t].conv = turn[t].conv
  /\ turn'[t].pool = turn[t].pool
  /\ turn'[t].session = turn[t].session

LEMMA Ending ==
  ASSUME TurnsTyped, NEW t \in Turns, Ends(t)
  PROVE  TurnsTyped' /\ OthersStay(t) /\ turn'[t] = IdleTurn
<1>1. turn' = [turn EXCEPT ![t] = IdleTurn]
  BY DEF Ends, Becomes
<1> QED BY <1>1, IdleIs, NewTyped DEF TurnsTyped, OthersStay, At

LEMMA Moving ==
  ASSUME TurnsTyped, NEW t \in Turns, ~At(t, "idle"), NEW u \in Turn, u.pc # "idle",
         u.conv = turn[t].conv, u.pool = turn[t].pool, u.session = turn[t].session,
         Becomes(t, u)
  PROVE  TurnsTyped' /\ OthersStay(t) /\ turn'[t] = u /\ SameTurn(t)
  BY DEF TurnsTyped, Becomes, OthersStay, SameTurn, At

LEMMA CallsTo ==
  ASSUME TurnsTyped, NEW t \in Turns, ~At(t, "idle"), NEW pc \in Pcs,
         NEW weak \in Models \cup {NoModel}, NEW strong \in Models \cup {NoModel},
         NEW decision \in Decisions, Calls(t, pc, weak, strong, decision)
  PROVE  /\ TurnsTyped' /\ OthersStay(t) /\ SameTurn(t)
         /\ turn'[t].pc = pc /\ turn'[t].decision = decision
<1> DEFINE u == [turn[t] EXCEPT !.pc = pc, !.weak = weak, !.strong = strong,
                                !.decision = decision]
<1>1. turn[t] \in Turn
  BY DEF TurnsTyped
<1>2. /\ u \in Turn /\ u.pc = pc /\ u.decision = decision /\ u.conv = turn[t].conv
      /\ u.pool = turn[t].pool /\ u.session = turn[t].session
  BY <1>1 DEF Turn
<1>3. pc # "idle"
  BY DEF Pcs
<1>4. Becomes(t, u)
  BY DEF Calls
<1> HIDE DEF u
<1> QED BY <1>2, <1>3, <1>4, Moving

LEMMA LadderModels ==
  ASSUME NEW p \in Pools, NEW n
  PROVE  Ladder(p, n) \subseteq Models
  BY Constants DEF Ladder, Candidates

LEMMA EndModels ==
  ASSUME NEW p \in Pools
  PROVE  Weakest(p) \subseteq Models /\ Strongest(p) \subseteq Models
  BY LadderModels DEF Weakest, Strongest

LEMMA SavedTo ==
  ASSUME SessionsTyped, NEW c \in Convs, NEW s \in Session
  PROVE  /\ Saved(c, s) \in [Convs -> Session]
         /\ \A d \in Convs : d # c => Saved(c, s)[d] = sessions[d]
         /\ Saved(c, s)[c].streak = s.streak /\ Saved(c, s)[c].latched = s.latched
         /\ Saved(c, s)[c].pool = IF sessions[c].pool = NoPool THEN s.pool ELSE sessions[c].pool
         /\ s.pool = Saved(c, s)[c].pool => Saved(c, s)[c] = s
<1> DEFINE pool == IF sessions[c].pool = NoPool THEN s.pool ELSE sessions[c].pool
           r == [s EXCEPT !.pool = pool]
<1>1. r \in Session /\ r.streak = s.streak /\ r.latched = s.latched /\ r.pool = pool
  BY DEF Session, SessionsTyped
<1>2. s.pool = pool => r = s
  BY DEF Session
<1>3. Saved(c, s) = [sessions EXCEPT ![c] = r]
  BY Constants DEF Saved
<1> HIDE DEF r
<1>4. Saved(c, s)[c] = r
  BY <1>3 DEF SessionsTyped
<1> QED BY <1>1, <1>2, <1>3, <1>4 DEF SessionsTyped

LEMMA SavedNothing == ASSUME NEW s PROVE Saved(NoConv, s) = sessions
  BY DEF Saved

-----------------------------------------------------------------------------
(* What a step of a turn does, whatever the mode.                          *)

Latches(s) == s.streak + 1 >= Confirmations
Latched == {"escalated", "latched"}

\* The turn is over, with an answer or without one, or its verdict is lost.
Finishes(t) ==
  /\ ~At(t, "idle") /\ turn'[t] = IdleTurn
  /\ turn[t].pc \in {"judge", "verdict"} => Fragile
  /\ UNCHANGED sessions
\* It works with a model, or has its answer.
Proceeds(t) ==
  /\ turn[t].pc \in {"route", "weak", "strong"} /\ turn'[t].pc \in {"weak", "strong", "served"}
  /\ turn'[t].pc = "weak" => turn[t].pc = "route"
  /\ SameTurn(t) /\ UNCHANGED sessions
  /\ turn'[t].decision \in Latched => turn[t].decision \in Latched \/ turn[t].session.latched
\* The judge is asked.
Asks(t) ==
  /\ \/ /\ turn[t].pc = "weak" /\ turn'[t].pc = "judge"
        /\ Mode[turn[t].pool] = "escalation"
     \/ /\ turn[t].pc \in {"weak", "strong"} /\ turn'[t].pc = "verdict"
        /\ Mode[turn[t].pool] = "advisor"
  /\ SameTurn(t) /\ UNCHANGED sessions
  /\ turn'[t].decision \in Latched => turn[t].decision \in Latched
\* The row counts the messages of round_robin.
Rotates(t) ==
  /\ turn[t].pc = "route" /\ turn'[t].pc = "strong" /\ Mode[turn[t].pool] = "round_robin"
  /\ SameTurn(t) /\ turn'[t].decision \notin Latched
  /\ sessions' = Saved(turn[t].conv,
                       [turn[t].session EXCEPT !.streak = Turned(turn[t].session.streak)])
\* The judge of an escalation pool accepts ...
Accepts(t) ==
  /\ turn[t].pc = "judge" /\ turn'[t].pc = "served"
  /\ SameTurn(t) /\ turn'[t].decision \notin Latched
  /\ sessions' = Saved(turn[t].conv, [turn[t].session EXCEPT !.streak = 0])
\* ... or rejects.
Rejects(t) ==
  LET s == turn[t].session IN
  /\ turn[t].pc = "judge" /\ turn'[t].pc \in {"strong", "served"}
  /\ SameTurn(t)
  /\ turn'[t].decision \in Latched => Latches(s)
  /\ sessions' = Saved(turn[t].conv,
                       [s EXCEPT !.streak = Struck(s.streak), !.latched = s.latched \/ Latches(s)])
\* The verdict of an advisor pool comes.
Delivers(t) ==
  LET c == turn[t].conv IN
  /\ turn[t].pc = "verdict" /\ turn'[t] = IdleTurn
  /\ \E bad \in BOOLEAN :
       sessions' = IF c = NoConv THEN sessions
                   ELSE [sessions EXCEPT
                          ![c].streak = IF bad THEN Struck(sessions[c].streak) ELSE 0,
                          ![c].latched = @ \/ (bad /\ Latches(sessions[c]))]

Works(t) == Finishes(t) \/ Proceeds(t) \/ Asks(t) \/ Rotates(t)
            \/ Accepts(t) \/ Rejects(t) \/ Delivers(t)

LEMMA RoutesGo ==
  ASSUME TurnsTyped, NEW t \in Turns,
         RouteTooFew(t) \/ RouteEscalation(t) \/ RouteAdvisor(t) \/ RouteStage(t)
         \/ RouteRoundRobin(t) \/ RouteClassifier(t)
  PROVE  TurnsTyped' /\ OthersStay(t) /\ Works(t)
<1> DEFINE p == turn[t].pool
           latched == turn[t].session.latched
<1>1. At(t, "route") /\ ~At(t, "idle") /\ p \in Pools
  BY DEF RouteTooFew, RouteEscalation, RouteAdvisor, RouteStage, RouteRoundRobin,
         RouteClassifier, Routes, TurnsTyped, At
<1>2. Weakest(p) \subseteq Models /\ Strongest(p) \subseteq Models
  BY <1>1, EndModels
<1>3. ASSUME NEW pc \in {"weak", "strong"}, NEW weak \in Models \cup {NoModel},
             NEW strong \in Models \cup {NoModel}, NEW decision \in Decisions,
             Calls(t, pc, weak, strong, decision), UNCHANGED sessions,
             decision \in Latched => latched
      PROVE  TurnsTyped' /\ OthersStay(t) /\ Works(t)
  <2>1. /\ TurnsTyped' /\ OthersStay(t) /\ SameTurn(t)
        /\ turn'[t].pc = pc /\ turn'[t].decision = decision
    BY <1>1, <1>3, CallsTo DEF Pcs
  <2>2. Proceeds(t)
    BY <1>1, <1>3, <2>1 DEF Proceeds, At
  <2> QED BY <2>1, <2>2 DEF Works
<1>4. CASE RouteTooFew(t)
  <2>1. TurnsTyped' /\ OthersStay(t) /\ turn'[t] = IdleTurn /\ UNCHANGED sessions
    BY <1>4, Ending DEF RouteTooFew
  <2> QED BY <1>1, <2>1 DEF Works, Finishes, At
<1>5. CASE RouteEscalation(t) \/ RouteAdvisor(t)
  <2>1. PICK weak \in Weakest(p), strong \in Strongest(p) :
               \/ latched /\ Calls(t, "strong", NoModel, strong, "latched")
               \/ Calls(t, "weak", weak, strong, "none")
    BY <1>5 DEF RouteEscalation, RouteAdvisor
  <2>2. UNCHANGED sessions
    BY <1>5 DEF RouteEscalation, RouteAdvisor
  <2> QED BY <1>2, <1>3, <2>1, <2>2 DEF Decisions, Latched
<1>6. CASE RouteStage(t)
  <2>1. PICK m \in Models, decision \in {"latched", "strong", "weak"} :
               Calls(t, "strong", NoModel, m, decision) /\ (decision = "latched" => latched)
    BY <1>2, <1>6 DEF RouteStage
  <2>2. UNCHANGED sessions
    BY <1>6 DEF RouteStage
  <2> QED BY <1>3, <2>1, <2>2 DEF Decisions, Latched
<1>7. CASE RouteClassifier(t)
  <2>1. PICK i \in Candidates(p) : Calls(t, "strong", NoModel, Members[p][i], "classifier")
    BY <1>7 DEF RouteClassifier
  <2>2. Members[p][i] \in Models /\ UNCHANGED sessions
    BY <1>1, <1>7, <2>1, Constants DEF RouteClassifier, Candidates
  <2> QED BY <1>3, <2>1, <2>2 DEF Decisions, Latched
<1>8. CASE RouteRoundRobin(t)
  <2>1. PICK next \in Ladder(p, turn[t].session.streak % Cardinality(Candidates(p))) :
               Calls(t, "strong", NoModel, next, "round_robin")
    BY <1>8 DEF RouteRoundRobin
  <2>2. next \in Models
    BY <1>1, <2>1, LadderModels
  <2>3. /\ TurnsTyped' /\ OthersStay(t) /\ SameTurn(t)
        /\ turn'[t].pc = "strong" /\ turn'[t].decision = "round_robin"
    BY <1>1, <2>1, <2>2, CallsTo DEF Pcs, Decisions
  <2>4. Rotates(t)
    BY <1>1, <1>8, <2>3 DEF RouteRoundRobin, Routes, Rotates, Judged, Latched, At
  <2> QED BY <2>3, <2>4 DEF Works
<1> QED BY <1>4, <1>5, <1>6, <1>7, <1>8

LEMMA ReplyGoes ==
  ASSUME TurnsTyped, NEW t \in Turns,
         CallFails(t) \/ WeakAnswers(t) \/ StrongAnswers(t) \/ Served(t)
  PROVE  TurnsTyped' /\ OthersStay(t) /\ Works(t)
<1> DEFINE p == turn[t].pool
<1>1. /\ turn[t] \in Turn /\ ~At(t, "idle") /\ UNCHANGED sessions
      /\ turn[t].decision \in Decisions /\ turn[t].verdict \in {"none", "fine", "bad"}
  BY DEF CallFails, WeakAnswers, StrongAnswers, Served, TurnsTyped, Turn, At
<1>2. CASE CallFails(t) \/ Served(t)
  <2>1. TurnsTyped' /\ OthersStay(t) /\ turn'[t] = IdleTurn
    BY <1>2, Ending DEF CallFails, Served
  <2> QED BY <1>1, <1>2, <2>1 DEF CallFails, Served, Works, Finishes, At
<1>3. ASSUME NEW pc \in Pcs, NEW decision \in Decisions,
             NEW verdict \in {"none", "fine", "bad"},
             Becomes(t, [turn[t] EXCEPT !.pc = pc, !.verdict = verdict, !.decision = decision])
      PROVE  /\ TurnsTyped' /\ OthersStay(t) /\ SameTurn(t)
             /\ turn'[t].pc = pc /\ turn'[t].decision = decision
  <2> DEFINE u == [turn[t] EXCEPT !.pc = pc, !.verdict = verdict, !.decision = decision]
  <2>1. /\ u \in Turn /\ u.pc = pc /\ u.decision = decision /\ u.conv = turn[t].conv
        /\ u.pool = turn[t].pool /\ u.session = turn[t].session
    BY <1>1 DEF Turn
  <2>2. pc # "idle" /\ Becomes(t, u)
    BY <1>3 DEF Pcs
  <2> HIDE DEF u
  <2> QED BY <1>1, <2>1, <2>2, Moving
<1>4. CASE WeakAnswers(t)
  <2>1. ASSUME NEW verdict \in {"none", "bad"}, Mode[p] = "escalation",
               Becomes(t, [turn[t] EXCEPT !.pc = "judge", !.verdict = verdict])
        PROVE  TurnsTyped' /\ OthersStay(t) /\ Works(t)
    <3>1. [turn[t] EXCEPT !.pc = "judge", !.verdict = verdict]
            = [turn[t] EXCEPT !.pc = "judge", !.verdict = verdict, !.decision = turn[t].decision]
      BY <1>1 DEF Turn
    <3>2. /\ TurnsTyped' /\ OthersStay(t) /\ SameTurn(t)
          /\ turn'[t].pc = "judge" /\ turn'[t].decision = turn[t].decision
      <4>1. "judge" \in Pcs
        BY DEF Pcs
      <4>2. Becomes(t, [turn[t] EXCEPT !.pc = "judge", !.verdict = verdict,
                                       !.decision = turn[t].decision])
        BY <2>1, <3>1
      <4> QED BY <1>1, <1>3, <4>1, <4>2
    <3> QED BY <1>1, <1>4, <2>1, <3>2 DEF WeakAnswers, Works, Asks, At
  <2>2. ASSUME NEW pc \in {"strong", "verdict"}, NEW decision \in {"latched", "advisor"},
               Mode[p] = "advisor",
               Becomes(t, [turn[t] EXCEPT !.pc = pc, !.decision = decision])
        PROVE  /\ TurnsTyped' /\ OthersStay(t) /\ SameTurn(t)
               /\ turn'[t].pc = pc /\ turn'[t].decision = decision
    <3>1. [turn[t] EXCEPT !.pc = pc, !.decision = decision]
            = [turn[t] EXCEPT !.pc = pc, !.verdict = turn[t].verdict, !.decision = decision]
      BY <1>1 DEF Turn
    <3> QED BY <1>1, <1>3, <2>2, <3>1 DEF Turn, Pcs, Decisions
  <2>3. CASE /\ Mode[p] = "advisor" /\ turn[t].session.latched
             /\ Becomes(t, [turn[t] EXCEPT !.pc = "strong", !.decision = "latched"])
    <3>1. Proceeds(t) /\ TurnsTyped' /\ OthersStay(t)
      BY <1>1, <1>4, <2>2, <2>3 DEF WeakAnswers, Proceeds, At
    <3> QED BY <3>1 DEF Works
  <2>4. CASE /\ Mode[p] = "advisor"
             /\ Becomes(t, [turn[t] EXCEPT !.pc = "verdict", !.decision = "advisor"])
    <3>1. Asks(t) /\ TurnsTyped' /\ OthersStay(t)
      BY <1>1, <1>4, <2>2, <2>4 DEF WeakAnswers, Asks, Latched, At
    <3> QED BY <3>1 DEF Works
  <2> QED BY <1>4, <2>1, <2>3, <2>4 DEF WeakAnswers
<1>5. CASE StrongAnswers(t)
  <2>1. PICK pc \in {"verdict", "served"} :
               /\ Becomes(t, [turn[t] EXCEPT !.pc = pc])
               /\ pc = "verdict" => Mode[p] = "advisor"
    BY <1>5 DEF StrongAnswers
  <2>2. [turn[t] EXCEPT !.pc = pc]
          = [turn[t] EXCEPT !.pc = pc, !.verdict = turn[t].verdict,
                            !.decision = turn[t].decision]
    BY <1>1 DEF Turn
  <2>3. /\ TurnsTyped' /\ OthersStay(t) /\ SameTurn(t)
        /\ turn'[t].pc = pc /\ turn'[t].decision = turn[t].decision
    <3>1. pc \in Pcs
      BY DEF Pcs
    <3>2. Becomes(t, [turn[t] EXCEPT !.pc = pc, !.verdict = turn[t].verdict,
                                     !.decision = turn[t].decision])
      BY <2>1, <2>2
    <3> QED BY <1>1, <1>3, <3>1, <3>2
  <2> QED BY <1>1, <1>5, <2>1, <2>3 DEF StrongAnswers, Works, Asks, Proceeds, At
<1> QED BY <1>2, <1>4, <1>5

LEMMA JudgeGoes ==
  ASSUME TurnsTyped, NEW t \in Turns, Escalate(t) \/ Verdict(t) \/ JudgeRaises(t)
  PROVE  TurnsTyped' /\ OthersStay(t) /\ Works(t)
<1> DEFINE s == turn[t].session
<1>1. turn[t] \in Turn /\ ~At(t, "idle")
  BY DEF Escalate, Verdict, JudgeRaises, TurnsTyped, At
<1>2. ASSUME NEW pc \in {"strong", "served"}, NEW verdict \in {"fine", "bad"},
             NEW decision \in Decisions,
             Becomes(t, [turn[t] EXCEPT !.pc = pc, !.verdict = verdict, !.decision = decision])
      PROVE  /\ TurnsTyped' /\ OthersStay(t) /\ SameTurn(t)
             /\ turn'[t].pc = pc /\ turn'[t].decision = decision
  <2> DEFINE u == [turn[t] EXCEPT !.pc = pc, !.verdict = verdict, !.decision = decision]
  <2>1. /\ u \in Turn /\ u.pc = pc /\ u.decision = decision /\ u.conv = turn[t].conv
        /\ u.pool = turn[t].pool /\ u.session = turn[t].session
    BY <1>1 DEF Turn, Pcs
  <2>2. pc # "idle" /\ Becomes(t, u)
    BY <1>2
  <2> HIDE DEF u
  <2> QED BY <1>1, <2>1, <2>2, Moving
<1>3. CASE Escalate(t)
  <2>1. PICK verdict \in {"fine", "bad"} :
       \/ /\ verdict = "fine"
          /\ Judged(t, [s EXCEPT !.streak = 0])
          /\ Becomes(t, [turn[t] EXCEPT !.pc = "served", !.verdict = verdict,
                                        !.decision = "weak_ok"])
       \/ /\ verdict = "bad"
          /\ Judged(t, [s EXCEPT !.streak = Struck(@), !.latched = @ \/ Latches(s)])
          /\ \E pc \in {"strong", "served"}, decision \in {"escalated", "weak_bad", "weak_ok"} :
               /\ Becomes(t, [turn[t] EXCEPT !.pc = pc, !.verdict = verdict,
                                             !.decision = decision])
               /\ decision = "escalated" => Latches(s)
    BY <1>3 DEF Escalate, Verdicts, Latches
  <2>2. CASE /\ Judged(t, [s EXCEPT !.streak = 0])
             /\ Becomes(t, [turn[t] EXCEPT !.pc = "served", !.verdict = verdict,
                                           !.decision = "weak_ok"])
    <3>1. /\ TurnsTyped' /\ OthersStay(t) /\ SameTurn(t)
          /\ turn'[t].pc = "served" /\ turn'[t].decision = "weak_ok"
      BY <1>2, <2>2 DEF Decisions
    <3>2. Accepts(t)
      BY <1>3, <2>2, <3>1 DEF Escalate, Accepts, Judged, Latched, At
    <3> QED BY <3>1, <3>2 DEF Works
  <2>3. ASSUME NEW pc \in {"strong", "served"},
               NEW decision \in {"escalated", "weak_bad", "weak_ok"},
               Judged(t, [s EXCEPT !.streak = Struck(@), !.latched = @ \/ Latches(s)]),
               Becomes(t, [turn[t] EXCEPT !.pc = pc, !.verdict = verdict,
                                          !.decision = decision]),
               decision = "escalated" => Latches(s)
        PROVE  TurnsTyped' /\ OthersStay(t) /\ Works(t)
    <3>1. /\ TurnsTyped' /\ OthersStay(t) /\ SameTurn(t)
          /\ turn'[t].pc = pc /\ turn'[t].decision = decision
      BY <1>2, <2>3 DEF Decisions
    <3>2. Rejects(t)
      BY <1>3, <2>3, <3>1 DEF Escalate, Rejects, Judged, Latched, At
    <3> QED BY <3>1, <3>2 DEF Works
  <2> QED BY <2>1, <2>2, <2>3
<1>4. CASE Verdict(t)
  <2>1. TurnsTyped' /\ OthersStay(t) /\ turn'[t] = IdleTurn
    BY <1>4, Ending DEF Verdict
  <2>2. Delivers(t)
    BY <1>4, <2>1 DEF Verdict, Delivers, CountNow, Latches, At
  <2> QED BY <2>1, <2>2 DEF Works
<1>5. CASE JudgeRaises(t)
  <2>1. TurnsTyped' /\ OthersStay(t) /\ turn'[t] = IdleTurn
    BY <1>5, Ending DEF JudgeRaises
  <2>2. Finishes(t)
    BY <1>1, <1>5, <2>1 DEF JudgeRaises, Finishes
  <2> QED BY <2>1, <2>2 DEF Works
<1> QED BY <1>3, <1>4, <1>5

LEMMA TurnGoes ==
  ASSUME TurnsTyped, NEW t \in Turns, TurnStep(t)
  PROVE  /\ TurnsTyped' /\ OthersStay(t) /\ Works(t)
         /\ UNCHANGED <<table, alive, silent>>
<1>1. UNCHANGED <<table, alive, silent>>
  BY DEF TurnStep, RouteTooFew, RouteEscalation, RouteAdvisor, RouteStage, RouteRoundRobin,
         RouteClassifier, CallFails, WeakAnswers, Escalate, StrongAnswers, Served, Verdict,
         JudgeRaises
<1> QED BY <1>1, RoutesGo, ReplyGoes, JudgeGoes DEF TurnStep

-----------------------------------------------------------------------------
(* Types.                                                                  *)

TableTyped == table \in [Models -> [status : {"healthy", "failed", "absent"}, endpoint : BOOLEAN]]
TypeInv ==
  /\ TableTyped /\ alive \subseteq Models
  /\ SessionsTyped /\ silent \subseteq Convs /\ TurnsTyped

LEMMA TypeInvType == TypeInv => TypeOK
  BY DEF TypeInv, TypeOK, TableTyped, SessionsTyped, TurnsTyped

LEMMA StruckTyped ==
  ASSUME NEW n \in 0..MaxStreak
  PROVE  Struck(n) \in 0..MaxStreak /\ Turned(n) \in 0..MaxStreak /\ 0 \in 0..MaxStreak
  BY Constants DEF Struck, Turned

LEMMA TurnIs ==
  ASSUME TypeInv, NEW t \in Turns
  PROVE  /\ turn[t].conv \in Convs \cup {NoConv} /\ turn[t].session \in Session
         /\ turn[t].session.streak \in 0..MaxStreak /\ turn[t].session.latched \in BOOLEAN
         /\ turn[t].session.pool = turn[t].pool
         /\ turn[t].pc = "idle" => turn[t] = IdleTurn
         /\ turn[t].pc # "idle" => turn[t].pool \in Pools
  BY DEF TypeInv, TurnsTyped, Turn, Session, At

\* The row of the conversation after the work of a turn; the others stay.
LEMMA RowsGo ==
  ASSUME TypeInv, NEW t \in Turns, Works(t)
  PROVE  /\ SessionsTyped'
         /\ \A c \in Convs : c # turn[t].conv => sessions'[c] = sessions[c]
<1> DEFINE c == turn[t].conv
           s == turn[t].session
<1>1. c \in Convs \cup {NoConv} /\ s \in Session /\ SessionsTyped
  BY TurnIs DEF TypeInv
<1>2. CASE Finishes(t) \/ Proceeds(t) \/ Asks(t)
  BY <1>1, <1>2 DEF Finishes, Proceeds, Asks, SessionsTyped
<1>3. ASSUME NEW new \in Session, sessions' = Saved(c, new)
      PROVE  SessionsTyped' /\ \A d \in Convs : d # c => sessions'[d] = sessions[d]
  <2>1. CASE c = NoConv
    BY <1>1, <1>3, <2>1, SavedNothing DEF SessionsTyped
  <2>2. CASE c \in Convs
    <3>1. Saved(c, new) \in [Convs -> Session]
          /\ \A d \in Convs : d # c => Saved(c, new)[d] = sessions[d]
      BY <1>1, <2>2, SavedTo
    <3> QED BY <1>3, <3>1 DEF SessionsTyped
  <2> QED BY <1>1, <2>1, <2>2
<1>4. CASE Rotates(t)
  <2>1. [s EXCEPT !.streak = Turned(s.streak)] \in Session
    BY <1>1, StruckTyped DEF Session
  <2> QED BY <1>3, <1>4, <2>1 DEF Rotates
<1>5. CASE Accepts(t)
  <2>1. [s EXCEPT !.streak = 0] \in Session
    BY <1>1, Constants DEF Session
  <2> QED BY <1>3, <1>5, <2>1 DEF Accepts
<1>6. CASE Rejects(t)
  <2>1. Latches(s) \in BOOLEAN
    BY DEF Latches
  <2>2. [s EXCEPT !.streak = Struck(s.streak), !.latched = s.latched \/ Latches(s)] \in Session
    BY <1>1, <2>1, StruckTyped DEF Session
  <2> QED BY <1>3, <1>6, <2>2 DEF Rejects
<1>7. CASE Delivers(t)
  <2>1. CASE c = NoConv
    BY <1>1, <1>7, <2>1 DEF Delivers, SessionsTyped
  <2>2. CASE c \in Convs
    <3>1. c # NoConv /\ sessions[c] \in Session
      BY <1>1, <2>2, Constants DEF SessionsTyped
    <3>2. PICK bad \in BOOLEAN :
            sessions' = [sessions EXCEPT
                          ![c].streak = IF bad THEN Struck(sessions[c].streak) ELSE 0,
                          ![c].latched = @ \/ (bad /\ Latches(sessions[c]))]
      BY <1>7, <3>1 DEF Delivers
    <3> DEFINE n == IF bad THEN Struck(sessions[c].streak) ELSE 0
               l == sessions[c].latched \/ (bad /\ Latches(sessions[c]))
    <3>3. n \in 0..MaxStreak /\ l \in BOOLEAN
      BY <3>1, StruckTyped DEF Session, Latches
    <3>4. sessions' = [sessions EXCEPT ![c] = [sessions[c] EXCEPT !.streak = n, !.latched = l]]
      BY <1>1, <2>2, <3>1, <3>2 DEF SessionsTyped, Session
    <3> HIDE DEF n, l
    <3>5. [sessions[c] EXCEPT !.streak = n, !.latched = l] \in Session
      BY <3>1, <3>3 DEF Session
    <3> QED BY <1>1, <3>4, <3>5 DEF SessionsTyped
  <2> QED BY <1>1, <2>1, <2>2
<1> QED BY <1>2, <1>4, <1>5, <1>6, <1>7 DEF Works

\* A message: the session it is routed with, and the row it leaves.
LEMMA MessageGoes ==
  ASSUME TypeInv, NEW t \in Turns, NEW c \in Convs \cup {NoConv}, NEW p \in Pools,
         Message(t, c, p)
  PROVE  LET s == SessionFor(c, p) IN
         /\ s \in Session /\ s.pool = p
         /\ TurnsTyped' /\ OthersStay(t) /\ SessionsTyped'
         /\ turn[t] = IdleTurn
         /\ turn'[t].pc = "route" /\ turn'[t].conv = c /\ turn'[t].pool = p
         /\ turn'[t].session = s /\ turn'[t].decision = "none"
<1> DEFINE s == SessionFor(c, p)
<1>1. SessionsTyped /\ TurnsTyped /\ turn[t] = IdleTurn
  BY TurnIs DEF TypeInv, Message, At
<1>2. s \in Session /\ s.pool = p
  <2>1. CASE Known(c, p) /\ c \notin silent
    BY <1>1, <2>1 DEF SessionFor, Known, SessionsTyped
  <2>2. CASE ~(Known(c, p) /\ c \notin silent)
    BY <2>2, NewTyped DEF SessionFor
  <2> QED BY <2>1, <2>2
<1>3. SessionsTyped'
  <2>1. CASE sessions' = sessions
    BY <1>1, <2>1 DEF SessionsTyped
  <2>2. CASE sessions' = Saved(c, s)
    <3>1. CASE c = NoConv
      BY <1>1, <2>2, <3>1, SavedNothing DEF SessionsTyped
    <3>2. CASE c \in Convs
      BY <1>1, <1>2, <2>2, <3>2, SavedTo DEF SessionsTyped
    <3> QED BY <3>1, <3>2
  <2> QED BY <2>1, <2>2 DEF Message
<1>4. PICK stream \in BOOLEAN :
        Becomes(t, [IdleTurn EXCEPT !.pc = "route", !.conv = c, !.pool = p,
                                    !.session = s, !.stream = stream])
  BY DEF Message
<1> HIDE DEF s
<1> DEFINE u == [IdleTurn EXCEPT !.pc = "route", !.conv = c, !.pool = p,
                                 !.session = s, !.stream = stream]
<1>5. /\ u.pc = "route" /\ u.conv = c /\ u.pool = p
      /\ u.session = s /\ u.decision = "none"
  BY DEF IdleTurn
<1>6. u \in Turn
  BY <1>2, IdleIs DEF Turn, Pcs
<1> HIDE DEF u
<1>7. turn' = [turn EXCEPT ![t] = u]
  BY <1>4 DEF Becomes, u
<1>8. TurnsTyped' /\ OthersStay(t) /\ turn'[t] = u
  BY <1>1, <1>2, <1>5, <1>6, <1>7 DEF TurnsTyped, OthersStay, At
<1> QED BY <1>1, <1>2, <1>3, <1>5, <1>8 DEF s

\* After a restart of the central no turn is left.
LEMMA AllIdle ==
  ASSUME CentralRestart
  PROVE  TurnsTyped' /\ \A t \in Turns : turn'[t] = IdleTurn
<1>1. turn' = [t \in Turns |-> IdleTurn]
  BY DEF CentralRestart
<1> QED BY <1>1, IdleIs, NewTyped DEF TurnsTyped, At

LEMMA TypeInit == Init => TypeInv
<1> SUFFICES ASSUME Init PROVE TypeInv
  OBVIOUS
<1>1. SessionsTyped /\ TableTyped
  BY NewTyped DEF Init, SessionsTyped, TableTyped
<1>2. TurnsTyped
  BY IdleIs, NewTyped DEF Init, TurnsTyped, At
<1> QED BY <1>1, <1>2 DEF Init, TypeInv

LEMMA TypeStep == TypeInv /\ [Next]_vars => TypeInv'
<1> SUFFICES ASSUME TypeInv, [Next]_vars PROVE TypeInv'
  OBVIOUS
<1>1. TableTyped /\ alive \subseteq Models /\ SessionsTyped /\ silent \subseteq Convs /\ TurnsTyped
  BY DEF TypeInv
<1>2. UNCHANGED <<sessions, turn>> => SessionsTyped' /\ TurnsTyped'
  BY <1>1 DEF SessionsTyped, TurnsTyped, At
<1>3. ASSUME NEW t \in Turns, NEW c \in Convs \cup {NoConv}, NEW p \in Pools, Message(t, c, p)
      PROVE  TypeInv'
  <2>1. UNCHANGED <<table, alive>> /\ silent' \subseteq Convs
    BY <1>1, <1>3 DEF Message
  <2> QED BY <1>1, <1>3, <2>1, MessageGoes DEF TypeInv, TableTyped
<1>4. ASSUME NEW t \in Turns, TurnStep(t) PROVE TypeInv'
  BY <1>1, <1>4, TurnGoes, RowsGo DEF TypeInv, TableTyped
<1>5. ASSUME NEW c \in Convs, HourPasses(c) PROVE TypeInv'
  BY <1>1, <1>2, <1>5 DEF HourPasses, TypeInv, TableTyped
<1>6. CASE DeployStep
  <2>1. UNCHANGED <<sessions, silent, turn>> /\ alive' \subseteq Models
    BY <1>1, <1>6 DEF DeployStep, ModelDies, DeathNoted, ModelBack, Destroyed
  <2>2. ASSUME NEW m \in Models, ModelDies(m) PROVE TableTyped'
    BY <1>1, <2>2 DEF ModelDies, TableTyped
  <2>3. ASSUME NEW m \in Models, DeathNoted(m) PROVE TableTyped'
    <3>1. [table[m] EXCEPT !.status = "failed"]
            \in [status : {"healthy", "failed", "absent"}, endpoint : BOOLEAN]
      BY <1>1 DEF TableTyped
    <3>2. table' = [table EXCEPT ![m] = [table[m] EXCEPT !.status = "failed"]]
      BY <1>1, <2>3 DEF DeathNoted, TableTyped
    <3> QED BY <1>1, <3>1, <3>2 DEF TableTyped
  <2>4. ASSUME NEW m \in Models, ModelBack(m) \/ Destroyed(m) PROVE TableTyped'
    <3>1. PICK r \in [status : {"healthy", "failed", "absent"}, endpoint : BOOLEAN] :
            table' = [table EXCEPT ![m] = r]
      BY <2>4 DEF ModelBack, Destroyed
    <3> QED BY <1>1, <3>1 DEF TableTyped
  <2>5. TableTyped'
    BY <1>6, <2>2, <2>3, <2>4 DEF DeployStep
  <2> QED BY <1>1, <1>2, <2>1, <2>5 DEF TypeInv
<1>7. CASE UNCHANGED vars
  BY <1>1, <1>2, <1>7 DEF vars, TypeInv, TableTyped
<1>8. CASE CentralRestart
  <2>1. TurnsTyped'
    BY <1>8, AllIdle
  <2> QED BY <1>1, <1>8, <2>1 DEF CentralRestart, TypeInv, TableTyped, SessionsTyped
<1> QED BY <1>3, <1>4, <1>5, <1>6, <1>7, <1>8 DEF Next

\* Whatever overlaps and whatever dies, rows and turns hold what the code keeps
\* there, and a turn has a session of its own pool.
THEOREM RouterTypeCorrect == Spec => []TypeOK
<1> QED BY TypeInit, TypeStep, TypeInvType, PTL DEF Spec

-----------------------------------------------------------------------------
(* Conversations whose client waits for its answers and keeps to one pool.  *)

\* While a turn is on its way, the row is of its pool and fresh, and nobody
\* else routes a message of the conversation: so the session it was called
\* with is the row, in a pool whose judge does not come late, and what it was
\* told to be latched is latched.
PinnedTurn(t) ==
  LET c == turn[t].conv
      mode == Mode[turn[t].pool]
  IN
  /\ c \notin silent
  /\ sessions[c].pool = turn[t].pool
  /\ turn[t].pc \in {"route", "weak", "judge"} /\ mode # "advisor" => sessions[c] = turn[t].session
  /\ turn[t].session.latched \/ turn[t].decision \in Latched => sessions[c].latched
  /\ turn[t].pc = "judge" => mode = "escalation"
  /\ turn[t].pc = "verdict" => mode = "advisor"
  /\ \A u \in Turns : turn[u].conv = c /\ turn[t].pc # "verdict" /\ turn[u].pc # "verdict" => u = t

PinInv == \A t \in Turns : turn[t].conv # NoConv => PinnedTurn(t)
RowInv == \A c \in Convs : sessions[c].pool = NoPool => sessions[c] = NewSession(NoPool)

\* What the verdicts make of a row.
Cleared(c) == sessions'[c].streak = 0 /\ sessions'[c].latched = sessions[c].latched
Struck1(c) ==
  /\ sessions'[c].streak = Struck(sessions[c].streak)
  /\ sessions'[c].latched = (sessions[c].latched \/ Latches(sessions[c]))

LEMMA RowNext ==
  ASSUME TypeInv, PinInv, NEW t \in Turns, turn[t].conv # NoConv, Works(t)
  PROVE  LET c == turn[t].conv IN
         /\ c \in Convs /\ sessions'[c].pool = sessions[c].pool
         /\ Finishes(t) \/ Proceeds(t) \/ Asks(t) => UNCHANGED sessions
         /\ Accepts(t) => Cleared(c)
         /\ Rejects(t) => Struck1(c)
         /\ Delivers(t) => Cleared(c) \/ Struck1(c)
         /\ Rotates(t) => sessions'[c].latched = sessions[c].latched
<1> DEFINE c == turn[t].conv
           s == turn[t].session
<1>1. c \in Convs /\ s \in Session /\ SessionsTyped /\ sessions[c] \in Session
      /\ s.pool = sessions[c].pool /\ s.pool \in Pools
  <2>1. turn[t].pc # "idle"
    BY TurnIs, IdleIs
  <2> QED BY <2>1, TurnIs DEF TypeInv, SessionsTyped, PinInv, PinnedTurn
<1>2. turn[t].pc \in {"route", "judge"} /\ Mode[turn[t].pool] # "advisor" => sessions[c] = s
  BY DEF PinInv, PinnedTurn
<1>3. turn[t].pc = "judge" => Mode[turn[t].pool] # "advisor"
  BY DEF PinInv, PinnedTurn
<1>4. ASSUME NEW n \in 0..MaxStreak, NEW l \in BOOLEAN,
             sessions' = Saved(c, [s EXCEPT !.streak = n, !.latched = l])
      PROVE  sessions'[c].pool = sessions[c].pool /\ sessions'[c].streak = n
             /\ sessions'[c].latched = l
  <2> DEFINE new == [s EXCEPT !.streak = n, !.latched = l]
  <2>1. new \in Session /\ new.streak = n /\ new.latched = l /\ new.pool = s.pool
    BY <1>1 DEF Session
  <2> HIDE DEF new
  <2> QED BY <1>1, <1>4, <2>1, SavedTo DEF new
<1>5. \A n : [s EXCEPT !.streak = n] = [s EXCEPT !.streak = n, !.latched = s.latched]
  BY <1>1 DEF Session
<1>6. s.streak \in 0..MaxStreak /\ s.latched \in BOOLEAN /\ Latches(s) \in BOOLEAN
  BY <1>1 DEF Session, Latches
<1> DEFINE Same == sessions'[c].pool = sessions[c].pool
<1>7. Finishes(t) \/ Proceeds(t) \/ Asks(t) => UNCHANGED sessions
  BY DEF Finishes, Proceeds, Asks
<1>8. ASSUME Rotates(t) PROVE Same /\ sessions'[c].latched = sessions[c].latched
  <2>1. s = sessions[c]
    BY <1>2, <1>8 DEF Rotates
  <2>2. sessions' = Saved(c, [s EXCEPT !.streak = Turned(s.streak), !.latched = s.latched])
    BY <1>5, <1>8 DEF Rotates
  <2> QED BY <1>1, <1>4, <1>6, <1>8, <2>1, <2>2, StruckTyped
<1>9. ASSUME Accepts(t) PROVE Same /\ Cleared(c)
  <2>1. s = sessions[c]
    BY <1>2, <1>3, <1>9 DEF Accepts
  <2>2. sessions' = Saved(c, [s EXCEPT !.streak = 0, !.latched = s.latched])
    BY <1>5, <1>9 DEF Accepts
  <2>3. 0 \in 0..MaxStreak
    BY <1>6, StruckTyped
  <2> QED BY <1>4, <1>6, <2>1, <2>2, <2>3 DEF Cleared
<1>10. ASSUME Rejects(t) PROVE Same /\ Struck1(c)
  <2>1. s = sessions[c]
    BY <1>2, <1>3, <1>10 DEF Rejects
  <2> DEFINE l == s.latched \/ Latches(s)
  <2>2. sessions' = Saved(c, [s EXCEPT !.streak = Struck(s.streak), !.latched = l])
    BY <1>10 DEF Rejects
  <2>3. l \in BOOLEAN
    BY <1>6
  <2> HIDE DEF l
  <2>4. /\ sessions'[c].pool = sessions[c].pool /\ sessions'[c].streak = Struck(s.streak)
        /\ sessions'[c].latched = l
    BY <1>4, <1>6, <2>2, <2>3, StruckTyped
  <2>5. Struck1(c)
    BY <2>1, <2>4 DEF Struck1, l
  <2> QED BY <2>4, <2>5
<1>11. ASSUME Delivers(t) PROVE Same /\ (Cleared(c) \/ Struck1(c))
  <2>1. PICK bad \in BOOLEAN :
          sessions' = [sessions EXCEPT
                        ![c].streak = IF bad THEN Struck(sessions[c].streak) ELSE 0,
                        ![c].latched = @ \/ (bad /\ Latches(sessions[c]))]
    BY <1>11 DEF Delivers
  <2>2. CASE bad = TRUE
    <3>1. sessions' = [sessions EXCEPT ![c].streak = Struck(sessions[c].streak),
                                       ![c].latched = @ \/ Latches(sessions[c])]
      BY <2>1, <2>2
    <3> QED BY <1>1, <3>1 DEF SessionsTyped, Session, Struck1
  <2>3. CASE bad = FALSE
    <3>1. sessions' = [sessions EXCEPT ![c].streak = 0, ![c].latched = @ \/ FALSE]
      BY <2>1, <2>3
    <3> QED BY <1>1, <3>1 DEF SessionsTyped, Session, Cleared
  <2> QED BY <2>2, <2>3
<1> QED BY <1>1, <1>7, <1>8, <1>9, <1>10, <1>11 DEF Works

LEMMA PinInit == Init => PinInv /\ RowInv
  BY IdleIs DEF Init, PinInv, RowInv

\* A turn stays pinned while its row keeps its pool and its latch, and either
\* stays as it was or is of a pool whose judge comes late.
LEMMA PinOther ==
  ASSUME TypeInv, NEW u \in Turns, PinnedTurn(u), turn'[u] = turn[u],
         turn[u].conv \in Convs,
         LET c == turn[u].conv IN
           /\ c \notin silent'
           /\ sessions'[c].pool = sessions[c].pool
           /\ sessions[c].latched => sessions'[c].latched
           /\ sessions'[c] = sessions[c] \/ Mode[turn[u].pool] = "advisor"
           /\ \A v \in Turns : turn'[v].conv = c /\ turn'[v].pc # "verdict"
                                => turn[v].conv = c /\ turn[v].pc # "verdict"
  PROVE  PinnedTurn(u)'
  BY DEF PinnedTurn

LEMMA PinWorks ==
  ASSUME TypeInv, PinInv, RowInv, NEW t \in Turns, TurnStep(t)
  PROVE  PinInv' /\ RowInv'
<1> DEFINE c == turn[t].conv
<1>1. OthersStay(t) /\ Works(t) /\ UNCHANGED silent /\ TypeInv
  BY TurnGoes DEF TypeInv
<1>2. turn'[t] = IdleTurn \/ SameTurn(t)
  BY <1>1 DEF Works, Finishes, Proceeds, Asks, Rotates, Accepts, Rejects, Delivers
<1>3. turn[t].pc = "verdict" => turn'[t].conv = NoConv
  BY <1>1, IdleIs DEF Works, Finishes, Proceeds, Asks, Rotates, Accepts, Rejects, Delivers
<1>4. \A v \in Turns : \A d \in Convs :
        turn'[v].conv = d /\ turn'[v].pc # "verdict" => turn[v].conv = d /\ turn[v].pc # "verdict"
  BY <1>1, <1>2, <1>3, IdleIs, Constants DEF OthersStay, SameTurn
<1>5. \A d \in Convs : d # c => sessions'[d] = sessions[d]
  BY <1>1, RowsGo
<1>6. \A u \in Turns : turn[u].conv # NoConv => turn[u].conv \in Convs /\ turn[u].pc # "idle"
  BY TurnIs, IdleIs
<1>7. ASSUME NEW u \in Turns, u # t, turn'[u].conv # NoConv PROVE PinnedTurn(u)'
  <2> DEFINE d == turn[u].conv
  <2>1. turn'[u] = turn[u] /\ d \in Convs /\ PinnedTurn(u)
    BY <1>1, <1>6, <1>7 DEF OthersStay, PinInv
  <2>2. d \notin silent'
    BY <1>1, <2>1 DEF PinnedTurn
  <2>3. CASE d # c
    BY <1>1, <1>4, <1>5, <2>1, <2>2, <2>3, PinOther
  <2>4. CASE d = c
    <3>1. /\ c \in Convs /\ sessions'[c].pool = sessions[c].pool
          /\ sessions[c].latched => sessions'[c].latched
      BY <1>1, <2>1, <2>4, RowNext, Constants DEF Works, Cleared, Struck1
    <3>2. c # NoConv /\ PinnedTurn(t)
      BY <3>1, Constants DEF PinInv
    <3>3. turn[u].pool = turn[t].pool
      BY <2>1, <2>4, <3>2 DEF PinnedTurn
    <3>4. sessions' = sessions \/ Mode[turn[t].pool] = "advisor"
      <4>1. CASE Finishes(t) \/ Proceeds(t) \/ Asks(t)
        BY <4>1 DEF Finishes, Proceeds, Asks
      <4>2. CASE Delivers(t)
        BY <3>2, <4>2 DEF Delivers, PinnedTurn
      <4>3. CASE Rotates(t) \/ Accepts(t) \/ Rejects(t)
        <5>1. turn[t].pc \in {"route", "judge"}
          BY <4>3 DEF Rotates, Accepts, Rejects
        <5>2. turn[u].pc = "verdict"
          BY <1>7, <2>4, <3>2, <5>1 DEF PinnedTurn
        <5> QED BY <2>1, <3>3, <5>2 DEF PinnedTurn
      <4> QED BY <1>1, <4>1, <4>2, <4>3 DEF Works
    <3> QED BY <1>1, <1>4, <2>1, <2>2, <2>4, <3>1, <3>3, <3>4, PinOther
  <2> QED BY <2>3, <2>4
<1>8. ASSUME turn'[t].conv # NoConv PROVE PinnedTurn(t)'
  <2>1. SameTurn(t) /\ turn'[t] # IdleTurn /\ turn[t].conv # NoConv
    BY <1>2, <1>8, IdleIs DEF SameTurn
  <2>2. c \in Convs /\ PinnedTurn(t)
    BY <1>6, <2>1 DEF PinInv
  <2>3. c \notin silent' /\ ~Delivers(t) /\ ~Finishes(t)
    BY <1>1, <2>1, <2>2 DEF PinnedTurn, Delivers, Finishes
  <2>4. /\ sessions'[c].pool = sessions[c].pool
        /\ sessions[c].latched => sessions'[c].latched
        /\ sessions' = sessions \/ turn'[t].pc \notin {"route", "weak", "judge"}
        /\ turn'[t].decision \in Latched =>
             turn[t].decision \in Latched \/ turn[t].session.latched \/ sessions'[c].latched
    <3>1. CASE Proceeds(t) \/ Asks(t)
      BY <3>1 DEF Proceeds, Asks
    <3>2. CASE Rotates(t)
      <4>1. sessions'[c].pool = sessions[c].pool /\ sessions'[c].latched = sessions[c].latched
        BY <1>1, <2>1, <3>2, RowNext
      <4> QED BY <3>2, <4>1 DEF Rotates
    <3>3. CASE Accepts(t)
      <4>1. /\ sessions'[c].pool = sessions[c].pool
            /\ sessions[c].latched => sessions'[c].latched
        BY <1>1, <2>1, <3>3, RowNext DEF Cleared
      <4> QED BY <3>3, <4>1 DEF Accepts
    <3>4. CASE Rejects(t)
      <4>1. turn[t].pc = "judge" /\ turn'[t].pc \in {"strong", "served"}
            /\ (turn'[t].decision \in Latched => Latches(turn[t].session))
        BY <3>4 DEF Rejects
      <4>2. turn[t].session = sessions[c]
        BY <2>2, <4>1 DEF PinnedTurn
      <4>3. sessions'[c].pool = sessions[c].pool /\ Struck1(c)
        BY <1>1, <2>1, <3>4, RowNext
      <4> QED BY <4>1, <4>2, <4>3 DEF Struck1
    <3> QED BY <1>1, <2>3, <3>1, <3>2, <3>3, <3>4 DEF Works
  <2>5. /\ turn'[t].pc = "judge" => Mode[turn[t].pool] = "escalation"
        /\ turn'[t].pc = "verdict" => Mode[turn[t].pool] = "advisor"
        /\ turn'[t].pc \in {"weak", "judge"} => turn[t].pc \in {"route", "weak"}
        /\ turn'[t].pc # "route"
    BY <1>1, <2>3 DEF Works, Proceeds, Asks, Rotates, Accepts, Rejects
  <2>6. \A u \in Turns : turn'[u].conv = c /\ turn'[t].pc # "verdict" /\ turn'[u].pc # "verdict"
                          => u = t
    BY <1>4, <2>1, <2>2 DEF PinnedTurn, SameTurn
  <2> QED BY <2>1, <2>2, <2>3, <2>4, <2>5, <2>6 DEF PinnedTurn, SameTurn
<1>9. RowInv'
  <2>1. ASSUME NEW d \in Convs, sessions'[d].pool = NoPool
        PROVE  sessions'[d] = NewSession(NoPool)
    <3>1. CASE d # c
      BY <1>5, <2>1, <3>1 DEF RowInv
    <3>2. CASE d = c
      <4>1. c # NoConv /\ sessions[c].pool = NoPool
        BY <1>1, <2>1, <3>2, RowNext, Constants
      <4>2. turn[t].pool \in Pools /\ sessions[c].pool = turn[t].pool
        BY <1>6, <4>1, TurnIs DEF PinInv, PinnedTurn
      <4> QED BY <4>1, <4>2, Constants
    <3> QED BY <3>1, <3>2
  <2> QED BY <2>1 DEF RowInv
<1> QED BY <1>7, <1>8, <1>9 DEF PinInv

\* The row a message leaves is the session it is routed with.
LEMMA MessageRow ==
  ASSUME ~Shared, TypeInv, NEW t \in Turns, NEW c \in Convs, NEW p \in Pools, Message(t, c, p)
  PROVE  /\ sessions'[c] = SessionFor(c, p)
         /\ \A d \in Convs : d # c => sessions'[d] = sessions[d]
         /\ sessions[c].pool \in {NoPool, p}
<1> DEFINE s == SessionFor(c, p)
<1>1. s \in Session /\ s.pool = p /\ SessionsTyped
  BY MessageGoes DEF TypeInv
<1>2. sessions[c].pool \in {NoPool, p}
  BY Constants DEF Message
<1>3. CASE Known(c, p) /\ c \notin silent
  BY <1>2, <1>3 DEF Message, SessionFor
<1>4. CASE ~(Known(c, p) /\ c \notin silent)
  <2>1. sessions' = Saved(c, s)
    BY <1>4 DEF Message
  <2> HIDE DEF s
  <2>2. s.pool = Saved(c, s)[c].pool
    BY <1>1, <1>2, SavedTo
  <2>3. Saved(c, s)[c] = s /\ \A d \in Convs : d # c => Saved(c, s)[d] = sessions[d]
    BY <1>1, <2>2, SavedTo
  <2> QED BY <1>2, <2>1, <2>3 DEF s
<1> QED BY <1>3, <1>4

LEMMA PinMessage ==
  ASSUME ~Together, ~Shared, TypeInv, PinInv, RowInv,
         NEW t \in Turns, NEW c \in Convs \cup {NoConv}, NEW p \in Pools, Message(t, c, p)
  PROVE  PinInv' /\ RowInv'
<1>1. /\ OthersStay(t) /\ turn[t].conv = NoConv
      /\ turn'[t].pc = "route" /\ turn'[t].conv = c /\ turn'[t].pool = p
      /\ turn'[t].session = SessionFor(c, p) /\ turn'[t].decision = "none"
      /\ SessionFor(c, p).pool = p
  BY MessageGoes, IdleIs
<1>2. \A u \in Turns : turn[u].conv # NoConv => turn[u].conv \in Convs /\ turn[u].pool \in Pools
  BY TurnIs, IdleIs
<1>3. silent' = silent \ {c}
  BY DEF Message
<1>4. \A d \in Convs : d # c => sessions'[d] = sessions[d]
  <2>1. CASE c = NoConv
    BY <2>1, SavedNothing DEF Message
  <2>2. CASE c \in Convs
    BY <2>2, MessageRow
  <2> QED BY <2>1, <2>2
<1>5. ASSUME NEW u \in Turns, u # t, turn[u].conv \notin {NoConv, c} PROVE PinnedTurn(u)'
  <2>1. turn'[u] = turn[u] /\ turn[u].conv \in Convs /\ PinnedTurn(u)
    BY <1>1, <1>2, <1>5 DEF OthersStay, PinInv
  <2>2. \A v \in Turns : turn'[v].conv = turn[u].conv /\ turn'[v].pc # "verdict"
                          => turn[v].conv = turn[u].conv /\ turn[v].pc # "verdict"
    BY <1>1, <1>5 DEF OthersStay
  <2>3. turn[u].conv \notin silent'
    BY <1>3, <2>1 DEF PinnedTurn
  <2> QED BY <1>4, <1>5, <2>1, <2>2, <2>3, PinOther
<1>6. ASSUME NEW u \in Turns, u # t, c \in Convs, turn[u].conv = c PROVE PinnedTurn(u)'
  <2>1. turn'[u] = turn[u] /\ PinnedTurn(u) /\ turn[u].pc = "verdict" /\ turn[u].pool \in Pools
    BY <1>1, <1>2, <1>6, Constants DEF OthersStay, PinInv, Message, At
  <2>2. sessions[c].pool = p /\ c \notin silent
    BY <1>6, <2>1, MessageRow, Constants DEF PinnedTurn
  <2>3. UNCHANGED <<sessions, silent>>
    BY <1>3, <1>6, <2>2, Constants DEF Message, Known
  <2> QED BY <1>6, <2>1, <2>3 DEF PinnedTurn
<1>7. ASSUME c \in Convs PROVE PinnedTurn(t)'
  <2>1. sessions'[c] = SessionFor(c, p) /\ c \notin silent'
    BY <1>3, <1>7, MessageRow
  <2>2. \A u \in Turns : turn'[u].conv = c /\ turn'[u].pc # "verdict" => u = t
    BY <1>1, <1>7, Constants DEF OthersStay, Message, At
  <2> QED BY <1>1, <2>1, <2>2 DEF PinnedTurn, Latched
<1>8. PinInv'
  <2> SUFFICES ASSUME NEW u \in Turns, turn'[u].conv # NoConv PROVE PinnedTurn(u)'
    BY DEF PinInv
  <2>1. u # t => turn'[u] = turn[u]
    BY <1>1 DEF OthersStay
  <2>2. CASE u = t
    BY <1>1, <1>7, <2>2
  <2>3. CASE u # t
    BY <1>2, <1>5, <1>6, <2>1, <2>3
  <2> QED BY <2>2, <2>3
<1>9. RowInv'
  <2>1. c \in Convs => sessions'[c].pool # NoPool
    BY <1>1, MessageRow, Constants
  <2> QED BY <1>4, <2>1 DEF RowInv
<1> QED BY <1>8, <1>9

LEMMA PinStep ==
  ASSUME ~Together, ~Shared, TypeInv, PinInv, RowInv, [Next]_vars
  PROVE  PinInv' /\ RowInv'
<1>1. ASSUME NEW t \in Turns, NEW c \in Convs \cup {NoConv}, NEW p \in Pools, Message(t, c, p)
      PROVE  PinInv' /\ RowInv'
  BY <1>1, PinMessage
<1>2. ASSUME NEW t \in Turns, TurnStep(t) PROVE PinInv' /\ RowInv'
  BY <1>2, PinWorks
<1>3. ASSUME NEW c \in Convs, HourPasses(c) PROVE PinInv' /\ RowInv'
  BY <1>3 DEF HourPasses, PinInv, PinnedTurn, RowInv
<1>4. CASE DeployStep \/ UNCHANGED vars
  <2>1. UNCHANGED <<sessions, silent, turn>>
    BY <1>4 DEF DeployStep, ModelDies, DeathNoted, ModelBack, Destroyed, vars
  <2> QED BY <2>1 DEF PinInv, PinnedTurn, RowInv
<1>5. CASE CentralRestart
  <2>1. PinInv'
    BY <1>5, AllIdle, IdleIs DEF PinInv
  <2> QED BY <1>5, <2>1 DEF CentralRestart, RowInv
<1> QED BY <1>1, <1>2, <1>3, <1>4, <1>5 DEF Next

\* A turn the strong model answers because the judge said so twice finds its
\* conversation pinned, if the client waits for its answers and keeps to one
\* pool.
THEOREM StrongStaysPinned == ASSUME ~Together, ~Shared PROVE Spec => []StrongIsPinned
<1>1. Init => TypeInv /\ PinInv /\ RowInv
  BY TypeInit, PinInit
<1>2. TypeInv /\ PinInv /\ RowInv /\ [Next]_vars => (TypeInv /\ PinInv /\ RowInv)'
  BY TypeStep, PinStep
<1>3. PinInv => StrongIsPinned
  BY DEF PinInv, PinnedTurn, StrongIsPinned, Latched
<1> QED BY <1>1, <1>2, <1>3, PTL DEF Spec

-----------------------------------------------------------------------------
(* The refinement of Latch.                                                *)

LEMMA WaitingFinite ==
  ASSUME NEW c
  PROVE  /\ IsFiniteSet(Waiting(c)) /\ Cardinality(Waiting(c)) \in Nat
         /\ Cardinality(Waiting(c)) = 0 <=> Waiting(c) = {}
<1>1. Waiting(c) \in SUBSET Turns
  BY DEF Waiting
<1>2. IsFiniteSet(Waiting(c))
  BY <1>1, Constants, FS_Subset
<1> QED BY <1>2, FS_CardinalityType, FS_EmptySet

LEMMA NobodyMore ==
  ASSUME \A c \in Convs : Waiting(c)' = Waiting(c)
  PROVE  Asked' = Asked
  BY DEF Asked

LEMMA OneMore ==
  ASSUME NEW c \in Convs, NEW t \in Turns, t \notin Waiting(c), Waiting(c)' = Waiting(c) \cup {t},
         \A d \in Convs : d # c => Waiting(d)' = Waiting(d)
  PROVE  Asked' = [Asked EXCEPT ![c] = @ + 1]
<1>1. Cardinality(Waiting(c)') = Cardinality(Waiting(c)) + 1
  BY WaitingFinite, FS_AddElement
<1> QED BY <1>1 DEF Asked

LEMMA OneLess ==
  ASSUME NEW c \in Convs, NEW t \in Turns, t \in Waiting(c), Waiting(c)' = Waiting(c) \ {t},
         \A d \in Convs : d # c => Waiting(d)' = Waiting(d)
  PROVE  Promise!Answered(c)
<1>1. Cardinality(Waiting(c)') = Cardinality(Waiting(c)) - 1
  BY WaitingFinite, FS_RemoveElement
<1>2. Cardinality(Waiting(c)) > 0
  BY WaitingFinite
<1> QED BY <1>1, <1>2 DEF Asked, Promise!Answered

\* Verdicts that are lost, as the promise sees them.
LEMMA LostVerdicts ==
  ASSUME Fragile, \A c \in Convs : Waiting(c)' \subseteq Waiting(c), UNCHANGED <<sessions, silent>>
  PROVE  Promise!Lose
<1>1. \A c \in Convs : /\ Cardinality(Waiting(c)') \in Nat
                      /\ Cardinality(Waiting(c)') <= Cardinality(Waiting(c))
  BY WaitingFinite, FS_Subset, FS_CardinalityType
<1>2. Asked' \in [Convs -> Nat] /\ \A c \in Convs : Asked'[c] <= Asked[c]
  BY <1>1 DEF Asked
<1> QED BY <1>2 DEF Promise!Lose, Strikes, Pinned

\* The verdicts on a row, as the promise sees them.
LEMMA RowsAsPromised ==
  ASSUME SessionsTyped, NEW c \in Convs, \A d \in Convs : d # c => sessions'[d] = sessions[d]
  PROVE  /\ Cleared(c) => Strikes' = [Strikes EXCEPT ![c] = 0] /\ Pinned' = Pinned
         /\ Struck1(c) =>
              /\ Strikes' = [Strikes EXCEPT ![c] = IF @ < Confirmations THEN @ + 1 ELSE @]
              /\ Pinned' = [Pinned EXCEPT ![c] = @ \/ Strikes[c] + 1 >= Confirmations]
<1>1. sessions[c].streak \in 0..MaxStreak
  BY DEF SessionsTyped, Session
<1>2. ASSUME Cleared(c)
      PROVE  Strikes' = [Strikes EXCEPT ![c] = 0] /\ Pinned' = Pinned
  BY <1>2, Constants DEF Cleared, Strikes, Pinned
<1>3. ASSUME Struck1(c)
      PROVE  Strikes' = [Strikes EXCEPT ![c] = IF @ < Confirmations THEN @ + 1 ELSE @]
  <2>1. Strikes'[c] = IF Strikes[c] < Confirmations THEN Strikes[c] + 1 ELSE Strikes[c]
    BY <1>1, <1>3, Constants DEF Struck1, Struck, Strikes
  <2>2. \A d \in Convs : d # c => Strikes'[d] = Strikes[d]
    BY DEF Strikes
  <2>3. Strikes = [d \in Convs |-> Strikes[d]] /\ Strikes' = [d \in Convs |-> Strikes'[d]]
    BY DEF Strikes
  <2> QED BY <2>1, <2>2, <2>3
<1>4. ASSUME Struck1(c)
      PROVE  Pinned' = [Pinned EXCEPT ![c] = @ \/ Strikes[c] + 1 >= Confirmations]
  <2>1. Latches(sessions[c]) = (Strikes[c] + 1 >= Confirmations)
    BY <1>1, Constants DEF Latches, Strikes
  <2>2. sessions'[c].latched = (Pinned[c] \/ Strikes[c] + 1 >= Confirmations)
    BY <1>4, <2>1 DEF Struck1, Pinned
  <2>3. \A d \in Convs : d # c => sessions'[d].latched = Pinned[d]
    BY DEF Pinned
  <2>4. Pinned' = [d \in Convs |-> sessions'[d].latched]
    BY DEF Pinned
  <2>5. Pinned = [d \in Convs |-> Pinned[d]]
    BY DEF Pinned
  <2> HIDE DEF Pinned
  <2> QED BY <2>2, <2>3, <2>4, <2>5
<1> QED BY <1>2, <1>3, <1>4

Calm == ~Together /\ ~Shared /\ \A p \in Pools : Mode[p] # "round_robin"

LEMMA LatchInit == Init => Promise!Init
<1> SUFFICES ASSUME Init PROVE Promise!Init
  OBVIOUS
<1>1. \A c \in Convs : Waiting(c) = {}
  BY IdleIs DEF Init, Waiting
<1>2. Asked = [c \in Convs |-> 0]
  BY <1>1, FS_EmptySet DEF Asked
<1>3. \A c \in Convs : sessions[c].streak = 0 /\ sessions[c].latched = FALSE
  BY NewTyped DEF Init
<1>4. Strikes = [c \in Convs |-> 0] /\ Pinned = [c \in Convs |-> FALSE]
  BY <1>3, Constants DEF Strikes, Pinned
<1> QED BY <1>2, <1>4 DEF Init, Promise!Init

\* A turn asks, or has its verdict.
LEMMA LatchTurn ==
  ASSUME Calm, TypeInv, PinInv, RowInv, NEW t \in Turns, TurnStep(t)
  PROVE  [Promise!Next]_(Promise!latchVars)
<1> DEFINE c == turn[t].conv
<1>1. OthersStay(t) /\ Works(t) /\ UNCHANGED silent /\ SessionsTyped
  BY TurnGoes DEF TypeInv
<1>2. ~Rotates(t) /\ c \in Convs \cup {NoConv} /\ (turn[t].pc # "idle" => turn[t].pool \in Pools)
  BY TurnIs DEF Rotates, Calm
<1>3. turn'[t] = IdleTurn \/ SameTurn(t)
  BY <1>1 DEF Works, Finishes, Proceeds, Asks, Rotates, Accepts, Rejects, Delivers
<1>4. \A d \in Convs : d # c => Waiting(d)' = Waiting(d)
  BY <1>1, <1>3, IdleIs, Constants DEF OthersStay, SameTurn, Waiting
<1>5. CASE c = NoConv
  <2>1. sessions' = sessions
    BY <1>1, <1>2, <1>5, SavedNothing
       DEF Works, Finishes, Proceeds, Asks, Accepts, Rejects, Delivers
  <2>2. Asked' = Asked
    BY <1>4, <1>5, Constants, NobodyMore
  <2> QED BY <1>1, <2>1, <2>2 DEF Strikes, Pinned, Promise!latchVars
<1>6. ASSUME NEW k \in Convs, k = c PROVE [Promise!Next]_(Promise!latchVars)
  <2>1. \A d \in Convs : d # k => sessions'[d] = sessions[d]
    BY <1>1, <1>6, RowsGo
  <2>2. k # NoConv
    BY <1>6, Constants
  <2>3. CASE (Finishes(t) /\ turn[t].pc \notin {"judge", "verdict"}) \/ Proceeds(t)
    <3>1. sessions' = sessions /\ Waiting(k)' = Waiting(k)
      BY <1>1, <2>2, <2>3, IdleIs DEF Finishes, Proceeds, OthersStay, SameTurn, Waiting
    <3>2. Asked' = Asked
      BY <1>4, <1>6, <3>1, NobodyMore
    <3> QED BY <1>1, <3>1, <3>2 DEF Strikes, Pinned, Promise!latchVars
  <2>4. CASE Asks(t)
    <3>1. sessions' = sessions /\ t \notin Waiting(k) /\ Waiting(k)' = Waiting(k) \cup {t}
      BY <1>1, <1>6, <2>4 DEF Asks, OthersStay, SameTurn, Waiting
    <3>2. Asked' = [Asked EXCEPT ![k] = @ + 1]
      BY <1>4, <1>6, <3>1, OneMore
    <3>3. Promise!Ask(k)
      BY <1>1, <3>1, <3>2 DEF Strikes, Pinned, Promise!Ask
    <3> QED BY <1>6, <3>3 DEF Promise!Next
  <2>5. CASE Accepts(t) \/ Rejects(t) \/ Delivers(t)
    <3>1. t \in Waiting(k) /\ Waiting(k)' = Waiting(k) \ {t}
      BY <1>1, <1>6, <2>2, <2>5, IdleIs DEF Accepts, Rejects, Delivers, OthersStay, SameTurn, Waiting
    <3>2. Promise!Answered(k)
      BY <1>4, <1>6, <3>1, OneLess
    <3>3. Cleared(k) \/ Struck1(k)
      BY <1>1, <1>6, <2>2, <2>5, RowNext
    <3>4. Promise!Accept(k) \/ Promise!Strike(k)
      BY <1>1, <1>6, <2>1, <3>2, <3>3, RowsAsPromised DEF Promise!Accept, Promise!Strike
    <3> QED BY <1>6, <3>4 DEF Promise!Next
  <2>6. CASE Finishes(t) /\ turn[t].pc \in {"judge", "verdict"}
    <3>1. Waiting(k)' \subseteq Waiting(k)
      BY <1>1, <1>6, <2>2, <2>6, IdleIs DEF Finishes, OthersStay, Waiting
    <3>2. \A d \in Convs : Waiting(d)' \subseteq Waiting(d)
      BY <1>4, <1>6, <3>1
    <3>3. Fragile /\ sessions' = sessions
      BY <2>6 DEF Finishes
    <3>4. Promise!Lose
      BY <1>1, <3>2, <3>3, LostVerdicts
    <3> QED BY <3>4 DEF Promise!Next
  <2> QED BY <1>1, <1>2, <2>3, <2>4, <2>5, <2>6 DEF Works
<1> QED BY <1>2, <1>5, <1>6

\* A message keeps the row, or starts it afresh after the hour of silence.
LEMMA LatchMessage ==
  ASSUME Calm, TypeInv, PinInv, RowInv,
         NEW t \in Turns, NEW c \in Convs \cup {NoConv}, NEW p \in Pools, Message(t, c, p)
  PROVE  [Promise!Next]_(Promise!latchVars)
<1>1. OthersStay(t) /\ turn[t] = IdleTurn /\ turn'[t].pc = "route"
  BY MessageGoes
<1>2. \A d \in Convs : Waiting(d)' = Waiting(d)
  BY <1>1, IdleIs DEF OthersStay, Waiting
<1>3. Asked' = Asked
  BY <1>2, NobodyMore
<1>4. silent' = silent \ {c} /\ silent \subseteq Convs
  BY DEF Message, TypeInv
<1>5. CASE c = NoConv
  <2>1. sessions' = sessions
    BY <1>5, SavedNothing DEF Message
  <2>2. silent' = silent
    BY <1>4, <1>5, Constants
  <2> QED BY <1>3, <2>1, <2>2 DEF Strikes, Pinned, Promise!latchVars
<1>6. CASE c \in Convs
  <2>1. /\ sessions'[c] = SessionFor(c, p) /\ sessions[c].pool \in {NoPool, p}
        /\ \A d \in Convs : d # c => sessions'[d] = sessions[d]
    BY <1>6, MessageRow DEF Calm
  <2>2. CASE c \in silent
    <3>1. sessions'[c].streak = 0 /\ sessions'[c].latched = FALSE
      BY <2>1, <2>2, NewTyped DEF SessionFor
    <3>2. Strikes' = [Strikes EXCEPT ![c] = 0] /\ Pinned' = [Pinned EXCEPT ![c] = FALSE]
      BY <2>1, <3>1, Constants DEF Strikes, Pinned
    <3>3. Promise!Forget(c)
      BY <1>3, <1>4, <2>2, <3>2 DEF Promise!Forget
    <3> QED BY <1>6, <3>3 DEF Promise!Next
  <2>3. CASE c \notin silent
    <3>1. /\ sessions'[c].streak = sessions[c].streak
          /\ sessions'[c].latched = sessions[c].latched
      <4>1. CASE sessions[c].pool = p
        <5>1. Known(c, p)
          BY <1>6, <4>1, Constants DEF Known
        <5> QED BY <2>1, <2>3, <5>1 DEF SessionFor
      <4>2. CASE sessions[c].pool # p
        <5>1. sessions[c] = NewSession(NoPool)
          BY <1>6, <2>1, <4>2 DEF RowInv
        <5>2. sessions'[c] = NewSession(p)
          BY <2>1, <4>2 DEF SessionFor, Known
        <5> QED BY <5>1, <5>2 DEF NewSession
      <4> QED BY <4>1, <4>2
    <3>2. Strikes' = Strikes /\ Pinned' = Pinned
      BY <2>1, <3>1 DEF Strikes, Pinned
    <3> QED BY <1>3, <1>4, <2>3, <3>2 DEF Promise!latchVars
  <2> QED BY <2>2, <2>3
<1> QED BY <1>5, <1>6

LEMMA LatchStep ==
  ASSUME Calm, TypeInv, PinInv, RowInv, [Next]_vars
  PROVE  [Promise!Next]_(Promise!latchVars)
<1>1. ASSUME NEW c \in Convs, HourPasses(c) PROVE Promise!Hush(c)
  <2>1. Waiting(c) = {} /\ UNCHANGED <<sessions, turn>> /\ silent' = silent \cup {c}
    BY <1>1 DEF HourPasses, Waiting
  <2>2. Asked[c] = 0
    BY <2>1, FS_EmptySet DEF Asked
  <2>3. UNCHANGED <<Asked, Strikes, Pinned>>
    BY <2>1 DEF Asked, Waiting, Strikes, Pinned
  <2> QED BY <2>1, <2>2, <2>3 DEF Promise!Hush
<1>2. CASE DeployStep \/ UNCHANGED vars
  <2>1. UNCHANGED <<sessions, silent, turn>>
    BY <1>2 DEF DeployStep, ModelDies, DeathNoted, ModelBack, Destroyed, vars
  <2> QED BY <2>1 DEF Promise!latchVars, Asked, Waiting, Strikes, Pinned
<1>3. ASSUME CentralRestart PROVE Promise!Lose
  <2>1. \A c \in Convs : Waiting(c)' = {}
    BY <1>3, AllIdle, IdleIs DEF Waiting
  <2>2. Fragile /\ UNCHANGED <<sessions, silent>>
    BY <1>3 DEF CentralRestart
  <2> QED BY <2>1, <2>2, LostVerdicts
<1> QED BY <1>1, <1>2, <1>3, LatchTurn, LatchMessage DEF Next, Promise!Next

\* The router keeps the promise of Latch: each verdict of a judge counts once,
\* however late it comes, and only an hour of silence unpins.  Where calls may
\* break off and the central restart (Fragile), a verdict may be lost and then
\* counts for nothing; otherwise none is.  A round_robin pool uses the column of
\* the strikes for its rotation, so it has no part in it.
THEOREM KeepsThePromise ==
  ASSUME ~Together, ~Shared, \A p \in Pools : Mode[p] # "round_robin"
  PROVE  Spec => LatchSpec
<1>1. Calm
  BY DEF Calm
<1>2. Init => Promise!Init /\ TypeInv /\ PinInv /\ RowInv
  BY LatchInit, TypeInit, PinInit
<1>3. TypeInv /\ PinInv /\ RowInv /\ [Next]_vars => (TypeInv /\ PinInv /\ RowInv)'
  BY TypeStep, PinStep
<1>4. TypeInv /\ PinInv /\ RowInv /\ [Next]_vars => [Promise!Next]_(Promise!latchVars)
  BY <1>1, LatchStep
<1> QED BY <1>2, <1>3, <1>4, PTL DEF Spec, LatchSpec, Promise!Spec

=============================================================================
