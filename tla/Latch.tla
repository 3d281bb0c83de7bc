------------------------------- MODULE Latch -------------------------------
(***************************************************************************)
(* What the README promises about a conversation with an escalation or     *)
(* advisor pool, with nothing of how the router keeps it: the judge is     *)
(* asked about replies and each verdict counts once, an accepted reply     *)
(* clears the strikes, enough of them pin the conversation to the strong   *)
(* model, and only an hour of silence unpins it.  A judge that breaks off  *)
(* gives no verdict, and then nothing counts.                              *)
(***************************************************************************)
EXTENDS Integers

CONSTANTS
  Convs,
  Confirmations,
  MayLose        \* TRUE: a verdict may never come

VARIABLES
  asked,     \* Convs -> Nat: replies whose verdict is not in yet
  strikes,   \* Convs -> 0..Confirmations
  pinned,    \* Convs -> BOOLEAN
  silent     \* conversations without a message for an hour

latchVars == <<asked, strikes, pinned, silent>>

Init ==
  /\ asked = [c \in Convs |-> 0]
  /\ strikes = [c \in Convs |-> 0]
  /\ pinned = [c \in Convs |-> FALSE]
  /\ silent = {}

Ask(c) ==
  /\ asked' = [asked EXCEPT ![c] = @ + 1]
  /\ UNCHANGED <<strikes, pinned, silent>>

Answered(c) == asked[c] > 0 /\ asked' = [asked EXCEPT ![c] = @ - 1]

Accept(c) ==
  /\ Answered(c)
  /\ strikes' = [strikes EXCEPT ![c] = 0]
  /\ UNCHANGED <<pinned, silent>>

Strike(c) ==
  /\ Answered(c)
  /\ strikes' = [strikes EXCEPT ![c] = IF @ < Confirmations THEN @ + 1 ELSE @]
  /\ pinned' = [pinned EXCEPT ![c] = @ \/ strikes[c] + 1 >= Confirmations]
  /\ UNCHANGED silent

Hush(c) ==
  /\ asked[c] = 0
  /\ silent' = silent \cup {c}
  /\ UNCHANGED <<asked, strikes, pinned>>

\* The message after the silence starts afresh.
Forget(c) ==
  /\ silent' = silent \ {c}
  /\ strikes' = [strikes EXCEPT ![c] = 0]
  /\ pinned' = [pinned EXCEPT ![c] = FALSE]
  /\ c \in silent /\ UNCHANGED asked

\* Verdicts that will never come: they neither count nor clear anything.
Lose ==
  /\ MayLose
  /\ asked' \in [Convs -> Nat]
  /\ \A c \in Convs : asked'[c] <= asked[c]
  /\ UNCHANGED <<strikes, pinned, silent>>

Next ==
  \/ \E c \in Convs : Ask(c) \/ Accept(c) \/ Strike(c) \/ Hush(c) \/ Forget(c)
  \/ Lose

Spec == Init /\ [][Next]_latchVars
=============================================================================
