------------------------------ MODULE Account ------------------------------
(***************************************************************************)
(* What this machine keeps of a SursumAI account (core/account.py): a      *)
(* token and the last signed answer of the account service, in one file.   *)
(*                                                                         *)
(* An answer is good for a number of days.  Every copy of one, in the file *)
(* or in the hands of a thread, carries the days it has left, so that no   *)
(* clock is needed and days may pass for ever.                             *)
(***************************************************************************)
EXTENDS Integers

CONSTANTS
  Tokens,   \* tokens of accounts on the service
  NoToken,  \* the token of a machine that is not signed in
  Term      \* days a signed answer is good for (ENTITLEMENT_DAYS)

ASSUME AccountAssumption ==
  /\ NoToken \notin Tokens
  /\ Term \in Nat \ {0}

VARIABLES
  stored,   \* what a reader of the account file finds in it
  plan,     \* the service: what each account has paid for
  valid     \* the service: tokens that were not revoked

Plans == {"pro", "free"}

\* due: the service was not asked for a day (REFRESH_AFTER, checked_at).
\* invalid: the flag token_invalid, behind the warning on the account page.
Record == [token : Tokens \cup {NoToken}, plan : Plans, left : 0..Term,
           due : BOOLEAN, invalid : BOOLEAN]

\* _read of no file, of one just truncated, and of a damaged one: {}.
Nothing == [token |-> NoToken, plan |-> "free", left |-> 0,
            due |-> TRUE, invalid |-> FALSE]

AccountInit ==
  /\ stored = Nothing
  /\ plan \in [Tokens -> Plans]
  /\ valid = Tokens

-----------------------------------------------------------------------------
\* Mutant of good: the date is not looked at.
good_for_ever(rec) == rec.token # NoToken

\* entitlement and is_pro: the stored answer counts until it expires.
good(rec) == rec.left > 0
pro(rec) == good(rec) /\ rec.plan = "pro"
is_pro == pro(stored)

\* What connect and refresh write after a signed answer for token k.
Signed(k) ==
  [token |-> k, plan |-> plan[k], left |-> Term, due |-> FALSE, invalid |-> FALSE]

\* Mutant of Rejected: forgets the answer together with the token.
RejectedAtOnce(rec) == [Nothing EXCEPT !.token = rec.token, !.invalid = TRUE]

\* What refresh writes when the service no longer knows the token.
Rejected(rec) == [rec EXCEPT !.invalid = TRUE]

\* Mutant of Aged: a date in the past is counted on.
AgedPast(rec) == [rec EXCEPT !.left = @ - 1, !.due = TRUE]

\* One day later.
Aged(rec) ==
  [rec EXCEPT !.left = IF @ = 0 THEN 0 ELSE @ - 1, !.due = TRUE]

-----------------------------------------------------------------------------
(* On sursum.ai, outside this repository. *)

Pay(k) ==
  /\ plan' = [plan EXCEPT ![k] = "pro"]
  /\ UNCHANGED <<stored, valid>>

Refund(k) ==
  /\ plan' = [plan EXCEPT ![k] = "free"]
  /\ UNCHANGED <<stored, valid>>

Revoke(k) ==
  /\ valid' = valid \ {k}
  /\ UNCHANGED <<stored, plan>>

ServiceStep == \E k \in Tokens : Pay(k) \/ Refund(k) \/ Revoke(k)

AccountTypeOK ==
  /\ stored \in Record
  /\ plan \in [Tokens -> Plans]
  /\ valid \subseteq Tokens
=============================================================================
