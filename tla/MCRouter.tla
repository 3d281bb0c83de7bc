------------------------------ MODULE MCRouter ------------------------------
(***************************************************************************)
(* Small instances of Router for TLC.  Pools are named after their mode.   *)
(***************************************************************************)
EXTENDS Router, TLC

CONSTANTS small, middle, large, c1, c2, t1, t2

MCMode == [p \in Pools |-> p]
MCTwo == [p \in Pools |-> <<small, large>>]
MCThree == [p \in Pools |-> <<small, middle, large>>]
MCNoJudge == [p \in Pools |-> NoModel]
MCJudge == [p \in Pools |-> middle]

Symmetry == Permutations(Turns) \cup Permutations(Convs)
=============================================================================
