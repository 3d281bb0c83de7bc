---------------------------- MODULE PortRegistry ----------------------------
(***************************************************************************)
(* What the central promises about deploy ports, with nothing of how it    *)
(* does it: a port is taken by at most one deploy, and it only ever moves  *)
(* from one deploy to another through being free.                          *)
(***************************************************************************)
EXTENDS Integers

CONSTANTS Deploys, PortSet

VARIABLE held      \* Deploys -> PortSet, or 0 for none

Take(d, p) ==
  /\ held[d] = 0
  /\ \A e \in Deploys : held[e] # p
  /\ held' = [held EXCEPT ![d] = p]

Free(d) ==
  /\ held[d] # 0
  /\ held' = [held EXCEPT ![d] = 0]

Init == held = [d \in Deploys |-> 0]

Next == \E d \in Deploys : Free(d) \/ \E p \in PortSet : Take(d, p)

Spec == Init /\ [][Next]_held
=============================================================================
