------------------------- MODULE MCDeployLifecycle -------------------------
(***************************************************************************)
(* Small instances of DeployLifecycle for TLC.                             *)
(***************************************************************************)
EXTENDS DeployLifecycle, TLC

CONSTANTS d1, d2, d3, t1, t2

\* Hashed ports no allocation of these instances gets to.
MCLegacyPort == [d \in DeployIds |-> 3]

\* A legacy deploy on the second port of the range.
MCLegacyLow == [d \in DeployIds |-> 2]

\* The only port there is.
MCLegacyOne == [d \in DeployIds |-> 1]

Symmetry == Permutations(Senders)
SymmetryCalm == Permutations(Senders) \cup Permutations({d2, d3})
=============================================================================
