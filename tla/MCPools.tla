------------------------------ MODULE MCPools ------------------------------
(***************************************************************************)
(* Small instances of Pools for TLC.                                       *)
(***************************************************************************)
EXTENDS Pools

CONSTANTS d1, d2, d3, p1, p2, t1

MCPools == <<p1, p2>>
\* Two deploys serve one model.
MCModelOf == [d \in Deploys |-> IF d = d3 THEN "large" ELSE "small"]
MCLists == {<<d1, d3>>, <<d3, d2, d1>>}
=============================================================================
