---------------------------- MODULE MCProModule ----------------------------
(***************************************************************************)
(* Small instances of ProModule for TLC.                                   *)
(***************************************************************************)
EXTENDS ProModule

CONSTANTS k1, r1
=============================================================================
