----------------------------- MODULE MCMetrics -----------------------------
(***************************************************************************)
(* Small instances of Metrics for TLC.                                     *)
(***************************************************************************)
EXTENDS Metrics

CONSTANTS d1, d2
=============================================================================
