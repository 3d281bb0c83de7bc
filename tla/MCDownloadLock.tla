--------------------------- MODULE MCDownloadLock ---------------------------
(***************************************************************************)
(* Small instances of DownloadLock for TLC.                                *)
(***************************************************************************)
EXTENDS DownloadLock, TLC

CONSTANTS w1, w2, w3

Symmetry == Permutations(Workers)
=============================================================================
