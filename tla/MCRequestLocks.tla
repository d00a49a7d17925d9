--------------------------- MODULE MCRequestLocks ---------------------------
(***************************************************************************)
(* Instances of RequestLocks for TLC.                                      *)
(***************************************************************************)
EXTENDS RequestLocks

CONSTANTS r1, r2, watcher, j1, j2
=============================================================================
