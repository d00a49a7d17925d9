---------------------------- MODULE MCSettlement ----------------------------
(***************************************************************************)
(* Instances of Settlement for TLC.                                        *)
(***************************************************************************)
EXTENDS Settlement
=============================================================================
