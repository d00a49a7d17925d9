--------------------------- MODULE MCChainEvents ---------------------------
(***************************************************************************)
(* Instances of ChainEvents for TLC.                                       *)
(***************************************************************************)
EXTENDS ChainEvents

CONSTANTS j1, a1
=============================================================================
