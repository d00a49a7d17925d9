------------------------------ MODULE MCOutbox ------------------------------
(***************************************************************************)
(* Instances of Outbox for TLC.                                            *)
(***************************************************************************)
EXTENDS Outbox, TLC

CONSTANTS p1, p2

ProcessSymmetry == Permutations({p1, p2})
=============================================================================
