-------------------------- MODULE MCIntentraEscrow --------------------------
(***************************************************************************)
(* Instances of IntentraEscrow for TLC.                                    *)
(***************************************************************************)
EXTENDS IntentraEscrow, TLC

CONSTANTS alice, bob, ai, owner

\* The two humans are interchangeable; the arbitrator and the owner are not.
HumanSymmetry == Permutations({alice, bob})
=============================================================================
