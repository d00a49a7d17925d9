----------------------------- MODULE MCDisputes -----------------------------
(***************************************************************************)
(* Instances of Disputes for TLC.                                          *)
(***************************************************************************)
EXTENDS Disputes

CONSTANTS r1, r2, p1, p2

\* The second request comes to the process that does not lead.
TwoProcs == [r \in {r1, r2} \cap Requests |-> IF r = r2 THEN p2 ELSE p1]
=============================================================================
