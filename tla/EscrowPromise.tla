--------------------------- MODULE EscrowPromise ---------------------------
(***************************************************************************)
(* What the escrow promises about one job, without disputes, proposals,    *)
(* appeals, timeouts or pooled balances: it takes the money in once, keeps *)
(* it, and gives all of it to the two parties, once.                       *)
(***************************************************************************)
EXTENDS Integers

CONSTANT Jobs

VARIABLES
  stage,        \* "open", "holding" or "settled"
  taken,        \* what was taken in for the job
  customerGot,  \* what the customer got out of it
  providerGot   \* what the provider got out of it

vars == <<stage, taken, customerGot, providerGot>>

Init ==
  /\ stage = [j \in Jobs |-> "open"]
  /\ taken = [j \in Jobs |-> 0]
  /\ customerGot = [j \in Jobs |-> 0]
  /\ providerGot = [j \in Jobs |-> 0]

Take(j) ==
  /\ stage[j] = "open"
  /\ stage' = [stage EXCEPT ![j] = "holding"]
  /\ taken'[j] > 0
  /\ taken' = [taken EXCEPT ![j] = taken'[j]]
  /\ UNCHANGED <<customerGot, providerGot>>

Settle(j) ==
  /\ stage[j] = "holding"
  /\ stage' = [stage EXCEPT ![j] = "settled"]
  /\ customerGot'[j] >= 0
  /\ providerGot'[j] >= 0
  /\ customerGot'[j] + providerGot'[j] = taken[j]
  /\ customerGot' = [customerGot EXCEPT ![j] = customerGot'[j]]
  /\ providerGot' = [providerGot EXCEPT ![j] = providerGot'[j]]
  /\ UNCHANGED taken

Next == \E j \in Jobs : Take(j) \/ Settle(j)

Spec == Init /\ [][Next]_vars
=============================================================================
