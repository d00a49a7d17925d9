------------------------------- MODULE Money -------------------------------
(***************************************************************************)
(* Amounts are integers in minor units, backend/app/core/money.py and      *)
(* remedies.py: kobo for naira, micro-USDC for what the escrow holds.      *)
(***************************************************************************)
EXTENDS Integers

MICRO_USDC == 1000000
BPS == 10000

\* kobo_to_micro_usdc, rounded down; the rate is positive.  The factor 100 is
\* divided out, which leaves the quotient as it is.
KoboToMicro(kobo, rate) == (kobo * (MICRO_USDC \div 100)) \div rate

\* Fault: both parties get their own share rounded down.
SplitBothFloored(amount, providerBps) ==
  [toProvider |-> (amount * providerBps) \div BPS,
   toCustomer |-> (amount * (BPS - providerBps)) \div BPS]

\* split: the provider's share rounded down, the rest to the customer.
Split(amount, providerBps) ==
  LET toProvider == (amount * providerBps) \div BPS
  IN  [toProvider |-> toProvider, toCustomer |-> amount - toProvider]

\* within_tolerance: the allowance is rounded up, and the band includes its end.
WithinTolerance(requested, authorized, toleranceBps) ==
  LET allowance == 0 - ((0 - authorized * toleranceBps) \div BPS)
  IN  requested <= authorized + allowance

\* REMEDY_BPS, the provider's share of each remedy.
Remedy == {"RELEASE_FULL", "SPLIT_70_30", "SPLIT_50_50", "REFUND_FULL"}
REMEDY_BPS ==
  [r \in Remedy |-> CASE r = "RELEASE_FULL" -> 10000
                      [] r = "SPLIT_70_30" -> 7000
                      [] r = "SPLIT_50_50" -> 5000
                      [] r = "REFUND_FULL" -> 0]
=============================================================================
