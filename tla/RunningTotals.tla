--------------------------- MODULE RunningTotals ---------------------------
(***************************************************************************)
(* The total of a function on 0 .. n-1 without recursion: the last value   *)
(* of its running total.  Used to relate a pooled balance to the accounts  *)
(* it is the balance of.                                                   *)
(***************************************************************************)
EXTENDS Integers

\* acc[i] is f[0] + ... + f[i-1].
IsRunningTotal(acc, f, n) ==
  acc[0] = 0 /\ \A i \in 0 .. (n - 1) : acc[i + 1] = acc[i] + f[i]

\* sum is the total of the natural numbers f[0] .. f[n-1].
IsTotal(sum, f, n) ==
  \E acc \in [0 .. n -> 0 .. sum] : IsRunningTotal(acc, f, n) /\ acc[n] = sum
=============================================================================
