------------------------------- MODULE Int128 -------------------------------
(***************************************************************************)
(* The integers of the contracts.  Every amount, balance, reserve, supply  *)
(* and allowance is an i128; whatever would leave its range panics, in     *)
(* checked_mul, checked_add and checked_sub as in plain arithmetic, the    *)
(* release profile being built with overflow-checks.  A panic aborts the   *)
(* whole Soroban transaction, so Fits appears among an action's guards.    *)
(***************************************************************************)
EXTENDS Integers

CONSTANT MaxInt      \* the largest i128

ASSUME MaxIntAssumption == MaxInt \in Nat

Fits(n) == -MaxInt - 1 <= n /\ n <= MaxInt

Magnitude(n) == IF n >= 0 THEN n ELSE -n

(* Division, which truncates towards zero.                                 *)
Quotient(n, d) ==
  IF n >= 0 <=> d > 0 THEN Magnitude(n) \div Magnitude(d) ELSE -(Magnitude(n) \div Magnitude(d))
=============================================================================
