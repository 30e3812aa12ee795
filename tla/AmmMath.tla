------------------------------ MODULE AmmMath ------------------------------
(***************************************************************************)
(* The arithmetic shared by the AquaSwap contracts                         *)
(* (contracts/shared/src/math.rs).                                         *)
(*                                                                         *)
(* A Rust function that may panic is modelled by two operators: F, its     *)
(* value, and FOk, the condition under which it returns one.  A panic      *)
(* aborts the whole Soroban transaction, so the action that calls F has    *)
(* FOk among its guards.                                                   *)
(***************************************************************************)
EXTENDS Int128

CONSTANTS
  FeeNum,        \* the part of an input that trades, 997 in the contracts
  FeeDen,        \* per FeeDen units of input, 1000 in the contracts
  MinLiquidity   \* MINIMUM_LIQUIDITY, 1000 in the contracts

ASSUME FeeAssumption ==
  FeeNum \in Nat \ {0} /\ FeeDen \in Nat \ {0} /\ FeeNum <= FeeDen
ASSUME MinLiquidityAssumption == MinLiquidity \in Nat \ {0}

Least(a, b) == IF a <= b THEN a ELSE b

-----------------------------------------------------------------------------
(* The exact-input formula: what a trade of amountIn pays out.             *)

GetAmountOutOk(amountIn, reserveIn, reserveOut) ==
  /\ amountIn > 0
  /\ reserveIn > 0 /\ reserveOut > 0
  /\ Fits(amountIn * FeeNum * reserveOut)
  /\ Fits(reserveIn * FeeDen + amountIn * FeeNum)

\* Mutation of GetAmountOut: the quotient is rounded up.
GetAmountOutRoundedUp(amountIn, reserveIn, reserveOut) ==
  -((-(amountIn * FeeNum * reserveOut)) \div (reserveIn * FeeDen + amountIn * FeeNum))

GetAmountOut(amountIn, reserveIn, reserveOut) ==
  (amountIn * FeeNum * reserveOut) \div (reserveIn * FeeDen + amountIn * FeeNum)

(* The exact-output formula: the input that buys amountOut.                *)

GetAmountInOk(amountOut, reserveIn, reserveOut) ==
  /\ amountOut > 0
  /\ reserveIn > 0 /\ reserveOut > 0
  /\ amountOut < reserveOut
  /\ Fits(reserveIn * amountOut * FeeDen)
  /\ Fits((reserveOut - amountOut) * FeeNum)

\* Mutation of GetAmountIn: the quotient is rounded down.
GetAmountInRoundedDown(amountOut, reserveIn, reserveOut) ==
  (reserveIn * amountOut * FeeDen) \div ((reserveOut - amountOut) * FeeNum)

GetAmountIn(amountOut, reserveIn, reserveOut) ==
  (reserveIn * amountOut * FeeDen) \div ((reserveOut - amountOut) * FeeNum) + 1

(* The deposit ratio: how much of B goes with amountA.                     *)

QuoteOk(amountA, reserveA, reserveB) ==
  /\ amountA > 0
  /\ reserveA > 0 /\ reserveB > 0
  /\ Fits(amountA * reserveB)

Quote(amountA, reserveA, reserveB) == (amountA * reserveB) \div reserveA

(* The integer square root, by what the Newton loop of math.rs returns.    *)

Sqrt(y) == CHOOSE z \in 0 .. y : z * z <= y /\ y < (z + 1) * (z + 1)
=============================================================================
