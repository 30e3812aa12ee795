------------------------------ MODULE PairMath ------------------------------
(***************************************************************************)
(* What a pair computes from its reserves, its balances and its LP supply  *)
(* (contracts/pair/src/contract.rs): the LP units a deposit mints, the     *)
(* share a withdrawal pays, the inputs of a swap and the check it ends     *)
(* with.                                                                   *)
(***************************************************************************)
EXTENDS AmmMath

(***************************************************************************)
(* add_liquidity: the amounts a deposit settles on, in the ratio of the    *)
(* reserves and within what the caller offers and accepts; none if the     *)
(* call panics.  The sign of an amount is looked at by quote only, that is *)
(* not in an empty pool.                                                   *)
(***************************************************************************)
Settled(xDesired, yDesired, xMin, yMin, reserveX, reserveY) ==
  LET yOpt == Quote(xDesired, reserveX, reserveY)
      xOpt == Quote(yDesired, reserveY, reserveX)
      allX == /\ QuoteOk(xDesired, reserveX, reserveY)
              /\ yOpt <= yDesired /\ yOpt >= yMin
      allY == /\ QuoteOk(xDesired, reserveX, reserveY)
              /\ yOpt > yDesired
              /\ QuoteOk(yDesired, reserveY, reserveX)
              /\ xOpt <= xDesired /\ xOpt >= xMin
  IN  IF reserveX = 0 /\ reserveY = 0
      THEN {<<xDesired, yDesired>>}
      ELSE (IF allX THEN {<<xDesired, yOpt>>} ELSE {})
             \cup (IF allY THEN {<<xOpt, yDesired>>} ELSE {})

(***************************************************************************)
(* The LP units minted for the amounts x and y.  sqrt panics below zero,   *)
(* and a division by an empty reserve panics.  In the other case quote has *)
(* seen to it that the dividends are not negative, or the supply is and    *)
(* nothing is minted.                                                      *)
(***************************************************************************)
MintedOk(x, y, reserveX, reserveY, supply) ==
  IF supply = 0
  THEN x * y >= 0 /\ Fits(x * y)
  ELSE reserveX > 0 /\ reserveY > 0 /\ Fits(x * supply) /\ Fits(y * supply)

\* Mutation of Minted: the better of the two ratios is granted.
MintedGenerous(x, y, reserveX, reserveY, supply) ==
  IF supply = 0
  THEN Sqrt(x * y) - MinLiquidity
  ELSE -Least(-((x * supply) \div reserveX), -((y * supply) \div reserveY))

Minted(x, y, reserveX, reserveY, supply) ==
  IF supply = 0
  THEN Sqrt(x * y) - MinLiquidity
  ELSE Least((x * supply) \div reserveX, (y * supply) \div reserveY)

-----------------------------------------------------------------------------
(* remove_liquidity: what burning LP units pays of one token.              *)

\* Mutation of ShareOf: the withdrawal is rounded up.
ShareRoundedUp(liquidity, reserve, supply) ==
  Quotient(liquidity * reserve + supply - 1, supply)

\* Mutation of ShareOf: the units are burnt before the share is computed.
ShareAfterBurn(liquidity, reserve, supply) ==
  IF liquidity < supply THEN Quotient(liquidity * reserve, supply - liquidity) ELSE 0

ShareOf(liquidity, reserve, supply) == Quotient(liquidity * reserve, supply)

-----------------------------------------------------------------------------
(* swap: what has come in, compared with what the reserve would be after   *)
(* the payment of out.                                                     *)

AmountIn(balance, reserve, out) ==
  IF balance > reserve - out THEN balance - (reserve - out) ELSE 0

AmountInOk(balance, reserve, out) ==
  Fits(reserve - out) /\ Fits(AmountIn(balance, reserve, out))

\* Mutation of Adjusted: the fee is not charged.
AdjustedNoFee(balance, in) == balance * FeeDen

Adjusted(balance, in) == balance * FeeDen - in * (FeeDen - FeeNum)

\* Mutation of KHolds: the old product is scaled once instead of twice.
KHoldsScaledOnce(reserveX, reserveY, bx, by, xIn, yIn) ==
  Adjusted(bx, xIn) * Adjusted(by, yIn) >= reserveX * FeeDen * reserveY

KHolds(reserveX, reserveY, bx, by, xIn, yIn) ==
  /\ Fits(bx * FeeDen) /\ Fits(by * FeeDen)
  /\ Fits(reserveX * FeeDen) /\ Fits(reserveY * FeeDen)
  /\ Fits(Adjusted(bx, xIn) * Adjusted(by, yIn))
  /\ Fits(reserveX * FeeDen * (reserveY * FeeDen))
  /\ Adjusted(bx, xIn) * Adjusted(by, yIn) >= reserveX * FeeDen * (reserveY * FeeDen)

-----------------------------------------------------------------------------
(* skim *)

\* Mutation of Surplus: the whole balance is skimmed.
SurplusWhole(balance, reserve) == IF balance > reserve THEN balance ELSE 0

Surplus(balance, reserve) == IF balance > reserve THEN balance - reserve ELSE 0
=============================================================================
