------------------------------- MODULE Clients -------------------------------
(***************************************************************************)
(* What the web application and the TypeScript SDK compute before they     *)
(* send a transaction (apps/web/src/lib/amm-math.ts, units.ts, quote.ts,   *)
(* the dialog that adds liquidity, and sdk/typescript/src/math.ts), over   *)
(* the exchange the transaction will meet.  BigInts do not overflow; where *)
(* a function throws, its amount is 0 here, as where the contracts panic.  *)
(***************************************************************************)
EXTENDS Exchange

CONSTANTS
  Unit,       \* what formatUnits cuts off: 6 of 7 decimals are shown, 10
  Slippage,   \* the tolerated slippage, in basis points
  Percents    \* the parts of a position that can be withdrawn

ASSUME ClientAssumption ==
  Unit \in Nat \ {0} /\ Slippage \in 0 .. 10000 /\ Percents \subseteq 0 .. 100

(* parseUnits of formatUnits: what becomes of an amount that is written to *)
(* a field of a form and read from it.                                     *)
Typed(amount) == amount - (amount % Unit)

-----------------------------------------------------------------------------
(* Quotes.  The pairs are known as rows; a row is found by its tokens in   *)
(* either order, and its reserves are turned to the order of the trade.    *)

Row(a, b) == CHOOSE p \in DOMAIN pool : {pool[p].tokenX, pool[p].tokenY} = {a, b}

HasRow(a, b) == \E p \in DOMAIN pool : {pool[p].tokenX, pool[p].tokenY} = {a, b}

\* Mutation of ReservesFor: the reserves are not turned.
ReservesUnturned(a, b) == <<pool[Row(a, b)].reserveX, pool[Row(a, b)].reserveY>>

ReservesFor(a, b) ==
  LET q == pool[Row(a, b)]
  IN  IF q.tokenX = a THEN <<q.reserveX, q.reserveY>> ELSE <<q.reserveY, q.reserveX>>

OutFor(amountIn, r) ==
  IF amountIn > 0 /\ r[1] > 0 /\ r[2] > 0
  THEN (amountIn * FeeNum * r[2]) \div (r[1] * FeeDen + amountIn * FeeNum)
  ELSE 0

InFor(amountOut, r) ==
  IF 0 < amountOut /\ amountOut < r[2] /\ r[1] > 0
  THEN (r[1] * amountOut * FeeDen) \div ((r[2] - amountOut) * FeeNum) + 1
  ELSE 0

GetAmountsOut(amountIn, path) ==
  LET amounts[i \in 1 .. Len(path)] ==
        IF i = 1 THEN amountIn ELSE OutFor(amounts[i - 1], ReservesFor(path[i - 1], path[i]))
  IN  amounts

GetAmountsIn(amountOut, path) ==
  LET amounts[i \in 1 .. Len(path)] ==
        IF i = Len(path) THEN amountOut ELSE InFor(amounts[i + 1], ReservesFor(path[i], path[i + 1]))
  IN  amounts

-----------------------------------------------------------------------------
(* The dialog that adds liquidity to the pool p.                           *)

HasReserves(p) == pool[p].reserveX > 0 /\ pool[p].reserveY > 0

(* The amounts the form takes and, being positive, submits.                *)
Typable == {n \in Deposits : n > 0}

(* handleAmountXChange and handleAmountYChange: the two amounts of the form *)
(* when the user writes one of them.                                       *)
FormAmounts(amount, p) ==
  IF HasReserves(p)
  THEN {<<amount, Typed((amount * pool[p].reserveY) \div pool[p].reserveX)>>,
        <<Typed((amount * pool[p].reserveX) \div pool[p].reserveY), amount>>}
  ELSE {amount} \X Typable

(* The square root of the clients, and of the contracts: Newton's method   *)
(* from above, down to the first iterate that is not below the last.       *)
Newton(y) ==
  LET descend[z \in 1 .. y] ==
        LET x == (y \div z + z) \div 2 IN IF x < z THEN descend[x] ELSE z
  IN  CASE y = 0 -> 0
        [] y \in 1 .. 3 -> 1
        [] OTHER -> LET x == y \div 2 + 1 IN descend[x]

\* Mutation of EstimatedLp: the reserves are taken in the wrong order.
EstimatedLpTurned(x, y, p) ==
  IF ~HasReserves(p)
  THEN Newton(x * y) - MinLiquidity
  ELSE Least((x * pool[p].supply) \div pool[p].reserveY,
             (y * pool[p].supply) \div pool[p].reserveX)

(* The LP units the dialog announces.                                      *)
EstimatedLp(x, y, p) ==
  IF ~HasReserves(p)
  THEN Newton(x * y) - MinLiquidity
  ELSE Least((x * pool[p].supply) \div pool[p].reserveX,
             (y * pool[p].supply) \div pool[p].reserveY)

Minimum(amount, p) == IF HasReserves(p) THEN (amount * (10000 - Slippage)) \div 10000 ELSE 0

(* handleSubmit: the worlds the deposit may leave.                         *)
DialogDeposit(caller, x, y, p) ==
  RouterAdd(World, caller, pool[p].tokenX, pool[p].tokenY, x, y, Minimum(x, p), Minimum(y, p), caller)

-----------------------------------------------------------------------------
(* The dialog that withdraws from the pool p.                              *)

Position(caller, pct, p) == (pool[p].lp[caller] * pct) \div 100

\* Mutation of ShownOut: what is shown of the reserves is for the other token.
ShownOutTurned(liquidity, p) ==
  IF pool[p].supply = 0 THEN <<0, 0>>
  ELSE <<Quotient(liquidity * pool[p].reserveY, pool[p].supply),
         Quotient(liquidity * pool[p].reserveX, pool[p].supply)>>

(* The two amounts the dialog shows.                                       *)
ShownOut(liquidity, p) ==
  IF pool[p].supply = 0 THEN <<0, 0>>
  ELSE <<Quotient(liquidity * pool[p].reserveX, pool[p].supply),
         Quotient(liquidity * pool[p].reserveY, pool[p].supply)>>

(* handleSubmit, in the world the transaction meets: with no minimums.     *)
DialogWithdrawal(w, caller, liquidity, p) ==
  IF liquidity > 0
  THEN RouterRemove(w, caller, pool[p].tokenX, pool[p].tokenY, liquidity, 0, 0, caller)
  ELSE {}

-----------------------------------------------------------------------------
\* Along every route the clients compute from the listed pairs what the router
\* computes from its own look-ups, in both directions: what they show is what
\* a transaction in the same ledger pays, or it fails.
ClientsQuoteTheRouter ==
  \A n \in Amounts, path \in {q \in Paths : Len(q) > 1} :
    /\ PathOk(World, path) <=> \A i \in 1 .. Len(path) - 1 : HasRow(path[i], path[i + 1])
    /\ PathOk(World, path) =>
         /\ GetAmountsOut(n, path) = AmountsOut(World, n, path)
         /\ GetAmountsIn(n, path) = AmountsIn(World, n, path)

\* The LP units the dialog announces are an upper bound of those minted in the
\* same ledger, exact for a first deposit; what the two settlings and the digits
\* cut off cost is at most two units more than one unit of each token is worth
\* in LP units, whatever was ever taken from the pair.  (A pool with donated
\* reserves and no LP units is no first deposit to the dialog, which then
\* announces nothing.)
EstimatesHold ==
  \A caller \in Users, n \in Typable, p \in {q \in DOMAIN pool : pool[q].supply = 0 => ~HasReserves(q)} :
    \A a \in FormAmounts(n, p) : \A v \in DialogDeposit(caller, a[1], a[2], p) :
      LET estimate == EstimatedLp(a[1], a[2], p)
          minted == v.pool[p].lp[caller] - pool[p].lp[caller]
      IN  /\ minted <= estimate
          /\ IF HasReserves(p)
             THEN estimate <= minted + 2 + pool[p].supply \div pool[p].reserveX
                                         + pool[p].supply \div pool[p].reserveY
             ELSE estimate = minted

\* A withdrawal pays exactly what the dialog showed; and if a trade of anybody
\* comes in between, then, although no minimum was sent, the two amounts are
\* still worth together (as their product, to a unit of each) what was shown.
WithdrawalsKeepWorth ==
  \A caller \in Users, pct \in Percents, p \in DOMAIN pool :
    LET liquidity == Position(caller, pct, p)
        shown     == ShownOut(liquidity, p)
        a         == pool[p].tokenX
        b         == pool[p].tokenY
        trades    == UNION {SwapExactIn(World, trader, n, 0, path, trader) :
                              trader \in Users, n \in Amounts, path \in {<<a, b>>, <<b, a>>}}
    IN  /\ \A v \in DialogWithdrawal(World, caller, liquidity, p) :
             /\ v.bal[a][caller] - bal[a][caller] = shown[1]
             /\ v.bal[b][caller] - bal[b][caller] = shown[2]
        /\ \A w \in trades : \A v \in DialogWithdrawal(w, caller, liquidity, p) :
             (v.bal[a][caller] - w.bal[a][caller] + 1) * (v.bal[b][caller] - w.bal[b][caller] + 1)
               >= shown[1] * shown[2]
=============================================================================
