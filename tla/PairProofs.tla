------------------------------ MODULE PairProofs ------------------------------
(***************************************************************************)
(* The safety of a pair, for every set of users, every endowment, every    *)
(* fee and every sequence of transactions, with amounts of either sign:    *)
(* each promise for as long as nobody has passed a negative amount of the  *)
(* kind it names.                                                          *)
(*                                                                         *)
(* Inv is inductive.  Its parts rest on one another: that a burn leaves    *)
(* the supply non-negative needs LpAccounted, which bounds what any holder *)
(* can burn by the supply less the locked minimum; that the value behind a *)
(* unit does not fall needs the reserves to be backed and not negative.    *)
(***************************************************************************)
EXTENDS Pair, TokenLedgerProofs, PairMathProofs

Inv ==
  /\ TypeOK
  /\ IsLedger(lpBalance)
  /\ LpAccounted
  /\ ReservesBacked
  /\ SupplyBounded

-----------------------------------------------------------------------------
(* The parts of the invariant, each without its condition. *)

Typed ==
  /\ balX \in [Address -> Int] /\ balY \in [Address -> Int]
  /\ reserveX \in Int /\ reserveY \in Int /\ totalSupply \in Int
  /\ lpBalance \in [Address -> Int] /\ IsLedger(lpBalance)

Books ==
  /\ totalSupply >= 0 /\ \A a \in Address : lpBalance[a] >= 0
  /\ totalSupply = Total(lpBalance) + (IF totalSupply = 0 THEN 0 ELSE MinLiquidity)

Backed == reserveX <= balX[Pool] /\ reserveY <= balY[Pool]

Solvent == balX[Pool] >= 0 /\ balY[Pool] >= 0 /\ reserveX >= 0 /\ reserveY >= 0

Bounded == totalSupply * totalSupply <= reserveX * reserveY

\* What the invariant says of a state.
LEMMA InvParts ==
  ASSUME Inv
  PROVE  /\ Typed
         /\ negatives \in [Kinds -> Nat] /\ Pool \in Address
         /\ Untouched({"lp"}) => Books
         /\ Untouched({"pool"}) => Backed
         /\ Untouched({"pool", "deposit"}) => Solvent
         /\ Intact => Books /\ Backed /\ Solvent /\ Bounded
<1>1. /\ Typed /\ negatives \in [Kinds -> Nat] /\ Pool \in Address
      /\ Untouched({"lp"}) => Books
      /\ Untouched({"pool"}) => Backed
      /\ Untouched({"pool", "deposit"}) => Solvent
      /\ Intact => Bounded
  BY DEF Inv, TypeOK, LpAccounted, ReservesBacked, SupplyBounded, Typed, Books, Backed, Solvent,
         Bounded, Address
<1>2. Intact => Untouched({"lp"}) /\ Untouched({"pool"}) /\ Untouched({"pool", "deposit"})
  BY DEF Intact, Untouched
<1> QED BY <1>1, <1>2

\* The history of a transaction: it only grows, and it grows if an amount is negative.
Grows == negatives' \in [Kinds -> Nat] /\ \A k \in Kinds : negatives'[k] = 0 => negatives[k] = 0

\* Negative amounts are counted under their kind, and only they are.
LEMMA PassesCounts ==
  ASSUME negatives \in [Kinds -> Nat], NEW kind \in Kinds, NEW amounts, Passes(kind, amounts)
  PROVE  /\ Grows
         /\ negatives'[kind] = 0 \/ negatives' = negatives => \A n \in amounts : ~(n < 0)
<1>1. CASE \E n \in amounts : n < 0
  <2>1. negatives' = [negatives EXCEPT ![kind] = @ + 1] /\ negatives[kind] \in Nat
    BY <1>1 DEF Passes
  <2>2. negatives' \in [Kinds -> Nat] /\ negatives'[kind] = negatives[kind] + 1
    BY <2>1
  <2>3. \A k \in Kinds : negatives'[k] = 0 => negatives[k] = 0
    BY <2>1
  <2> QED BY <2>1, <2>2, <2>3 DEF Grows
<1>2. CASE ~(\E n \in amounts : n < 0)
  BY <1>2 DEF Passes, Grows
<1> QED BY <1>1, <1>2

\* What has not been meddled with had not been before.
LEMMA GrowsUntouched ==
  ASSUME Grows, NEW kinds \in SUBSET Kinds, Untouched(kinds)'
  PROVE  Untouched(kinds)
BY DEF Grows, Untouched

-----------------------------------------------------------------------------
(* Payments into and out of the pool. *)

\* A payment by a user changes the balance of the pool only if the pool is paid.
LEMMA UserPays ==
  ASSUME NEW b \in [Address -> Int], NEW u \in Users, NEW to \in Address, NEW n \in Int
  PROVE  /\ Moved(b, u, to, n) \in [Address -> Int]
         /\ to # Pool => Moved(b, u, to, n)[Pool] = b[Pool]
         /\ to = Pool => Moved(b, u, to, n)[Pool] = b[Pool] + n
<1>1. u \in Address /\ Pool \in Address /\ u # Pool
  BY AddressAssumption DEF Address
<1> QED BY <1>1 DEF Moved, Credited, Debited

\* A payment by the pool lowers its balance by at most the amount, and not below zero.
LEMMA PoolPays ==
  ASSUME NEW b \in [Address -> Int], NEW to \in Address, NEW n \in Nat
  PROVE  /\ Moved(b, Pool, to, n) \in [Address -> Int]
         /\ Moved(b, Pool, to, n)[Pool] \in Int
         /\ Moved(b, Pool, to, n)[Pool] >= b[Pool] - n
         /\ CanPay(b, Pool, to, n) /\ b[Pool] >= 0 => Moved(b, Pool, to, n)[Pool] >= 0
<1>1. Pool \in Address
  BY DEF Address
<1> QED BY <1>1 DEF Moved, Credited, Debited, CanPay, CanDebit

\* A swap pays a positive output and no other.
LEMMA SwapPays ==
  ASSUME NEW b \in [Address -> Int], NEW to \in Address, NEW out \in Int,
         out > 0 => CanPay(b, Pool, to, out)
  PROVE  /\ PaysOut(b, to, out) \in [Address -> Int]
         /\ PaysOut(b, to, out)[Pool] \in Int
         /\ out >= 0 => PaysOut(b, to, out)[Pool] >= b[Pool] - out
         /\ b[Pool] >= 0 => PaysOut(b, to, out)[Pool] >= 0
<1>1. b[Pool] \in Int
  BY DEF Address
<1>2. CASE out > 0
  <2>1. out \in Nat /\ PaysOut(b, to, out) = Moved(b, Pool, to, out)
    BY <1>2 DEF PaysOut
  <2> QED BY <1>2, <2>1, PoolPays
<1>3. CASE ~(out > 0)
  <2>1. PaysOut(b, to, out) = b
    BY <1>3 DEF PaysOut
  <2> QED BY <1>1, <1>3, <2>1
<1> QED BY <1>2, <1>3

-----------------------------------------------------------------------------
(* What each handler does to reserves and supply. *)

\* A step keeps the value behind an LP unit.
KeepsValue ==
  reserveX * reserveY * totalSupply' * totalSupply'
    <= reserveX' * reserveY' * totalSupply * totalSupply

\* A step lowers neither token behind an LP unit.
KeepsSides ==
  /\ reserveX * totalSupply' <= reserveX' * totalSupply
  /\ reserveY * totalSupply' <= reserveY' * totalSupply

\* A step of which the value behind the units is promised.
KeptStep ==
  /\ totalSupply > 0 => KeepsValue
  /\ totalSupply = 0 => totalSupply' * totalSupply' <= reserveX' * reserveY'

\* What a deposit writes, whatever the amounts are.
LEMMA DepositWrites ==
  ASSUME Typed, Pool \in Address, NEW caller \in Users, NEW x \in Int, NEW y \in Int,
         NEW to \in Address, Deposit(caller, x, y, to)
  PROVE  /\ Typed'
         /\ reserveX' = balX'[Pool] /\ balX'[Pool] = balX[Pool] + x
         /\ reserveY' = balY'[Pool] /\ balY'[Pool] = balY[Pool] + y
         /\ Minted(x, y, reserveX, reserveY, totalSupply) \in Int
         /\ Minted(x, y, reserveX, reserveY, totalSupply) > 0
         /\ Locked \in Nat
         /\ totalSupply' = totalSupply + Locked + Minted(x, y, reserveX, reserveY, totalSupply)
         /\ lpBalance' = Credited(lpBalance, to, Minted(x, y, reserveX, reserveY, totalSupply))
         /\ Total(lpBalance') = Total(lpBalance)
                                  + Minted(x, y, reserveX, reserveY, totalSupply)
<1> DEFINE lp == Minted(x, y, reserveX, reserveY, totalSupply)
<1>1. /\ balX \in [Address -> Int] /\ balY \in [Address -> Int]
      /\ reserveX \in Int /\ reserveY \in Int /\ totalSupply \in Int
      /\ lpBalance \in [Address -> Int] /\ IsLedger(lpBalance) /\ DOMAIN lpBalance = Address
  BY DEF Typed
<1>2. /\ balX' = Moved(balX, caller, Pool, x) /\ balY' = Moved(balY, caller, Pool, y)
      /\ reserveX' = balX'[Pool] /\ reserveY' = balY'[Pool]
      /\ MintedOk(x, y, reserveX, reserveY, totalSupply)
      /\ lp > 0 /\ totalSupply' = totalSupply + Locked + lp
      /\ lpBalance' = Credited(lpBalance, to, lp)
  BY DEF Deposit, SetReservesToBalances
<1>3. /\ balX' \in [Address -> Int] /\ balX'[Pool] = balX[Pool] + x
      /\ balY' \in [Address -> Int] /\ balY'[Pool] = balY[Pool] + y
  <2>1. balX' \in [Address -> Int] /\ balX'[Pool] = balX[Pool] + x
    <3>1. balX \in [Address -> Int] /\ balX' = Moved(balX, caller, Pool, x)
      BY <1>1, <1>2
    <3> QED BY <3>1, UserPays
  <2>2. balY' \in [Address -> Int] /\ balY'[Pool] = balY[Pool] + y
    <3>1. balY \in [Address -> Int] /\ balY' = Moved(balY, caller, Pool, y)
      BY <1>1, <1>2
    <3> QED BY <3>1, UserPays
  <2> QED BY <2>1, <2>2
<1>4. lp \in Int
  BY <1>1, <1>2, MintedNumber
<1>5. Locked \in Nat
  BY MinLiquidityAssumption DEF Locked
<1> HIDE DEF lp
<1>6. /\ IsLedger(lpBalance') /\ DOMAIN lpBalance' = Address
      /\ Total(lpBalance') = Total(lpBalance) + lp
  BY <1>1, <1>2, <1>4, TotalCredited
<1>7. lpBalance' \in [Address -> Int]
  BY <1>6 DEF IsLedger
<1>8. balX'[Pool] \in Int /\ balY'[Pool] \in Int /\ totalSupply' \in Int
  BY <1>1, <1>2, <1>3, <1>4, <1>5
<1>9. Typed'
  BY <1>2, <1>3, <1>6, <1>7, <1>8 DEF Typed
<1> QED BY <1>2, <1>3, <1>4, <1>5, <1>6, <1>9 DEF lp

\* A deposit keeps the books, for reserves and amounts of either sign.
LEMMA DepositKeepsBooks ==
  ASSUME Typed, Books, Pool \in Address, NEW caller \in Users, NEW x \in Int, NEW y \in Int,
         NEW to \in Address, Deposit(caller, x, y, to)
  PROVE  Books' /\ totalSupply' >= MinLiquidity
<1> DEFINE lp == Minted(x, y, reserveX, reserveY, totalSupply)
<1>1. /\ lp \in Int /\ lp > 0 /\ totalSupply' = totalSupply + Locked + lp
      /\ lpBalance' = Credited(lpBalance, to, lp)
      /\ Total(lpBalance') = Total(lpBalance) + lp
  BY DepositWrites
<1> HIDE DEF lp
<1>2. /\ totalSupply \in Int /\ totalSupply >= 0 /\ MinLiquidity \in Nat \ {0}
      /\ lpBalance \in [Address -> Int] /\ Total(lpBalance) \in Int
      /\ \A a \in Address : lpBalance[a] >= 0
  BY MinLiquidityAssumption, TotalType DEF Typed, Books
<1>3. \A a \in Address : lpBalance'[a] >= 0
  BY <1>1, <1>2 DEF Credited
<1>4. totalSupply' = Total(lpBalance') + MinLiquidity /\ totalSupply' > 0
  BY <1>1, <1>2 DEF Books, Locked
<1>5. Total(lpBalance') >= 0
  <2>1. Total(lpBalance) >= 0
    <3>1. DOMAIN lpBalance = Address
      BY <1>2
    <3> QED BY <1>2, <3>1, BalanceWithinTotal DEF Typed
  <2> QED BY <1>1, <1>2, <2>1
<1> QED BY <1>1, <1>2, <1>3, <1>4, <1>5 DEF Books

\* A deposit of amounts that are not negative mints at most its share.
LEMMA DepositKeepsValue ==
  ASSUME Typed, Books, Backed, Solvent, Bounded, Pool \in Address,
         NEW caller \in Users, NEW x \in Nat, NEW y \in Nat, NEW to \in Address,
         Deposit(caller, x, y, to)
  PROVE  /\ KeptStep
         /\ totalSupply > 0 => KeepsSides
<1> DEFINE lp == Minted(x, y, reserveX, reserveY, totalSupply)
<1>1. /\ reserveX \in Nat /\ reserveY \in Nat /\ totalSupply \in Nat
      /\ balX[Pool] \in Nat /\ balY[Pool] \in Nat
      /\ reserveX <= balX[Pool] /\ reserveY <= balY[Pool]
      /\ totalSupply * totalSupply <= reserveX * reserveY
      /\ MinLiquidity \in Nat
  BY MinLiquidityAssumption DEF Typed, Books, Backed, Solvent, Bounded
<1>2. /\ reserveX' = balX[Pool] + x /\ reserveY' = balY[Pool] + y
      /\ lp \in Int /\ lp > 0 /\ totalSupply' = totalSupply + Locked + lp
  BY DepositWrites
<1>3. /\ reserveX' \in Nat /\ reserveY' \in Nat
      /\ reserveX' >= reserveX + x /\ reserveY' >= reserveY + y
      /\ reserveX' >= x /\ reserveY' >= y /\ lp \in Nat
  BY <1>1, <1>2
<1>4. CASE totalSupply = 0
  <2>1. totalSupply' = MinLiquidity + lp
    BY <1>1, <1>2, <1>4 DEF Locked
  <2>2. lp = Minted(x, y, reserveX, reserveY, 0)
    BY <1>4
  <2> HIDE DEF lp
  <2>3. (MinLiquidity + lp) * (MinLiquidity + lp) <= reserveX' * reserveY'
    BY <1>3, <2>2, OpenNumbers
  <2> QED BY <1>4, <2>1, <2>3 DEF KeptStep
<1>5. CASE totalSupply > 0
  <2>1. totalSupply \in Nat \ {0} /\ totalSupply' = totalSupply + lp
    BY <1>1, <1>2, <1>5 DEF Locked
  <2>2. /\ reserveX * (totalSupply + lp) <= reserveX' * totalSupply
        /\ reserveY * (totalSupply + lp) <= reserveY' * totalSupply
    BY <1>1, <1>3, <2>1, JoinNumbers
  <2>3. totalSupply' \in Nat
    BY <1>3, <2>1
  <2> HIDE DEF lp
  <2>4. KeepsSides
    BY <2>1, <2>2 DEF KeepsSides
  <2>5. KeepsValue
    BY <1>1, <1>3, <2>3, <2>4, SidesKeepValue DEF KeepsValue, KeepsSides
  <2> QED BY <1>5, <2>4, <2>5 DEF KeptStep
<1> QED BY <1>1, <1>4, <1>5

\* What a withdrawal writes: it pays two positive shares.
LEMMA RemoveWrites ==
  ASSUME Typed, Pool \in Address, NEW caller \in Users, NEW liquidity \in Int,
         NEW xMin \in Int, NEW yMin \in Int, NEW to \in Address,
         RemoveLiquidity(caller, liquidity, xMin, yMin, to)
  PROVE  /\ Typed'
         /\ liquidity \in Nat \ {0} /\ totalSupply # 0 /\ liquidity <= lpBalance[caller]
         /\ reserveX' = balX'[Pool] /\ reserveY' = balY'[Pool]
         /\ balX'[Pool] >= balX[Pool] - ShareOf(liquidity, reserveX, totalSupply)
         /\ balY'[Pool] >= balY[Pool] - ShareOf(liquidity, reserveY, totalSupply)
         /\ balX[Pool] >= 0 => balX'[Pool] >= 0
         /\ balY[Pool] >= 0 => balY'[Pool] >= 0
         /\ totalSupply' = totalSupply - liquidity
         /\ lpBalance' = Debited(lpBalance, caller, liquidity)
         /\ Total(lpBalance') = Total(lpBalance) - liquidity
<1> DEFINE x == ShareOf(liquidity, reserveX, totalSupply)
           y == ShareOf(liquidity, reserveY, totalSupply)
<1>1. /\ balX \in [Address -> Int] /\ balY \in [Address -> Int]
      /\ reserveX \in Int /\ reserveY \in Int /\ totalSupply \in Int
      /\ lpBalance \in [Address -> Int] /\ IsLedger(lpBalance) /\ DOMAIN lpBalance = Address
      /\ caller \in Address
  BY DEF Typed, Address
<1>2. /\ liquidity > 0 /\ totalSupply # 0 /\ x > 0 /\ y > 0
      /\ CanDebit(lpBalance, caller, liquidity)
      /\ lpBalance' = Debited(lpBalance, caller, liquidity)
      /\ totalSupply' = totalSupply - liquidity
      /\ CanPay(balX, Pool, to, x) /\ CanPay(balY, Pool, to, y)
      /\ balX' = Moved(balX, Pool, to, x) /\ balY' = Moved(balY, Pool, to, y)
      /\ reserveX' = balX'[Pool] /\ reserveY' = balY'[Pool]
  BY DEF RemoveLiquidity, SetReservesToBalances
<1>3. x \in Int /\ y \in Int
  <2>1. liquidity * reserveX \in Int /\ liquidity * reserveY \in Int
    BY <1>1
  <2> QED BY <1>1, <1>2, <2>1, QuotientType DEF ShareOf
<1> HIDE DEF x, y
<1>4. x \in Nat /\ y \in Nat /\ liquidity \in Nat \ {0}
  BY <1>2, <1>3
<1>5. /\ balX' \in [Address -> Int] /\ balX'[Pool] >= balX[Pool] - x
      /\ balX'[Pool] \in Int /\ (balX[Pool] >= 0 => balX'[Pool] >= 0)
  BY <1>1, <1>2, <1>4, PoolPays
<1>6. /\ balY' \in [Address -> Int] /\ balY'[Pool] >= balY[Pool] - y
      /\ balY'[Pool] \in Int /\ (balY[Pool] >= 0 => balY'[Pool] >= 0)
  BY <1>1, <1>2, <1>4, PoolPays
<1>7. /\ IsLedger(lpBalance') /\ DOMAIN lpBalance' = Address
      /\ Total(lpBalance') = Total(lpBalance) - liquidity
  BY <1>1, <1>2, TotalDebited
<1>8. lpBalance' \in [Address -> Int] /\ totalSupply' \in Int
  BY <1>1, <1>2, <1>7 DEF IsLedger
<1>9. Typed'
  BY <1>2, <1>5, <1>6, <1>7, <1>8 DEF Typed
<1> QED BY <1>2, <1>4, <1>5, <1>6, <1>7, <1>9 DEF CanDebit, x, y

\* A withdrawal burns what the caller has, and leaves the locked minimum.
LEMMA RemoveKeepsBooks ==
  ASSUME Typed, Books, Pool \in Address, NEW caller \in Users, NEW liquidity \in Int,
         NEW xMin \in Int, NEW yMin \in Int, NEW to \in Address,
         RemoveLiquidity(caller, liquidity, xMin, yMin, to)
  PROVE  Books' /\ totalSupply > 0 /\ totalSupply' >= MinLiquidity
<1>1. /\ liquidity \in Nat \ {0} /\ totalSupply # 0 /\ liquidity <= lpBalance[caller]
      /\ totalSupply' = totalSupply - liquidity
      /\ lpBalance' = Debited(lpBalance, caller, liquidity)
      /\ Total(lpBalance') = Total(lpBalance) - liquidity
  BY RemoveWrites
<1>2. /\ totalSupply \in Int /\ totalSupply >= 0 /\ MinLiquidity \in Nat \ {0}
      /\ lpBalance \in [Address -> Int] /\ DOMAIN lpBalance = Address /\ IsLedger(lpBalance)
      /\ \A a \in Address : lpBalance[a] >= 0
      /\ caller \in Address /\ totalSupply = Total(lpBalance) + MinLiquidity
  BY <1>1, MinLiquidityAssumption DEF Typed, Books, Address
<1>3. lpBalance[caller] \in Nat /\ lpBalance[caller] <= Total(lpBalance) /\ Total(lpBalance) \in Nat
  BY <1>2, BalanceWithinTotal
<1>4. \A a \in Address : lpBalance'[a] >= 0
  BY <1>1, <1>2 DEF Debited
<1>5. totalSupply' = Total(lpBalance') + MinLiquidity /\ totalSupply' >= MinLiquidity
  BY <1>1, <1>2, <1>3
<1> QED BY <1>1, <1>2, <1>4, <1>5 DEF Books

\* A withdrawal pays at most the burned units' share of each side.
LEMMA RemoveKeepsValue ==
  ASSUME Typed, Books, Backed, Solvent, Bounded, Pool \in Address,
         NEW caller \in Users, NEW liquidity \in Int, NEW xMin \in Int, NEW yMin \in Int,
         NEW to \in Address, RemoveLiquidity(caller, liquidity, xMin, yMin, to)
  PROVE  KeepsValue /\ KeepsSides /\ KeptStep
<1> DEFINE x == ShareOf(liquidity, reserveX, totalSupply)
           y == ShareOf(liquidity, reserveY, totalSupply)
<1>1. /\ reserveX \in Nat /\ reserveY \in Nat
      /\ balX[Pool] \in Nat /\ balY[Pool] \in Nat
      /\ reserveX <= balX[Pool] /\ reserveY <= balY[Pool]
      /\ totalSupply * totalSupply <= reserveX * reserveY
      /\ MinLiquidity \in Nat \ {0}
  BY MinLiquidityAssumption DEF Typed, Backed, Solvent, Bounded
<1>2. totalSupply \in Nat \ {0} /\ totalSupply' \in Nat /\ totalSupply' >= MinLiquidity
  <2>1. Typed' /\ totalSupply > 0 /\ totalSupply' >= MinLiquidity
    BY RemoveWrites, RemoveKeepsBooks
  <2> QED BY <1>1, <2>1 DEF Typed
<1>3. /\ liquidity \in Nat /\ totalSupply' = totalSupply - liquidity
      /\ reserveX' \in Nat /\ reserveX' >= balX[Pool] - x
      /\ reserveY' \in Nat /\ reserveY' >= balY[Pool] - y
  <2>1. /\ Typed' /\ liquidity \in Nat /\ totalSupply' = totalSupply - liquidity
        /\ reserveX' = balX'[Pool] /\ balX'[Pool] >= balX[Pool] - x /\ balX'[Pool] >= 0
        /\ reserveY' = balY'[Pool] /\ balY'[Pool] >= balY[Pool] - y /\ balY'[Pool] >= 0
    BY <1>1, RemoveWrites
  <2> QED BY <2>1 DEF Typed
<1>4. x \in Nat /\ y \in Nat
  <2>1. /\ liquidity \in Nat /\ totalSupply \in Nat \ {0}
        /\ reserveX \in Int /\ reserveX >= 0 /\ reserveY \in Int /\ reserveY >= 0
    BY <1>1, <1>2, <1>3
  <2>2. ShareOf(liquidity, reserveX, totalSupply) \in Nat
    BY ONLY <2>1, ShareNumber
  <2>3. ShareOf(liquidity, reserveY, totalSupply) \in Nat
    BY ONLY <2>1, ShareNumber
  <2> QED BY <2>2, <2>3
<1>5. liquidity <= totalSupply /\ reserveX' >= reserveX - x /\ reserveY' >= reserveY - y
  <2> HIDE DEF x, y
  <2> QED BY <1>1, <1>2, <1>3, <1>4
<1>6. /\ reserveX * (totalSupply - liquidity) <= reserveX' * totalSupply
      /\ reserveY * (totalSupply - liquidity) <= reserveY' * totalSupply
  BY <1>1, <1>2, <1>3, <1>5, LeaveNumbers
<1> HIDE DEF x, y
<1>7. KeepsSides
  BY <1>3, <1>6 DEF KeepsSides
<1>8. KeepsValue
  BY <1>1, <1>2, <1>3, <1>7, SidesKeepValue DEF KeepsValue, KeepsSides
<1> QED BY <1>2, <1>7, <1>8 DEF KeptStep

\* What a swap writes, whatever the outputs are.
LEMMA SwapWrites ==
  ASSUME Typed, Pool \in Address, NEW caller \in Users, NEW xOut \in Int, NEW yOut \in Int,
         NEW to \in Address, Swap(caller, xOut, yOut, to)
  PROVE  /\ Typed'
         /\ xOut < reserveX /\ yOut < reserveY /\ ~(xOut > 0 /\ yOut > 0)
         /\ reserveX' = balX'[Pool] /\ reserveY' = balY'[Pool]
         /\ xOut >= 0 => reserveX' >= balX[Pool] - xOut
         /\ yOut >= 0 => reserveY' >= balY[Pool] - yOut
         /\ balX[Pool] >= 0 => reserveX' >= 0
         /\ balY[Pool] >= 0 => reserveY' >= 0
         /\ KHolds(reserveX, reserveY, reserveX', reserveY',
                   AmountIn(reserveX', reserveX, xOut), AmountIn(reserveY', reserveY, yOut))
         /\ totalSupply' = totalSupply /\ lpBalance' = lpBalance
<1>1. /\ balX \in [Address -> Int] /\ balY \in [Address -> Int]
      /\ reserveX \in Int /\ reserveY \in Int /\ totalSupply \in Int
      /\ lpBalance \in [Address -> Int] /\ IsLedger(lpBalance)
  BY DEF Typed
<1>2. /\ xOut > 0 => CanPay(balX, Pool, to, xOut)
      /\ yOut > 0 => CanPay(balY, Pool, to, yOut)
      /\ balX' = PaysOut(balX, to, xOut) /\ balY' = PaysOut(balY, to, yOut)
      /\ reserveX' = balX'[Pool] /\ reserveY' = balY'[Pool]
      /\ totalSupply' = totalSupply /\ lpBalance' = lpBalance
      /\ xOut < reserveX /\ yOut < reserveY /\ ~(xOut > 0 /\ yOut > 0)
      /\ KHolds(reserveX, reserveY, reserveX', reserveY',
                AmountIn(reserveX', reserveX, xOut), AmountIn(reserveY', reserveY, yOut))
  BY DEF Swap, SetReservesToBalances
<1>3. /\ balX' \in [Address -> Int] /\ balX'[Pool] \in Int
      /\ xOut >= 0 => balX'[Pool] >= balX[Pool] - xOut
      /\ balX[Pool] >= 0 => balX'[Pool] >= 0
  BY <1>1, <1>2, SwapPays
<1>4. /\ balY' \in [Address -> Int] /\ balY'[Pool] \in Int
      /\ yOut >= 0 => balY'[Pool] >= balY[Pool] - yOut
      /\ balY[Pool] >= 0 => balY'[Pool] >= 0
  BY <1>1, <1>2, SwapPays
<1>5. Typed'
  BY <1>1, <1>2, <1>3, <1>4 DEF Typed
<1> QED BY <1>2, <1>3, <1>4, <1>5

\* A swap passes the fee-adjusted product check, and so keeps the product.
LEMMA SwapKeepsProduct ==
  ASSUME Typed, Backed, Solvent, Pool \in Address, NEW caller \in Users,
         NEW xOut \in Int, NEW yOut \in Int, NEW to \in Address, Swap(caller, xOut, yOut, to)
  PROVE  /\ reserveX' \in Nat /\ reserveY' \in Nat
         /\ reserveX * reserveY <= reserveX' * reserveY'
<1>1. /\ reserveX \in Nat /\ reserveY \in Nat /\ balX[Pool] >= 0 /\ balY[Pool] >= 0
  BY DEF Typed, Solvent
<1>2. /\ Typed' /\ xOut < reserveX /\ yOut < reserveY
      /\ reserveX' >= 0 /\ reserveY' >= 0
      /\ KHolds(reserveX, reserveY, reserveX', reserveY',
                AmountIn(reserveX', reserveX, xOut), AmountIn(reserveY', reserveY, yOut))
  BY <1>1, SwapWrites
<1>3. reserveX' \in Nat /\ reserveY' \in Nat /\ xOut <= reserveX /\ yOut <= reserveY
  BY <1>1, <1>2 DEF Typed
<1> QED BY <1>1, <1>2, <1>3, TradeNumbers

-----------------------------------------------------------------------------
(* Every transaction is a sound step. *)

\* What every transaction does, and what the theorems below are read off.
SoundStep ==
  /\ Typed' /\ Grows
  /\ Untouched({"lp"})' => Books' /\ (totalSupply > 0 => totalSupply' >= MinLiquidity)
  /\ Untouched({"pool"})' => Backed'
  /\ Untouched({"pool", "deposit"})' => Solvent'
  /\ Intact' => KeptStep

\* What was untouched before a step that leaves it untouched.
LEMMA UntouchedBefore ==
  ASSUME Inv, Grows
  PROVE  /\ Untouched({"lp"})' => Books
         /\ Untouched({"pool"})' => Backed
         /\ Untouched({"pool", "deposit"})' => Solvent
         /\ Intact' => Intact /\ Books /\ Backed /\ Solvent /\ Bounded
<1>1. \A kinds \in SUBSET Kinds : Untouched(kinds)' => Untouched(kinds)
  BY GrowsUntouched
<1>2. /\ {"lp"} \in SUBSET Kinds /\ {"pool"} \in SUBSET Kinds
      /\ {"pool", "deposit"} \in SUBSET Kinds /\ {"pool", "lp", "deposit"} \in SUBSET Kinds
  BY DEF Kinds
<1>3. /\ Untouched({"lp"})' => Untouched({"lp"})
      /\ Untouched({"pool"})' => Untouched({"pool"})
      /\ Untouched({"pool", "deposit"})' => Untouched({"pool", "deposit"})
      /\ Intact' => Intact
  BY <1>1, <1>2 DEF Intact
<1> QED BY <1>3, InvParts

\* Kinds that are untouched together are untouched each.
LEMMA UntouchedParts ==
  /\ Untouched({"pool", "deposit"})' => negatives'["deposit"] = 0 /\ negatives'["pool"] = 0
  /\ Untouched({"pool"})' => negatives'["pool"] = 0
  /\ Untouched({"lp"})' => negatives'["lp"] = 0
  /\ Intact' => /\ Untouched({"pool", "deposit"})' /\ Untouched({"pool"})' /\ Untouched({"lp"})'
                /\ negatives'["deposit"] = 0
BY DEF Intact, Untouched

\* Units in circulation come with the locked minimum.
LEMMA BooksMinimum ==
  ASSUME Typed, Books
  PROVE  totalSupply > 0 => totalSupply >= MinLiquidity
<1>1. DOMAIN lpBalance = Address /\ IsLedger(lpBalance) /\ totalSupply \in Int
  BY DEF Typed
<1>2. Total(lpBalance) \in Nat
  BY <1>1, BalanceWithinTotal DEF Books
<1> QED BY <1>1, <1>2, MinLiquidityAssumption DEF Books

\* A step that keeps the supply, and does not lower the product of the reserves.
LEMMA KeptWithoutMint ==
  ASSUME reserveX \in Nat, reserveY \in Nat, reserveX' \in Nat, reserveY' \in Nat,
         totalSupply \in Nat, totalSupply' = totalSupply,
         reserveX * reserveY <= reserveX' * reserveY'
  PROVE  KeptStep
<1>1. KeepsValue
  <2> DEFINE k == reserveX * reserveY
             k2 == reserveX' * reserveY'
             m == totalSupply * totalSupply
  <2>1. k \in Nat /\ k2 \in Nat /\ m \in Nat /\ k <= k2
    BY ProductNatural
  <2>2. /\ reserveX * reserveY * totalSupply * totalSupply = k * m
        /\ reserveX' * reserveY' * totalSupply * totalSupply = k2 * m
    OBVIOUS
  <2> HIDE DEF k, k2, m
  <2>3. k * m <= k2 * m
    BY <2>1, ProductMonotone
  <2> QED BY <2>2, <2>3 DEF KeepsValue
<1>2. totalSupply = 0 => totalSupply' * totalSupply' <= reserveX' * reserveY'
  <2> DEFINE k2 == reserveX' * reserveY'
             m2 == totalSupply' * totalSupply'
  <2>1. k2 \in Nat
    BY ProductNatural
  <2>2. totalSupply = 0 => m2 = 0
    OBVIOUS
  <2> HIDE DEF k2, m2
  <2>3. totalSupply = 0 => m2 <= k2
    BY <2>1, <2>2
  <2> QED BY <2>3 DEF k2, m2
<1> QED BY <1>1, <1>2 DEF KeptStep

\* The books of a step that moves no LP unit.
LEMMA BooksUnchanged ==
  ASSUME Inv, Grows, totalSupply' = totalSupply, lpBalance' = lpBalance
  PROVE  Untouched({"lp"})' => Books' /\ (totalSupply > 0 => totalSupply' >= MinLiquidity)
<1>1. Books => Books'
  BY DEF Books
<1> QED BY <1>1, UntouchedBefore, InvParts, BooksMinimum

\* A deposit is a sound step.
LEMMA AddSound ==
  ASSUME Inv, NEW caller \in Users, NEW x \in Int, NEW y \in Int, NEW to \in Address,
         Deposit(caller, x, y, to)
  PROVE  SoundStep
<1>1. Typed /\ Pool \in Address /\ negatives \in [Kinds -> Nat]
  BY InvParts
<1>2. Grows /\ (negatives'["deposit"] = 0 => x >= 0 /\ y >= 0)
  <2>1. Passes("deposit", {x, y})
    BY DEF Deposit
  <2>2. Grows /\ (negatives'["deposit"] = 0 => \A n \in {x, y} : ~(n < 0))
    BY <1>1, <2>1, PassesCounts DEF Kinds
  <2> QED BY <2>2
<1>3. /\ Typed'
      /\ reserveX' = balX'[Pool] /\ balX'[Pool] = balX[Pool] + x
      /\ reserveY' = balY'[Pool] /\ balY'[Pool] = balY[Pool] + y
  BY <1>1, DepositWrites
<1>4. balX[Pool] \in Int /\ balY[Pool] \in Int /\ reserveX' \in Int /\ reserveY' \in Int
  BY <1>1, <1>3 DEF Typed
<1>5. Untouched({"lp"})' => Books' /\ (totalSupply > 0 => totalSupply' >= MinLiquidity)
  BY <1>1, <1>2, UntouchedBefore, DepositKeepsBooks
<1>6. Untouched({"pool", "deposit"})' => Solvent'
  <2>1. Untouched({"pool", "deposit"})' => Solvent /\ x >= 0 /\ y >= 0
    BY <1>2, UntouchedBefore, UntouchedParts
  <2> QED BY <1>3, <1>4, <2>1 DEF Solvent
<1>7. Intact' => KeptStep
  <2>1. Intact' => /\ Books /\ Backed /\ Solvent /\ Bounded
                   /\ x \in Nat /\ y \in Nat
    <3>1. Intact' => negatives'["deposit"] = 0
      BY UntouchedParts
    <3> QED BY <1>2, <3>1, UntouchedBefore
  <2> QED BY <1>1, <2>1, DepositKeepsValue
<1>8. Backed'
  BY <1>3, <1>4 DEF Backed
<1> QED BY <1>2, <1>3, <1>5, <1>6, <1>7, <1>8 DEF SoundStep

\* A withdrawal is a sound step.
LEMMA RemoveSound ==
  ASSUME Inv, NEW caller \in Users, NEW liquidity \in Int, NEW xMin \in Int, NEW yMin \in Int,
         NEW to \in Address, RemoveLiquidity(caller, liquidity, xMin, yMin, to)
  PROVE  SoundStep
<1>1. Typed /\ Pool \in Address /\ negatives \in [Kinds -> Nat]
  BY InvParts
<1>2. Grows
  BY <1>1 DEF RemoveLiquidity, Grows
<1>3. /\ Typed'
      /\ reserveX' = balX'[Pool] /\ (balX[Pool] >= 0 => balX'[Pool] >= 0)
      /\ reserveY' = balY'[Pool] /\ (balY[Pool] >= 0 => balY'[Pool] >= 0)
  BY <1>1, RemoveWrites
<1>4. Untouched({"lp"})' => Books' /\ (totalSupply > 0 => totalSupply' >= MinLiquidity)
  BY <1>1, <1>2, UntouchedBefore, RemoveKeepsBooks
<1>5. Untouched({"pool", "deposit"})' => Solvent'
  BY <1>2, <1>3, UntouchedBefore DEF Solvent
<1>6. Intact' => KeptStep
  BY <1>1, <1>2, UntouchedBefore, RemoveKeepsValue
<1>7. Backed'
  BY <1>3 DEF Backed, Typed
<1> QED BY <1>2, <1>3, <1>4, <1>5, <1>6, <1>7 DEF SoundStep

\* A swap is a sound step, with a negative output too.
LEMMA SwapSound ==
  ASSUME Inv, NEW caller \in Users, NEW xOut \in Int, NEW yOut \in Int, NEW to \in Address,
         Swap(caller, xOut, yOut, to)
  PROVE  SoundStep
<1>1. Typed /\ Pool \in Address /\ negatives \in [Kinds -> Nat]
  BY InvParts
<1>2. Grows
  <2>1. Passes("swap", {xOut, yOut})
    BY DEF Swap
  <2> QED BY <1>1, <2>1, PassesCounts DEF Kinds
<1>3. /\ Typed' /\ reserveX' = balX'[Pool] /\ reserveY' = balY'[Pool]
      /\ balX[Pool] >= 0 => reserveX' >= 0
      /\ balY[Pool] >= 0 => reserveY' >= 0
      /\ totalSupply' = totalSupply /\ lpBalance' = lpBalance
  BY <1>1, SwapWrites
<1>4. Untouched({"lp"})' => Books' /\ (totalSupply > 0 => totalSupply' >= MinLiquidity)
  BY <1>2, <1>3, BooksUnchanged
<1>5. Untouched({"pool", "deposit"})' => Solvent'
  BY <1>2, <1>3, UntouchedBefore DEF Solvent
<1>6. Intact' => KeptStep
  <2> SUFFICES ASSUME Intact' PROVE KeptStep
    OBVIOUS
  <2>1. Books /\ Backed /\ Solvent
    BY <1>2, UntouchedBefore
  <2>2. /\ reserveX' \in Nat /\ reserveY' \in Nat
        /\ reserveX * reserveY <= reserveX' * reserveY'
    BY <1>1, <2>1, SwapKeepsProduct
  <2>3. reserveX \in Nat /\ reserveY \in Nat /\ totalSupply \in Nat
    BY <1>1, <2>1 DEF Typed, Books, Solvent
  <2> QED BY <1>3, <2>2, <2>3, KeptWithoutMint
<1>7. Backed'
  BY <1>3 DEF Backed, Typed
<1> QED BY <1>2, <1>3, <1>4, <1>5, <1>6, <1>7 DEF SoundStep

\* Sync raises the reserves of a backed pool to its balances.
LEMMA SyncSound == ASSUME Inv, Sync PROVE SoundStep
<1>1. Typed /\ Pool \in Address /\ negatives \in [Kinds -> Nat]
  BY InvParts
<1>2. /\ balX' = balX /\ balY' = balY /\ negatives' = negatives
      /\ totalSupply' = totalSupply /\ lpBalance' = lpBalance
      /\ reserveX' = balX[Pool] /\ reserveY' = balY[Pool]
      /\ balX[Pool] \in Int /\ balY[Pool] \in Int
  BY <1>1 DEF Sync, SetReservesToBalances, Typed
<1>3. Grows
  BY <1>1, <1>2 DEF Grows
<1>4. Untouched({"lp"})' => Books' /\ (totalSupply > 0 => totalSupply' >= MinLiquidity)
  BY <1>2, <1>3, BooksUnchanged
<1>5. Untouched({"pool", "deposit"})' => Solvent'
  BY <1>2, <1>3, UntouchedBefore DEF Solvent
<1>6. Intact' => KeptStep
  <2> SUFFICES ASSUME Intact' PROVE KeptStep
    OBVIOUS
  <2>1. Books /\ Backed /\ Solvent
    BY <1>3, UntouchedBefore
  <2>2. /\ reserveX \in Nat /\ reserveY \in Nat /\ totalSupply \in Nat
        /\ reserveX' \in Nat /\ reserveY' \in Nat
        /\ reserveX <= reserveX' /\ reserveY <= reserveY'
    BY <1>1, <1>2, <2>1 DEF Typed, Books, Backed, Solvent
  <2>3. reserveX * reserveY <= reserveX' * reserveY'
    BY <2>2, ProductMonotone
  <2> QED BY <1>2, <2>2, <2>3, KeptWithoutMint
<1>7. Typed' /\ Backed'
  BY <1>1, <1>2 DEF Backed, Typed
<1> QED BY <1>3, <1>4, <1>5, <1>6, <1>7 DEF SoundStep

\* A step that keeps reserves and supply.
LEMMA QuietSound ==
  ASSUME Inv, Grows, UNCHANGED <<reserveX, reserveY, totalSupply>>,
         balX' \in [Address -> Int], balY' \in [Address -> Int],
         lpBalance' \in [Address -> Int], IsLedger(lpBalance'),
         Untouched({"lp"})' => Books',
         Untouched({"pool"})' => Backed', Untouched({"pool", "deposit"})' => Solvent'
  PROVE  SoundStep
<1>1. Typed /\ Typed'
  BY InvParts DEF Typed
<1>2. Untouched({"lp"})' => (totalSupply > 0 => totalSupply' >= MinLiquidity)
  BY <1>1, UntouchedBefore, BooksMinimum
<1>3. Intact' => KeptStep
  <2> SUFFICES ASSUME Intact' PROVE KeptStep
    OBVIOUS
  <2>1. Books /\ Solvent
    BY UntouchedBefore
  <2>2. reserveX \in Nat /\ reserveY \in Nat /\ totalSupply \in Nat
    BY <1>1, <2>1 DEF Typed, Books, Solvent
  <2>3. reserveX * reserveY <= reserveX' * reserveY'
    <3>1. reserveX * reserveY \in Nat
      BY <2>2
    <3> QED BY <3>1
  <2> QED BY <2>2, <2>3, KeptWithoutMint
<1> QED BY <1>1, <1>2, <1>3 DEF SoundStep

\* Skim pays out what the pool holds beyond its reserve, and no more.
LEMMA SkimSound == ASSUME Inv, NEW to \in Address, Skim(to) PROVE SoundStep
<1>1. ASSUME NEW b \in [Address -> Int], NEW r \in Int, Skims(b, r, to)
      PROVE  /\ Moved(b, Pool, to, Surplus(b[Pool], r)) \in [Address -> Int]
             /\ r <= b[Pool] => r <= Moved(b, Pool, to, Surplus(b[Pool], r))[Pool]
             /\ b[Pool] >= 0 => Moved(b, Pool, to, Surplus(b[Pool], r))[Pool] >= 0
  <2> DEFINE n == Surplus(b[Pool], r)
             m == Moved(b, Pool, to, n)
  <2>1. Pool \in Address /\ b[Pool] \in Int
    BY DEF Address
  <2>2. n \in Nat /\ (r <= b[Pool] => r <= b[Pool] - n)
    BY <2>1 DEF Surplus
  <2>3. n > 0 => CanPay(b, Pool, to, n)
    BY <1>1 DEF Skims
  <2> HIDE DEF n
  <2>4. m \in [Address -> Int] /\ m[Pool] >= b[Pool] - n /\ m[Pool] \in Int
        /\ (CanPay(b, Pool, to, n) /\ b[Pool] >= 0 => m[Pool] >= 0)
    BY <2>2, PoolPays
  <2> HIDE DEF m
  <2>5. b[Pool] >= 0 => m[Pool] >= 0
    BY <2>1, <2>2, <2>3, <2>4
  <2>6. r <= b[Pool] => r <= m[Pool]
    BY <2>1, <2>2, <2>4
  <2> QED BY <2>4, <2>5, <2>6 DEF m, n
<1>2. Typed /\ negatives \in [Kinds -> Nat] /\ IsLedger(lpBalance)
  BY InvParts DEF Typed
<1>3. /\ balX \in [Address -> Int] /\ balY \in [Address -> Int]
      /\ reserveX \in Int /\ reserveY \in Int
  BY <1>2 DEF Typed
<1>4. /\ Skims(balX, reserveX, to) /\ Skims(balY, reserveY, to)
      /\ balX' = Moved(balX, Pool, to, Surplus(balX[Pool], reserveX))
      /\ balY' = Moved(balY, Pool, to, Surplus(balY[Pool], reserveY))
      /\ UNCHANGED <<reserveX, reserveY, totalSupply, lpBalance, negatives>>
  BY DEF Skim
<1>5. /\ balX' \in [Address -> Int]
      /\ reserveX <= balX[Pool] => reserveX <= balX'[Pool]
      /\ balX[Pool] >= 0 => balX'[Pool] >= 0
  BY <1>1, <1>3, <1>4
<1>6. /\ balY' \in [Address -> Int]
      /\ reserveY <= balY[Pool] => reserveY <= balY'[Pool]
      /\ balY[Pool] >= 0 => balY'[Pool] >= 0
  BY <1>1, <1>3, <1>4
<1>7. Grows
  BY <1>2, <1>4 DEF Grows
<1>8. /\ Untouched({"lp"})' => Books'
      /\ Untouched({"pool"})' => Backed'
      /\ Untouched({"pool", "deposit"})' => Solvent'
  <2>1. Untouched({"lp"})' => Books'
    BY <1>4, <1>7, BooksUnchanged
  <2>2. Untouched({"pool"})' => Backed'
    BY <1>4, <1>5, <1>6, <1>7, UntouchedBefore DEF Backed
  <2>3. Untouched({"pool", "deposit"})' => Solvent'
    BY <1>4, <1>5, <1>6, <1>7, UntouchedBefore DEF Solvent
  <2> QED BY <2>1, <2>2, <2>3
<1>9. lpBalance' \in [Address -> Int] /\ IsLedger(lpBalance')
  BY <1>2, <1>4 DEF Typed
<1> QED BY <1>4, <1>5, <1>6, <1>7, <1>8, <1>9, QuietSound

\* LP units that change hands: transfer and transfer_from.
LEMMA LpMoveSound ==
  ASSUME Inv, NEW from \in Users, NEW to \in Address, NEW amount \in Int,
         CanPay(lpBalance, from, to, amount), lpBalance' = Moved(lpBalance, from, to, amount),
         Passes("lp", {amount}),
         UNCHANGED <<balX, balY, reserveX, reserveY, totalSupply>>
  PROVE  SoundStep
<1>1. Typed /\ negatives \in [Kinds -> Nat] /\ from \in Address
  BY InvParts DEF Address
<1>2. /\ lpBalance \in [Address -> Int] /\ IsLedger(lpBalance) /\ DOMAIN lpBalance = Address
      /\ balX \in [Address -> Int] /\ balY \in [Address -> Int]
  BY <1>1 DEF Typed
<1>3. Grows /\ (negatives'["lp"] = 0 => amount >= 0)
  BY <1>1, PassesCounts DEF Kinds
<1>4. /\ IsLedger(lpBalance') /\ DOMAIN lpBalance' = Address
      /\ Total(lpBalance') = Total(lpBalance)
  BY <1>1, <1>2, TotalMoved
<1>5. lpBalance' \in [Address -> Int]
  BY <1>4 DEF IsLedger
<1>6. Untouched({"lp"})' => Books'
  <2> SUFFICES ASSUME Untouched({"lp"})' PROVE Books'
    OBVIOUS
  <2>1. Books /\ amount >= 0
    BY <1>3, UntouchedBefore, UntouchedParts
  <2>2. ASSUME NEW a \in Address PROVE lpBalance'[a] >= 0
    <3>1. CanDebit(lpBalance, from, amount) /\ lpBalance[a] >= 0
      BY <2>1 DEF CanPay, Books
    <3>2. amount >= 0 /\ lpBalance[a] >= 0 => Moved(lpBalance, from, to, amount)[a] >= 0
      BY <1>1, <1>2, <3>1, MovedSign
    <3> QED BY <2>1, <3>1, <3>2
  <2> QED BY <1>4, <2>1, <2>2 DEF Books
<1>7. /\ Untouched({"pool"})' => Backed'
      /\ Untouched({"pool", "deposit"})' => Solvent'
  BY <1>3, UntouchedBefore DEF Backed, Solvent
<1> QED BY <1>2, <1>3, <1>4, <1>5, <1>6, <1>7, QuietSound

\* Tokens that change hands outside the pair.
LEMMA TransferSound ==
  ASSUME Inv, NEW from \in Users, NEW to \in Address, NEW amount \in Int,
         TransferX(from, to, amount) \/ TransferY(from, to, amount)
  PROVE  SoundStep
<1>1. Typed /\ negatives \in [Kinds -> Nat]
  BY InvParts
<1>2. /\ balX \in [Address -> Int] /\ balY \in [Address -> Int]
      /\ reserveX \in Int /\ reserveY \in Int
      /\ balX[Pool] \in Int /\ balY[Pool] \in Int
      /\ lpBalance \in [Address -> Int] /\ IsLedger(lpBalance)
  BY <1>1, InvParts DEF Typed
<1>3. /\ UNCHANGED <<reserveX, reserveY, totalSupply, lpBalance>>
      /\ Passes(Target(to), {amount})
  BY DEF TransferX, TransferY
<1>4. Grows /\ (to = Pool /\ negatives'["pool"] = 0 => amount >= 0)
  <2>1. Target(to) \in Kinds
    BY DEF Target, Kinds
  <2>2. Grows /\ (negatives'[Target(to)] = 0 => \A n \in {amount} : ~(n < 0))
    BY <1>1, <1>3, <2>1, PassesCounts
  <2> QED BY <2>2 DEF Target
<1>5. ASSUME NEW b \in [Address -> Int]
      PROVE  /\ Moved(b, from, to, amount) \in [Address -> Int]
             /\ Moved(b, from, to, amount)[Pool] \in Int
             /\ negatives'["pool"] = 0 => Moved(b, from, to, amount)[Pool] >= b[Pool]
  <2>1. /\ Moved(b, from, to, amount) \in [Address -> Int]
        /\ to # Pool => Moved(b, from, to, amount)[Pool] = b[Pool]
        /\ to = Pool => Moved(b, from, to, amount)[Pool] = b[Pool] + amount
    BY UserPays
  <2>2. b[Pool] \in Int
    BY DEF Address
  <2> QED BY <1>4, <2>1, <2>2
<1>6. /\ balX' \in [Address -> Int] /\ balX'[Pool] \in Int
      /\ balY' \in [Address -> Int] /\ balY'[Pool] \in Int
      /\ negatives'["pool"] = 0 => balX'[Pool] >= balX[Pool] /\ balY'[Pool] >= balY[Pool]
  <2>1. CASE TransferX(from, to, amount)
    <3>1. balX' = Moved(balX, from, to, amount) /\ balY' = balY
      BY <2>1 DEF TransferX
    <3> QED BY <1>2, <1>5, <3>1
  <2>2. CASE TransferY(from, to, amount)
    <3>1. balY' = Moved(balY, from, to, amount) /\ balX' = balX
      BY <2>2 DEF TransferY
    <3> QED BY <1>2, <1>5, <3>1
  <2> QED BY <2>1, <2>2
<1>7. Untouched({"lp"})' => Books'
  BY <1>3, <1>4, BooksUnchanged
<1>8. Untouched({"pool"})' => Backed'
  <2>1. Untouched({"pool"})' => Backed /\ negatives'["pool"] = 0
    BY <1>4, UntouchedBefore, UntouchedParts
  <2> QED BY <1>2, <1>3, <1>6, <2>1 DEF Backed
<1>9. Untouched({"pool", "deposit"})' => Solvent'
  <2>1. Untouched({"pool", "deposit"})' => Solvent /\ negatives'["pool"] = 0
    BY <1>4, UntouchedBefore, UntouchedParts
  <2> QED BY <1>2, <1>3, <1>6, <2>1 DEF Solvent
<1>10. lpBalance' \in [Address -> Int] /\ IsLedger(lpBalance')
  BY <1>2, <1>3
<1> QED BY <1>3, <1>4, <1>6, <1>7, <1>8, <1>9, <1>10, QuietSound

\* A step that touches neither tokens, nor the pool, nor LP units.
LEMMA IdleSound ==
  ASSUME Inv, UNCHANGED <<balX, balY, reserveX, reserveY, totalSupply, lpBalance, negatives>>
  PROVE  SoundStep
<1>1. Typed /\ negatives \in [Kinds -> Nat]
  BY InvParts
<1>2. Grows
  BY <1>1 DEF Grows
<1>3. /\ Untouched({"lp"})' => Books'
      /\ Untouched({"pool"})' => Backed'
      /\ Untouched({"pool", "deposit"})' => Solvent'
  <2>1. Untouched({"lp"})' => Books'
    BY <1>2, BooksUnchanged
  <2> QED BY <1>2, <2>1, UntouchedBefore DEF Backed, Solvent
<1>4. /\ balX' \in [Address -> Int] /\ balY' \in [Address -> Int]
      /\ lpBalance' \in [Address -> Int] /\ IsLedger(lpBalance')
  BY <1>1 DEF Typed
<1> QED BY <1>2, <1>3, <1>4, QuietSound

\* Every deposit is a Deposit of some integers x and y.
LEMMA AddIsDeposit ==
  ASSUME Inv, NEW caller \in Users, NEW xDesired \in Int, NEW yDesired \in Int,
         NEW xMin \in Int, NEW yMin \in Int, NEW to \in Address,
         AddLiquidity(caller, xDesired, yDesired, xMin, yMin, to)
  PROVE  \E x, y \in Int : Deposit(caller, x, y, to)
<1>1. reserveX \in Int /\ reserveY \in Int
  BY InvParts DEF Typed
<1>2. PICK a \in Settled(xDesired, yDesired, xMin, yMin, reserveX, reserveY) :
        Deposit(caller, a[1], a[2], to)
  BY DEF AddLiquidity
<1>3. a[1] \in Int /\ a[2] \in Int
  BY <1>1, SettledNumber
<1> QED BY <1>2, <1>3

\* What callers pass.
LEMMA Inputs ==
  /\ Amounts \subseteq Int /\ Amounts \cup {0} \subseteq Int /\ Mins \subseteq Int
  /\ Expirations \subseteq Nat /\ Recipients \subseteq Address
  /\ \A a \in Approvals : a[1] \in Users /\ a[2] \in Users /\ a[3] \in Int
BY InputAssumption

\* All of Next.
LEMMA NextSound == ASSUME Inv, [Next]_vars PROVE SoundStep
<1>1. ASSUME NEW caller \in Users, NEW to \in Recipients, NEW x \in Amounts, NEW y \in Amounts,
             NEW xMin \in Mins, NEW yMin \in Mins, AddLiquidity(caller, x, y, xMin, yMin, to)
      PROVE  SoundStep
  <2>1. x \in Int /\ y \in Int /\ xMin \in Int /\ yMin \in Int /\ to \in Address
    BY Inputs
  <2>2. \E m, n \in Int : Deposit(caller, m, n, to)
    BY <1>1, <2>1, AddIsDeposit
  <2> QED BY <2>1, <2>2, AddSound
<1>2. ASSUME NEW caller \in Users, NEW to \in Recipients, NEW liquidity \in Amounts,
             NEW xMin \in Mins, NEW yMin \in Mins,
             RemoveLiquidity(caller, liquidity, xMin, yMin, to)
      PROVE  SoundStep
  <2>1. liquidity \in Int /\ xMin \in Int /\ yMin \in Int /\ to \in Address
    BY Inputs
  <2> QED BY <1>2, <2>1, RemoveSound
<1>3. ASSUME NEW caller \in Users, NEW to \in Recipients, NEW xOut \in Amounts \cup {0},
             NEW yOut \in Amounts \cup {0}, Swap(caller, xOut, yOut, to)
      PROVE  SoundStep
  <2>1. xOut \in Int /\ yOut \in Int /\ to \in Address
    BY Inputs
  <2> QED BY <1>3, <2>1, SwapSound
<1>4. CASE Sync
  BY <1>4, SyncSound
<1>5. ASSUME NEW to \in Recipients, Skim(to)
      PROVE  SoundStep
  BY Inputs, <1>5, SkimSound
<1>6. ASSUME NEW from \in Users, NEW to \in Recipients, NEW amount \in Amounts,
             LpTransfer(from, to, amount)
      PROVE  SoundStep
  BY Inputs, <1>6, LpMoveSound DEF LpTransfer
<1>7. ASSUME NEW from \in Users, NEW to \in Recipients, NEW amount \in Amounts,
             TransferX(from, to, amount) \/ TransferY(from, to, amount)
      PROVE  SoundStep
  BY Inputs, <1>7, TransferSound
<1>8. ASSUME NEW spender \in Users, NEW from \in Users, NEW to \in Recipients,
             NEW amount \in Amounts, LpTransferFrom(spender, from, to, amount)
      PROVE  SoundStep
  BY Inputs, <1>8, LpMoveSound DEF LpTransferFrom
<1>9. ASSUME NEW a \in Approvals, NEW exp \in Expirations, LpApprove(a[1], a[2], a[3], exp)
      PROVE  SoundStep
  BY <1>9, IdleSound DEF LpApprove
<1>10. CASE CloseLedger
  BY <1>10, IdleSound DEF CloseLedger
<1>11. CASE UNCHANGED vars
  BY <1>11, IdleSound DEF vars
<1> QED BY <1>1, <1>2, <1>3, <1>4, <1>5, <1>6, <1>7, <1>8, <1>9, <1>10, <1>11 DEF Next

-----------------------------------------------------------------------------
(* The invariant is inductive. *)

\* A new pair satisfies the invariant.
LEMMA InitInv == Init => Inv
<1> SUFFICES ASSUME Init PROVE Inv
  OBVIOUS
<1>1. Pool \in Address /\ Users \subseteq Address /\ Pool \notin Users
  BY AddressAssumption DEF Address
<1>2. balX \in [Address -> Int] /\ balX[Pool] = 0
  <2>1. \A a \in Users : EndowX[a] \in Int
    BY EndowmentAssumption
  <2> QED BY <1>1, <2>1 DEF Init
<1>3. balY \in [Address -> Int] /\ balY[Pool] = 0
  <2>1. \A a \in Users : EndowY[a] \in Int
    BY EndowmentAssumption
  <2> QED BY <1>1, <2>1 DEF Init
<1>4. /\ reserveX = 0 /\ reserveY = 0 /\ totalSupply = 0
      /\ lpBalance = [a \in Address |-> 0] /\ lpBalance \in [Address -> Int]
      /\ \A a \in Address : lpBalance[a] = 0
  BY DEF Init
<1>5. IsLedger(lpBalance) /\ Total(lpBalance) = 0
  BY <1>4, TotalOfZero
<1>6. /\ lpAllowance \in [Users \X Users -> [amount : Int, exp : Nat]]
      /\ seq \in 0 .. MaxSeq /\ signer \in Users /\ negatives \in [Kinds -> Nat]
  BY InputAssumption DEF Init
<1>7. TypeOK
  BY <1>2, <1>3, <1>4, <1>6 DEF TypeOK
<1>8. LpAccounted /\ ReservesBacked /\ SupplyBounded
  BY <1>2, <1>3, <1>4, <1>5 DEF LpAccounted, ReservesBacked, SupplyBounded
<1> QED BY <1>5, <1>7, <1>8 DEF Inv

\* Allowances, the ledger number and the signer keep their types in every step.
LEMMA RestTyped ==
  ASSUME Inv, [Next]_vars
  PROVE  /\ lpAllowance' \in [Users \X Users -> [amount : Int, exp : Nat]]
         /\ seq' \in 0 .. MaxSeq /\ signer' \in Users
<1> DEFINE Rest == /\ lpAllowance' \in [Users \X Users -> [amount : Int, exp : Nat]]
                   /\ seq' \in 0 .. MaxSeq /\ signer' \in Users
<1>0. /\ lpAllowance \in [Users \X Users -> [amount : Int, exp : Nat]]
      /\ seq \in 0 .. MaxSeq /\ MaxSeq \in Nat /\ signer \in Users
  BY InputAssumption DEF Inv, TypeOK
<1>1. ASSUME UNCHANGED <<lpAllowance, seq>>, signer' \in Users PROVE Rest
  BY <1>0, <1>1
<1>2. ASSUME NEW spender \in Users, NEW from \in Users, NEW to \in Recipients,
             NEW amount \in Amounts, LpTransferFrom(spender, from, to, amount)
      PROVE  Rest
  <2>1. <<from, spender>> \in Users \X Users /\ amount \in Int
    BY Inputs
  <2> DEFINE old == lpAllowance[<<from, spender>>]
  <2>2. old \in [amount : Int, exp : Nat]
    BY <1>0, <2>1
  <2>3. [old EXCEPT !.amount = @ - amount] \in [amount : Int, exp : Nat]
    <3> HIDE DEF old
    <3> QED BY <2>1, <2>2
  <2>4. /\ lpAllowance' = [lpAllowance EXCEPT ![<<from, spender>>].amount = @ - amount]
        /\ seq' = seq /\ signer' = spender
    BY <1>2 DEF LpTransferFrom
  <2>5. lpAllowance' = [lpAllowance EXCEPT ![<<from, spender>>] =
                          [old EXCEPT !.amount = @ - amount]]
    BY <2>4
  <2> HIDE DEF old
  <2> QED BY <1>0, <2>3, <2>4, <2>5
<1>3. ASSUME NEW a \in Approvals, NEW exp \in Expirations, LpApprove(a[1], a[2], a[3], exp)
      PROVE  Rest
  <2>1. a[1] \in Users /\ a[2] \in Users /\ a[3] \in Int /\ exp \in Nat
    BY Inputs
  <2> QED BY <1>0, <1>3, <2>1 DEF LpApprove
<1>4. CASE CloseLedger
  BY <1>0, <1>4 DEF CloseLedger
<1>5. ASSUME \/ \E caller \in Users, to \in Recipients, x, y \in Amounts, xMin, yMin \in Mins :
                  AddLiquidity(caller, x, y, xMin, yMin, to)
             \/ \E caller \in Users, to \in Recipients, liquidity \in Amounts,
                   xMin, yMin \in Mins : RemoveLiquidity(caller, liquidity, xMin, yMin, to)
             \/ \E caller \in Users, to \in Recipients, xOut, yOut \in Amounts \cup {0} :
                  Swap(caller, xOut, yOut, to)
             \/ Sync
             \/ \E to \in Recipients : Skim(to)
             \/ \E from \in Users, to \in Recipients, amount \in Amounts :
                  \/ LpTransfer(from, to, amount)
                  \/ TransferX(from, to, amount)
                  \/ TransferY(from, to, amount)
             \/ UNCHANGED vars
      PROVE  UNCHANGED <<lpAllowance, seq>> /\ signer' \in Users
  BY <1>0, <1>5 DEF AddLiquidity, Deposit, RemoveLiquidity, Swap, Sync, Skim, LpTransfer,
                    TransferX, TransferY, vars
<1> QED BY <1>1, <1>2, <1>3, <1>4, <1>5 DEF Next

\* Every step keeps the invariant.
LEMMA NextInv == ASSUME Inv, [Next]_vars PROVE Inv'
<1>1. SoundStep
  BY NextSound
<1>2. TypeOK'
  <2>1. /\ Typed' /\ negatives' \in [Kinds -> Nat]
        /\ Untouched({"lp"})' => Books'
        /\ Untouched({"pool", "deposit"})' => Solvent'
    BY <1>1 DEF SoundStep, Grows
  <2> QED BY <2>1, RestTyped DEF TypeOK, Typed, Books, Solvent
<1>3. IsLedger(lpBalance') /\ LpAccounted'
  BY <1>1 DEF SoundStep, Typed, Books, LpAccounted
<1>4. ReservesBacked'
  BY <1>1 DEF SoundStep, ReservesBacked, Backed
<1>5. SupplyBounded'
  <2> SUFFICES ASSUME Intact' PROVE totalSupply' * totalSupply' <= reserveX' * reserveY'
    BY DEF SupplyBounded
  <2>1. Typed /\ Typed' /\ Grows /\ KeptStep
    BY <1>1, InvParts DEF SoundStep
  <2>2. Books /\ Solvent /\ Bounded
    BY <2>1, UntouchedBefore
  <2>3. Books' /\ Solvent'
    BY <1>1, UntouchedParts DEF SoundStep
  <2>4. CASE totalSupply = 0
    BY <2>1, <2>4 DEF KeptStep
  <2>5. CASE totalSupply # 0
    <3>1. /\ reserveX \in Nat /\ reserveY \in Nat /\ totalSupply \in Nat \ {0}
          /\ totalSupply * totalSupply <= reserveX * reserveY
          /\ reserveX' \in Nat /\ reserveY' \in Nat /\ totalSupply' \in Nat
      BY <2>1, <2>2, <2>3, <2>5 DEF Typed, Books, Solvent, Bounded
    <3>2. KeepsValue
      BY <2>1, <3>1 DEF KeptStep
    <3> QED BY <3>1, <3>2, ValueBoundsSupply DEF KeepsValue
  <2> QED BY <2>4, <2>5
<1> QED BY <1>2, <1>3, <1>4, <1>5 DEF Inv

\* Every reachable state of a pair satisfies the inductive invariant.
THEOREM InvHolds == Spec => []Inv
<1>1. Init => Inv
  BY InitInv
<1>2. Inv /\ [Next]_vars => Inv'
  BY NextInv
<1> QED BY <1>1, <1>2, PTL DEF Spec

-----------------------------------------------------------------------------
(* The theorems. *)

\* The pool is never in debt, nor are its reserves below zero, until a negative
\* amount of tokens is transferred to it or deposited into it; no holder of LP
\* units is, nor is the supply, until a negative amount of units is transferred.
THEOREM TypeCorrect == Spec => []TypeOK
<1>1. Inv => TypeOK
  BY DEF Inv
<1> QED BY <1>1, InvHolds, PTL

\* The LP supply is what the LP balances sum to, plus what lock_forever took
\* out of circulation with the first deposit, until a negative amount of LP
\* units is transferred; tokens may be transferred and swapped in any amounts.
THEOREM LpUnitsAccounted == Spec => []LpAccounted
<1>1. Inv => LpAccounted
  BY DEF Inv
<1> QED BY <1>1, InvHolds, PTL

\* The token balances of the pool cover its reserves until a negative amount
\* of tokens is transferred to the pool; deposits, swaps and transfers of LP
\* units may be of any amounts.
THEOREM ReservesAreBacked == Spec => []ReservesBacked
<1>1. Inv => ReservesBacked
  BY DEF Inv
<1> QED BY <1>1, InvHolds, PTL

\* The LP supply of an intact pool never exceeds the geometric mean of its
\* reserves.
THEOREM SupplyIsBounded == Spec => []SupplyBounded
<1>1. Inv => SupplyBounded
  BY DEF Inv
<1> QED BY <1>1, InvHolds, PTL

\* While LP units of an intact pool exist neither reserve is empty.
THEOREM PoolNeverDrained ==
  Spec => [](Intact /\ totalSupply > 0 => reserveX > 0 /\ reserveY > 0)
<1>1. Inv => (Intact /\ totalSupply > 0 => reserveX > 0 /\ reserveY > 0)
  <2> SUFFICES ASSUME Inv, Intact, totalSupply > 0 PROVE reserveX > 0 /\ reserveY > 0
    OBVIOUS
  <2>1. /\ reserveX \in Nat /\ reserveY \in Nat /\ totalSupply \in Nat \ {0}
        /\ totalSupply * totalSupply <= reserveX * reserveY
    BY InvParts DEF Typed, Books, Solvent, Bounded
  <2>2. reserveX \in Nat \ {0} /\ reserveY \in Nat \ {0}
    BY <2>1, PositiveReserves
  <2> QED BY <2>2
<1> QED BY <1>1, InvHolds, PTL

\* No transaction that leaves the pool intact lowers the product of the
\* reserves behind one LP unit: no swap does, with a negative output either.
THEOREM ShareValueIsKept == Spec => ShareValueKept
<1> DEFINE Kept == Intact /\ Intact' /\ totalSupply > 0 =>
                     reserveX' * reserveY' * totalSupply * totalSupply
                       >= reserveX * reserveY * totalSupply' * totalSupply'
<1>1. ASSUME Inv, [Next]_vars PROVE Kept
  <2> SUFFICES ASSUME Intact, Intact', totalSupply > 0
               PROVE  reserveX' * reserveY' * totalSupply * totalSupply
                        >= reserveX * reserveY * totalSupply' * totalSupply'
    OBVIOUS
  <2>1. SoundStep
    BY <1>1, NextSound
  <2>2. KeepsValue /\ Typed /\ Typed'
    BY <1>1, <2>1, InvParts DEF SoundStep, KeptStep
  <2>3. /\ reserveX \in Int /\ reserveY \in Int /\ totalSupply \in Int
        /\ reserveX' \in Int /\ reserveY' \in Int /\ totalSupply' \in Int
    BY <2>2 DEF Typed
  <2> QED BY <2>2, <2>3 DEF KeepsValue
<1>2. Spec => [][Kept]_vars
  <2> HIDE DEF Kept
  <2> QED BY <1>1, InvHolds, PTL DEF Spec
<1>3. ShareValueKept <=> [][Kept]_vars
  BY PTL DEF ShareValueKept
<1> QED BY <1>2, <1>3

\* The minimum that the first deposit locks stays in the supply for ever,
\* unless a negative amount of LP units is transferred.
THEOREM LiquidityStays ==
  Spec => [][Untouched({"lp"})' /\ totalSupply > 0 => totalSupply' >= MinLiquidity]_vars
<1>1. ASSUME Inv, [Next]_vars
      PROVE  [Untouched({"lp"})' /\ totalSupply > 0 => totalSupply' >= MinLiquidity]_vars
  BY <1>1, NextSound DEF SoundStep
<1> QED BY <1>1, InvHolds, PTL DEF Spec

-----------------------------------------------------------------------------
(* Trades at the quoted price. *)

\* The check that ends a swap, read for a trade that brings bIn - rIn units in
\* on one side and takes rOut - bOut units out on the other.
LEMMA CheckedTrade ==
  ASSUME NEW rIn \in Nat \ {0}, NEW rOut \in Nat, NEW bIn \in Nat, NEW bOut \in Nat,
         rIn < bIn, bOut < rOut, NEW back \in Nat, back <= bOut,
         Adjusted(bIn, bIn - rIn) * Adjusted(bOut, back) >= rIn * FeeDen * (rOut * FeeDen)
  PROVE  rOut - bOut <= GetAmountOut(bIn - rIn, rIn, rOut)
<1> DEFINE in == bIn - rIn
           out == rOut - bOut
<1>1. FeeDen \in Nat \ {0} /\ FeeNum \in Nat
  BY FeeAssumption
<1>2. in \in Nat \ {0} /\ in <= bIn /\ rIn + in = bIn
      /\ out \in Nat /\ out <= rOut /\ rOut - out = bOut
  OBVIOUS
<1>3. Adjusted(bIn, in) \in Nat
  BY <1>2, AdjustedBound
<1>4. Adjusted(bOut, back) \in Nat /\ Adjusted(bOut, back) <= bOut * FeeDen
        /\ bOut * FeeDen \in Nat
  BY <1>1, AdjustedBound
<1>5. Adjusted(bIn, in) * Adjusted(bOut, back) <= Adjusted(bIn, in) * (bOut * FeeDen)
  BY <1>3, <1>4, ProductMonotone
<1>6. Adjusted(bIn, in) * (bOut * FeeDen) >= rIn * FeeDen * (rOut * FeeDen)
  <2>1. /\ Adjusted(bIn, in) * Adjusted(bOut, back) \in Int
        /\ Adjusted(bIn, in) * (bOut * FeeDen) \in Int
    BY <1>3, <1>4
  <2>2. rIn * FeeDen * (rOut * FeeDen) \in Int
    BY <1>1
  <2> QED BY <1>5, <2>1, <2>2
<1>7. ((rIn + in) * FeeDen - in * (FeeDen - FeeNum)) * ((rOut - out) * FeeDen)
        >= rIn * FeeDen * (rOut * FeeDen)
  BY <1>2, <1>6 DEF Adjusted
<1> HIDE DEF in, out
<1>8. out <= GetAmountOut(in, rIn, rOut)
  BY <1>2, <1>7, CheckIsQuote
<1> QED BY <1>8 DEF in, out

\* Both directions of a trade, as TradesAtQuotedPrice states them of a step.
FairStep ==
  /\ FairTrade(reserveX' - reserveX, reserveY - reserveY', reserveX, reserveY)
  /\ FairTrade(reserveY' - reserveY, reserveX - reserveX', reserveY, reserveX)

\* An output of at most get_amount_out of the input is a fair trade.
LEMMA FairIfBounded ==
  ASSUME NEW r \in Int, NEW r2 \in Int, NEW s \in Int, NEW s2 \in Int,
         r < r2 /\ s2 < s => s - s2 <= GetAmountOut(r2 - r, r, s)
  PROVE  FairTrade(r2 - r, s - s2, r, s)
<1>1. r2 - r > 0 => r < r2
  OBVIOUS
<1>2. s - s2 > 0 => s2 < s
  OBVIOUS
<1> QED BY <1>1, <1>2 DEF FairTrade

\* A step that lowers neither reserve is no trade.
LEMMA NoTrade ==
  ASSUME NEW r \in Int, NEW r2 \in Int, NEW s \in Int, NEW s2 \in Int,
         r <= r2, s <= s2
  PROVE  FairTrade(r2 - r, s - s2, r, s) /\ FairTrade(s2 - s, r - r2, s, r)
<1>1. ~(r < r2 /\ s2 < s)
  OBVIOUS
<1>2. ~(s < s2 /\ r2 < r)
  OBVIOUS
<1>3. FairTrade(r2 - r, s - s2, r, s)
  BY <1>1, FairIfBounded
<1>4. FairTrade(s2 - s, r - r2, s, r)
  BY <1>2, FairIfBounded
<1> QED BY <1>3, <1>4

\* A step that lowers no reserve trades nothing.
LEMMA NoTradeStep ==
  ASSUME reserveX \in Int, reserveX' \in Int, reserveY \in Int, reserveY' \in Int,
         reserveX <= reserveX', reserveY <= reserveY'
  PROVE  FairStep
<1>1. /\ FairTrade(reserveX' - reserveX, reserveY - reserveY', reserveX, reserveY)
      /\ FairTrade(reserveY' - reserveY, reserveX - reserveX', reserveY, reserveX)
  BY NoTrade
<1> QED BY <1>1 DEF FairStep

\* Without a negative output a swap is fair: the side that loses units is the
\* one the caller asked for.
LEMMA SwapIsFair ==
  ASSUME Typed, Backed, Pool \in Address, NEW caller \in Users, NEW xOut \in Nat,
         NEW yOut \in Nat, NEW to \in Address, Swap(caller, xOut, yOut, to)
  PROVE  FairStep
<1>1. /\ xOut < reserveX /\ yOut < reserveY /\ ~(xOut > 0 /\ yOut > 0)
      /\ Typed' /\ reserveX' = balX'[Pool] /\ reserveY' = balY'[Pool]
      /\ reserveX' >= balX[Pool] - xOut /\ reserveY' >= balY[Pool] - yOut
      /\ balX[Pool] >= 0 => reserveX' >= 0
      /\ balY[Pool] >= 0 => reserveY' >= 0
      /\ KHolds(reserveX, reserveY, reserveX', reserveY',
                AmountIn(reserveX', reserveX, xOut), AmountIn(reserveY', reserveY, yOut))
  BY SwapWrites
<1>2. /\ reserveX \in Nat \ {0} /\ reserveY \in Nat \ {0}
      /\ balX[Pool] \in Nat /\ reserveX <= balX[Pool]
      /\ balY[Pool] \in Nat /\ reserveY <= balY[Pool]
  BY <1>1 DEF Typed, Backed
<1>3. /\ reserveX' \in Nat /\ reserveX' >= reserveX - xOut
      /\ reserveY' \in Nat /\ reserveY' >= reserveY - yOut
  BY <1>1, <1>2 DEF Typed
<1>4. PICK xIn, yIn :
        /\ xIn = AmountIn(reserveX', reserveX, xOut)
        /\ yIn = AmountIn(reserveY', reserveY, yOut)
        /\ Adjusted(reserveX', xIn) * Adjusted(reserveY', yIn)
             >= reserveX * FeeDen * (reserveY * FeeDen)
  BY <1>1 DEF KHolds
<1>5. xIn \in Nat /\ xIn <= reserveX' /\ yIn \in Nat /\ yIn <= reserveY'
  BY <1>1, <1>2, <1>3, <1>4 DEF AmountIn
<1>6. FairTrade(reserveX' - reserveX, reserveY - reserveY', reserveX, reserveY)
  <2>1. ASSUME reserveX < reserveX', reserveY' < reserveY
        PROVE  reserveY - reserveY' <= GetAmountOut(reserveX' - reserveX, reserveX, reserveY)
    <3>1. xOut = 0
      BY <1>1, <1>2, <1>3, <2>1
    <3>2. xIn = reserveX' - reserveX
      BY <1>2, <1>3, <1>4, <2>1, <3>1 DEF AmountIn
    <3> QED BY <1>2, <1>3, <1>4, <1>5, <2>1, <3>2, CheckedTrade
  <2>2. reserveX \in Int /\ reserveX' \in Int /\ reserveY \in Int /\ reserveY' \in Int
    BY <1>2, <1>3
  <2> QED BY <2>1, <2>2, FairIfBounded
<1>7. FairTrade(reserveY' - reserveY, reserveX - reserveX', reserveY, reserveX)
  <2>1. ASSUME reserveY < reserveY', reserveX' < reserveX
        PROVE  reserveX - reserveX' <= GetAmountOut(reserveY' - reserveY, reserveY, reserveX)
    <3>1. yOut = 0
      BY <1>1, <1>2, <1>3, <2>1
    <3>2. yIn = reserveY' - reserveY
      BY <1>2, <1>3, <1>4, <2>1, <3>1 DEF AmountIn
    <3>4. Adjusted(reserveY', yIn) * Adjusted(reserveX', xIn)
            >= reserveY * FeeDen * (reserveX * FeeDen)
      <4>1. Adjusted(reserveX', xIn) \in Nat /\ Adjusted(reserveY', yIn) \in Nat
        BY <1>3, <1>5, AdjustedBound
      <4>2. reserveX * FeeDen \in Nat /\ reserveY * FeeDen \in Nat
        BY <1>2, FeeAssumption
      <4> QED BY <1>4, <4>1, <4>2
    <3> QED BY <1>2, <1>3, <1>4, <1>5, <2>1, <3>2, <3>4, CheckedTrade
  <2>2. reserveY \in Int /\ reserveY' \in Int /\ reserveX \in Int /\ reserveX' \in Int
    BY <1>2, <1>3
  <2> QED BY <2>1, <2>2, FairIfBounded
<1> QED BY <1>6, <1>7 DEF FairStep

\* A deposit raises the supply.
LEMMA DepositRaises ==
  ASSUME Typed, Pool \in Address, NEW caller \in Users, NEW x \in Int, NEW y \in Int,
         NEW to \in Address, Deposit(caller, x, y, to)
  PROVE  totalSupply' > totalSupply
<1> DEFINE lp == Minted(x, y, reserveX, reserveY, totalSupply)
<1>1. lp \in Int /\ lp > 0 /\ Locked \in Nat /\ totalSupply' = totalSupply + Locked + lp
  BY DepositWrites
<1>2. totalSupply \in Int
  BY DEF Typed
<1> HIDE DEF lp
<1> QED BY <1>1, <1>2

\* Of the steps that keep the supply only a swap trades.
LEMMA NextIsFair ==
  ASSUME Inv, [Next]_vars, Untouched({"pool"}), negatives' = negatives,
         totalSupply' = totalSupply
  PROVE  FairStep
<1>1. /\ Typed /\ Backed /\ Pool \in Address /\ negatives \in [Kinds -> Nat]
      /\ reserveX \in Int /\ reserveY \in Int /\ balX[Pool] \in Int /\ balY[Pool] \in Int
  BY InvParts DEF Typed
<1>2. ASSUME NEW caller \in Users, NEW to \in Recipients, NEW x \in Amounts, NEW y \in Amounts,
             NEW xMin \in Mins, NEW yMin \in Mins, AddLiquidity(caller, x, y, xMin, yMin, to)
      PROVE  FALSE
  <2>1. x \in Int /\ y \in Int /\ xMin \in Int /\ yMin \in Int /\ to \in Address
    BY Inputs
  <2>2. PICK m \in Int, n \in Int : Deposit(caller, m, n, to)
    BY <1>2, <2>1, AddIsDeposit
  <2>3. totalSupply' > totalSupply
    BY <1>1, <2>1, <2>2, DepositRaises
  <2> QED BY <1>1, <2>3 DEF Typed
<1>3. ASSUME NEW caller \in Users, NEW to \in Recipients, NEW liquidity \in Amounts,
             NEW xMin \in Mins, NEW yMin \in Mins,
             RemoveLiquidity(caller, liquidity, xMin, yMin, to)
      PROVE  FALSE
  <2>1. liquidity \in Int /\ xMin \in Int /\ yMin \in Int /\ to \in Address
    BY Inputs
  <2>2. liquidity > 0 /\ totalSupply' = totalSupply - liquidity
    BY <1>3 DEF RemoveLiquidity
  <2> QED BY <1>1, <2>1, <2>2 DEF Typed
<1>4. ASSUME NEW caller \in Users, NEW to \in Recipients, NEW xOut \in Amounts \cup {0},
             NEW yOut \in Amounts \cup {0}, Swap(caller, xOut, yOut, to)
      PROVE  FairStep
  <2>1. xOut \in Int /\ yOut \in Int /\ to \in Address
    BY Inputs
  <2>2. Passes("swap", {xOut, yOut})
    BY <1>4 DEF Swap
  <2>3. \A n \in {xOut, yOut} : ~(n < 0)
    BY <1>1, <2>2, PassesCounts DEF Kinds
  <2>4. xOut \in Nat /\ yOut \in Nat
    BY <2>1, <2>3
  <2> QED BY <1>1, <1>4, <2>1, <2>4, SwapIsFair
<1>5. CASE Sync
  <2>1. reserveX' = balX[Pool] /\ reserveY' = balY[Pool]
    BY <1>5 DEF Sync, SetReservesToBalances
  <2>2. reserveX' \in Int /\ reserveY' \in Int /\ reserveX <= reserveX' /\ reserveY <= reserveY'
    BY <1>1, <2>1 DEF Backed
  <2> QED BY <1>1, <2>2, NoTradeStep
<1>6. CASE UNCHANGED <<reserveX, reserveY>>
  <2>1. reserveX' \in Int /\ reserveY' \in Int /\ reserveX <= reserveX' /\ reserveY <= reserveY'
    BY <1>1, <1>6
  <2> QED BY <1>1, <2>1, NoTradeStep
<1>7. ASSUME \/ \E to \in Recipients : Skim(to)
             \/ \E from \in Users, to \in Recipients, amount \in Amounts :
                  \/ LpTransfer(from, to, amount)
                  \/ TransferX(from, to, amount)
                  \/ TransferY(from, to, amount)
             \/ \E spender, from \in Users, to \in Recipients, amount \in Amounts :
                  LpTransferFrom(spender, from, to, amount)
             \/ \E a \in Approvals, exp \in Expirations : LpApprove(a[1], a[2], a[3], exp)
             \/ CloseLedger
             \/ UNCHANGED vars
      PROVE  UNCHANGED <<reserveX, reserveY>>
  BY <1>7 DEF Skim, LpTransfer, TransferX, TransferY, LpTransferFrom, LpApprove,
              CloseLedger, vars
<1> QED BY <1>2, <1>3, <1>4, <1>5, <1>6, <1>7 DEF Next

\* No transaction that passes no negative amount trades at a better price than
\* get_amount_out, in a pool whose reserves are backed: what the swap check
\* accepts and what the router quotes are the same set of trades.
THEOREM TradesAreFair == Spec => TradesAtQuotedPrice
<1> DEFINE Fair == Untouched({"pool"}) /\ negatives' = negatives /\ totalSupply' = totalSupply
                     => FairStep
<1>1. ASSUME Inv, [Next]_vars PROVE Fair
  BY <1>1, NextIsFair
<1>2. Spec => [][Fair]_vars
  <2> HIDE DEF Fair
  <2> QED BY <1>1, InvHolds, PTL DEF Spec
<1>3. TradesAtQuotedPrice <=> [][Fair]_vars
  BY PTL DEF TradesAtQuotedPrice, FairStep
<1> QED BY <1>2, <1>3

-----------------------------------------------------------------------------
(* The refinement of the vault. *)

\* A deposit of amounts that are not negative opens the vault or joins it.
LEMMA DepositRefines ==
  ASSUME Typed, Books, Backed, Solvent, Bounded, Pool \in Address, NEW caller \in Users,
         NEW x \in Nat, NEW y \in Nat, NEW to \in Address, Deposit(caller, x, y, to)
  PROVE  V!Open \/ V!Join
<1> DEFINE lp == Minted(x, y, reserveX, reserveY, totalSupply)
<1>1. totalSupply \in Nat /\ MinLiquidity \in Nat
  BY MinLiquidityAssumption DEF Typed, Books
<1>2. lp \in Int /\ lp > 0 /\ totalSupply' = totalSupply + Locked + lp /\ Typed'
  BY DepositWrites
<1>3. KeptStep /\ (totalSupply > 0 => KeepsSides)
  BY DepositKeepsValue
<1> HIDE DEF lp
<1>4. CASE totalSupply = 0
  <2>1. totalSupply' > MinLiquidity
    BY <1>1, <1>2, <1>4 DEF Locked
  <2>2. totalSupply' * totalSupply' <= reserveX' * reserveY'
    BY <1>3, <1>4 DEF KeptStep
  <2> QED BY <1>4, <2>1, <2>2 DEF V!Open
<1>5. CASE totalSupply > 0
  <2>1. totalSupply' > totalSupply
    BY <1>1, <1>2, <1>5 DEF Locked
  <2>2. V!KeepsEachSide
    BY <1>2, <1>3, <1>5 DEF KeepsSides, Typed, V!KeepsEachSide
  <2> QED BY <1>5, <2>1, <2>2 DEF V!Join
<1> QED BY <1>1, <1>4, <1>5

\* A withdrawal leaves the vault.
LEMMA RemoveRefines ==
  ASSUME Typed, Books, Backed, Solvent, Bounded, Pool \in Address, NEW caller \in Users,
         NEW liquidity \in Int, NEW xMin \in Int, NEW yMin \in Int, NEW to \in Address,
         RemoveLiquidity(caller, liquidity, xMin, yMin, to)
  PROVE  V!Leave
<1>1. Typed' /\ liquidity \in Nat \ {0} /\ totalSupply' = totalSupply - liquidity
  BY RemoveWrites
<1>2. totalSupply' >= MinLiquidity /\ KeepsSides
  BY RemoveKeepsBooks, RemoveKeepsValue
<1>3. totalSupply' < totalSupply
  BY <1>1 DEF Typed
<1>4. V!KeepsEachSide
  BY <1>1, <1>2 DEF KeepsSides, Typed, V!KeepsEachSide
<1> QED BY <1>2, <1>3, <1>4 DEF V!Leave

\* A swap is a trade, with a negative output too.
LEMMA SwapRefines ==
  ASSUME Typed, Backed, Solvent, Pool \in Address, NEW caller \in Users, NEW xOut \in Int,
         NEW yOut \in Int, NEW to \in Address, Swap(caller, xOut, yOut, to)
  PROVE  V!Trade
<1>1. /\ reserveX' \in Nat /\ reserveY' \in Nat
      /\ reserveX * reserveY <= reserveX' * reserveY'
  BY SwapKeepsProduct
<1>2. totalSupply' = totalSupply /\ reserveX \in Int /\ reserveY \in Int
  BY SwapWrites DEF Typed
<1>3. reserveX' * reserveY' >= reserveX * reserveY
  BY <1>1, <1>2
<1>4. reserveX' >= 0 /\ reserveY' >= 0
  BY <1>1
<1> QED BY <1>2, <1>3, <1>4, Zenon DEF V!Trade

\* Every step that leaves the pool intact is a step of the intact vault or
\* leaves it as it is.
LEMMA IntactRefines ==
  ASSUME Inv, [Next]_vars, Intact'
  PROVE  Intact /\ (V!Open \/ V!Join \/ V!Leave \/ V!Gift \/ V!Trade
                    \/ UNCHANGED <<reserveX, reserveY, totalSupply>>)
<1> DEFINE Kept == UNCHANGED <<reserveX, reserveY, totalSupply>>
           Goal == V!Open \/ V!Join \/ V!Leave \/ V!Gift \/ V!Trade \/ Kept
<1>0. Grows
  BY NextSound DEF SoundStep
<1>1. /\ Intact /\ Typed /\ Books /\ Backed /\ Solvent /\ Bounded
      /\ Pool \in Address /\ negatives \in [Kinds -> Nat] /\ negatives'["deposit"] = 0
  BY <1>0, InvParts, UntouchedBefore, UntouchedParts
<1>2. ASSUME NEW caller \in Users, NEW to \in Recipients, NEW x \in Amounts, NEW y \in Amounts,
             NEW xMin \in Mins, NEW yMin \in Mins, AddLiquidity(caller, x, y, xMin, yMin, to)
      PROVE  V!Open \/ V!Join
  <2>1. x \in Int /\ y \in Int /\ xMin \in Int /\ yMin \in Int /\ to \in Address
    BY Inputs
  <2>2. PICK m \in Int, n \in Int : Deposit(caller, m, n, to)
    BY <1>2, <2>1, AddIsDeposit
  <2>3. Passes("deposit", {m, n})
    BY <2>2 DEF Deposit
  <2>4. \A k \in {m, n} : ~(k < 0)
    BY <1>1, <2>3, PassesCounts DEF Kinds
  <2>5. m \in Nat /\ n \in Nat
    BY <2>2, <2>4
  <2> QED BY <1>1, <2>1, <2>2, <2>5, DepositRefines
<1>3. ASSUME NEW caller \in Users, NEW to \in Recipients, NEW liquidity \in Amounts,
             NEW xMin \in Mins, NEW yMin \in Mins,
             RemoveLiquidity(caller, liquidity, xMin, yMin, to)
      PROVE  V!Leave
  <2>1. liquidity \in Int /\ xMin \in Int /\ yMin \in Int /\ to \in Address
    BY Inputs
  <2> QED BY <1>1, <1>3, <2>1, RemoveRefines
<1>4. ASSUME NEW caller \in Users, NEW to \in Recipients, NEW xOut \in Amounts \cup {0},
             NEW yOut \in Amounts \cup {0}, Swap(caller, xOut, yOut, to)
      PROVE  V!Trade
  <2>1. xOut \in Int /\ yOut \in Int /\ to \in Address
    BY Inputs
  <2> QED BY <1>1, <1>4, <2>1, SwapRefines
<1>5. ASSUME Sync PROVE V!Gift
  <2>1. reserveX' = balX[Pool] /\ reserveY' = balY[Pool] /\ totalSupply' = totalSupply
    BY <1>5 DEF Sync, SetReservesToBalances
  <2>2. reserveX' >= reserveX /\ reserveY' >= reserveY
    BY <1>1, <2>1 DEF Typed, Backed
  <2> QED BY <2>1, <2>2 DEF V!Gift
<1>6. ASSUME \/ \E to \in Recipients : Skim(to)
             \/ \E from \in Users, to \in Recipients, amount \in Amounts :
                  \/ LpTransfer(from, to, amount)
                  \/ TransferX(from, to, amount)
                  \/ TransferY(from, to, amount)
             \/ \E spender, from \in Users, to \in Recipients, amount \in Amounts :
                  LpTransferFrom(spender, from, to, amount)
             \/ \E a \in Approvals, exp \in Expirations : LpApprove(a[1], a[2], a[3], exp)
             \/ CloseLedger
             \/ UNCHANGED vars
      PROVE  Kept
  BY <1>6 DEF Skim, LpTransfer, TransferX, TransferY, LpTransferFrom, LpApprove,
              CloseLedger, vars
<1>7. Goal
  <2> HIDE DEF Kept
  <2> QED BY <1>2, <1>3, <1>4, <1>5, <1>6 DEF Next
<1> QED BY <1>1, <1>7

\* Every step of the pair is a step of the vault or leaves it as it is.
LEMMA NextRefines == ASSUME Inv, [Next]_vars PROVE [V!Next]_(V!vault)
<1>1. CASE ~Intact'
  BY <1>1 DEF V!Next, V!Damage
<1>2. CASE Intact'
  <2>1. Intact /\ (V!Open \/ V!Join \/ V!Leave \/ V!Gift \/ V!Trade
                   \/ UNCHANGED <<reserveX, reserveY, totalSupply>>)
    BY <1>2, IntactRefines
  <2>2. CASE V!Open \/ V!Join \/ V!Leave \/ V!Gift \/ V!Trade
    <3>1. Intact /\ Intact'
      BY <1>2, <2>1
    <3> QED BY <2>2, <3>1 DEF V!Next
  <2>3. CASE UNCHANGED <<reserveX, reserveY, totalSupply>>
    <3>1. Intact' = Intact
      BY <1>2, <2>1 DEF Intact, Untouched
    <3> QED BY <2>3, <3>1 DEF V!vault
  <2> QED BY <2>1, <2>2, <2>3
<1> QED BY <1>1, <1>2

\* A pair implements the vault: whatever is done to an intact pool, in any
\* order and by anybody, neither token behind an LP unit falls when units are
\* minted or burned, and the rest are gifts and trades that keep the product.
THEOREM PairIsAVault == Spec => ImplementsVault
<1>1. Init => V!Init
  <2> SUFFICES ASSUME Init PROVE V!Init
    OBVIOUS
  <2>1. Intact = TRUE
    BY DEF Init, Intact, Untouched, Kinds
  <2> QED BY <2>1 DEF Init, V!Init
<1>2. Inv /\ [Next]_vars => [V!Next]_(V!vault)
  BY NextRefines
<1> QED BY <1>1, <1>2, InvHolds, PTL DEF Spec, ImplementsVault, V!Spec

-----------------------------------------------------------------------------
(* The consent of those who hold LP units. *)

\* What HoldersConsent says of one holder in one step.
LossConsented(holder) ==
  LET lost     == lpBalance[holder] - lpBalance'[holder]
      approved == LpAllowanceOf(holder, signer')
  IN  lost > 0 /\ negatives' = negatives =>
        \/ signer' = holder
        \/ /\ lost <= approved
           /\ lpAllowance'[<<holder, signer'>>].amount = approved - lost

\* LP units that change hands in an amount that is not negative come from the
\* sender, who loses the amount.
LEMMA MovedFromSender ==
  ASSUME Inv, NEW from \in Users, NEW to \in Address, NEW amount \in Int,
         CanPay(lpBalance, from, to, amount), lpBalance' = Moved(lpBalance, from, to, amount),
         Passes("lp", {amount}), NEW holder \in Users,
         lpBalance[holder] - lpBalance'[holder] > 0, negatives' = negatives
  PROVE  holder = from /\ lpBalance[holder] - lpBalance'[holder] = amount
<1>1. /\ lpBalance \in [Address -> Int] /\ negatives \in [Kinds -> Nat]
      /\ holder \in Address /\ from \in Address /\ lpBalance[holder] \in Int
  BY InvParts DEF Typed, Address
<1>2. amount >= 0
  <2>1. \A n \in {amount} : ~(n < 0)
    BY <1>1, PassesCounts DEF Kinds
  <2> QED BY <2>1
<1>3. /\ holder = from /\ from # to => lpBalance'[holder] = lpBalance[holder] - amount
      /\ holder = from /\ from = to => lpBalance'[holder] = lpBalance[holder]
      /\ holder # from /\ holder = to => lpBalance'[holder] = lpBalance[holder] + amount
      /\ holder # from /\ holder # to => lpBalance'[holder] = lpBalance[holder]
  BY <1>1 DEF Moved, Credited, Debited
<1> QED BY <1>1, <1>2, <1>3

\* A spender takes what it subtracts from the allowance it was told of.
LEMMA SpenderConsented ==
  ASSUME Inv, NEW spender \in Users, NEW from \in Users, NEW to \in Address,
         NEW amount \in Int, LpTransferFrom(spender, from, to, amount), NEW holder \in Users
  PROVE  LossConsented(holder)
<1> SUFFICES ASSUME lpBalance[holder] - lpBalance'[holder] > 0, negatives' = negatives
             PROVE  LET lost     == lpBalance[holder] - lpBalance'[holder]
                        approved == LpAllowanceOf(holder, signer')
                    IN  /\ lost <= approved
                        /\ lpAllowance'[<<holder, signer'>>].amount = approved - lost
  BY DEF LossConsented
<1>1. lpAllowance \in [Users \X Users -> [amount : Int, exp : Nat]] /\ seq \in Nat
  BY InputAssumption DEF Inv, TypeOK
<1>2. /\ lpBalance' = Moved(lpBalance, from, to, amount) /\ CanPay(lpBalance, from, to, amount)
      /\ Passes("lp", {amount}) /\ signer' = spender
      /\ MaySpend(lpAllowance[<<from, spender>>], seq, amount)
      /\ lpAllowance' = [lpAllowance EXCEPT ![<<from, spender>>].amount = @ - amount]
  BY DEF LpTransferFrom
<1>3. holder = from /\ lpBalance[holder] - lpBalance'[holder] = amount
  BY <1>2, MovedFromSender
<1>4. /\ lpAllowance[<<from, spender>>].amount \in Int
      /\ lpAllowance[<<from, spender>>].exp \in Nat
      /\ lpAllowance'[<<from, spender>>].amount = lpAllowance[<<from, spender>>].amount - amount
  BY <1>1, <1>2
<1>5. LpAllowanceOf(from, spender) = lpAllowance[<<from, spender>>].amount
        /\ amount <= lpAllowance[<<from, spender>>].amount
  BY <1>1, <1>2, <1>4 DEF MaySpend, LpAllowanceOf, Reported
<1> QED BY <1>2, <1>3, <1>4, <1>5

\* Every step that takes LP units from a holder has the holder's consent.
LEMMA StepConsented == ASSUME Inv, [Next]_vars, NEW holder \in Users PROVE LossConsented(holder)
<1>1. /\ Typed /\ Pool \in Address /\ holder \in Address
      /\ lpBalance \in [Address -> Int] /\ lpBalance[holder] \in Int
  BY InvParts DEF Typed, Address
<1>2. ASSUME NEW caller \in Users, NEW to \in Recipients, NEW x \in Amounts, NEW y \in Amounts,
             NEW xMin \in Mins, NEW yMin \in Mins, AddLiquidity(caller, x, y, xMin, yMin, to)
      PROVE  LossConsented(holder)
  <2>1. x \in Int /\ y \in Int /\ xMin \in Int /\ yMin \in Int /\ to \in Address
    BY Inputs
  <2>2. PICK m \in Int, n \in Int : Deposit(caller, m, n, to)
    BY <1>2, <2>1, AddIsDeposit
  <2> DEFINE lp == Minted(m, n, reserveX, reserveY, totalSupply)
  <2>3. lp \in Int /\ lp > 0 /\ lpBalance' = Credited(lpBalance, to, lp)
    BY <1>1, <2>1, <2>2, DepositWrites
  <2> HIDE DEF lp
  <2>4. ~(lpBalance[holder] - lpBalance'[holder] > 0)
    BY <1>1, <2>3 DEF Credited
  <2> QED BY <2>4 DEF LossConsented
<1>3. ASSUME NEW caller \in Users, NEW to \in Recipients, NEW liquidity \in Amounts,
             NEW xMin \in Mins, NEW yMin \in Mins,
             RemoveLiquidity(caller, liquidity, xMin, yMin, to)
      PROVE  LossConsented(holder)
  <2>1. lpBalance' = Debited(lpBalance, caller, liquidity) /\ signer' = caller
    BY <1>3 DEF RemoveLiquidity
  <2>2. holder # caller => ~(lpBalance[holder] - lpBalance'[holder] > 0)
    BY <1>1, <2>1 DEF Debited
  <2> QED BY <2>1, <2>2 DEF LossConsented
<1>4. ASSUME NEW from \in Users, NEW to \in Recipients, NEW amount \in Amounts,
             LpTransfer(from, to, amount)
      PROVE  LossConsented(holder)
  <2>1. to \in Address /\ amount \in Int
    BY Inputs
  <2>2. /\ lpBalance' = Moved(lpBalance, from, to, amount) /\ CanPay(lpBalance, from, to, amount)
        /\ Passes("lp", {amount}) /\ signer' = from
    BY <1>4 DEF LpTransfer
  <2>3. lpBalance[holder] - lpBalance'[holder] > 0 /\ negatives' = negatives => holder = from
    BY <2>1, <2>2, MovedFromSender
  <2> QED BY <2>2, <2>3 DEF LossConsented
<1>5. ASSUME NEW spender \in Users, NEW from \in Users, NEW to \in Recipients,
             NEW amount \in Amounts, LpTransferFrom(spender, from, to, amount)
      PROVE  LossConsented(holder)
  BY Inputs, <1>5, SpenderConsented
<1>6. ASSUME lpBalance' = lpBalance PROVE LossConsented(holder)
  BY <1>1, <1>6 DEF LossConsented
<1>7. ASSUME \/ \E caller \in Users, to \in Recipients, xOut, yOut \in Amounts \cup {0} :
                  Swap(caller, xOut, yOut, to)
             \/ Sync
             \/ \E to \in Recipients : Skim(to)
             \/ \E from \in Users, to \in Recipients, amount \in Amounts :
                  \/ TransferX(from, to, amount)
                  \/ TransferY(from, to, amount)
             \/ \E a \in Approvals, exp \in Expirations : LpApprove(a[1], a[2], a[3], exp)
             \/ CloseLedger
             \/ UNCHANGED vars
      PROVE  lpBalance' = lpBalance
  BY <1>7 DEF Swap, Sync, Skim, TransferX, TransferY, LpApprove, CloseLedger, vars
<1> QED BY <1>2, <1>3, <1>4, <1>5, <1>6, <1>7 DEF Next

\* A transaction that passes no negative amount takes LP units from a holder
\* only if the holder signs, or within what lp_allowance reports to the spender
\* who signs: the expirations that the two read apart agree.
THEOREM HoldersHaveConsented == Spec => HoldersConsent
<1> DEFINE Consented == \A holder \in Users : LossConsented(holder)
<1>1. ASSUME Inv, [Next]_vars PROVE Consented
  BY <1>1, StepConsented
<1>2. Spec => [][Consented]_vars
  <2> HIDE DEF Consented
  <2> QED BY <1>1, InvHolds, PTL DEF Spec
<1>3. HoldersConsent <=> [][Consented]_vars
  BY PTL DEF HoldersConsent, LossConsented
<1> QED BY <1>2, <1>3
=============================================================================
