---------------------------- MODULE PairMathProofs ---------------------------
(***************************************************************************)
(* Facts about the arithmetic of math.rs and of a pair, for every fee and  *)
(* every amount.                                                           *)
(***************************************************************************)
EXTENDS PairMath, FiniteSetTheorems, TLAPS

\* Integer division rounds down.
LEMMA DivFloor ==
  ASSUME NEW a \in Nat, NEW b \in Nat \ {0}
  PROVE  /\ a \div b \in Nat
         /\ (a \div b) * b <= a
         /\ a < (a \div b) * b + b
OBVIOUS

\* Dividing an integer by a positive number gives an integer.
LEMMA DivType ==
  ASSUME NEW a \in Int, NEW b \in Nat \ {0}
  PROVE  a \div b \in Int
OBVIOUS

\* The division of the contracts is integer division where nothing is negative.
LEMMA QuotientIsDiv ==
  ASSUME NEW a \in Nat, NEW b \in Nat \ {0}
  PROVE  Quotient(a, b) = a \div b /\ Quotient(a, b) \in Nat
BY DivFloor DEF Quotient, Magnitude

\* A quotient is an integer, and by a positive number it has the sign of the dividend.
LEMMA QuotientType ==
  ASSUME NEW a \in Int, NEW b \in Int \ {0}
  PROVE  /\ Quotient(a, b) \in Int
         /\ b > 0 /\ Quotient(a, b) > 0 => a > 0
<1>1. Magnitude(a) \in Nat /\ Magnitude(b) \in Nat \ {0}
  BY DEF Magnitude
<1>2. Magnitude(a) \div Magnitude(b) \in Nat
  BY <1>1, DivFloor
<1>3. Quotient(a, b) \in Int
  BY <1>2 DEF Quotient
<1>4. ASSUME b > 0, Quotient(a, b) > 0 PROVE a > 0
  <2>1. a >= 0
    BY <1>2, <1>4 DEF Quotient
  <2>2. a # 0
    <3> SUFFICES ASSUME a = 0 PROVE FALSE
      OBVIOUS
    <3>1. 0 \div b = 0
      <4> DEFINE q == 0 \div b
      <4>1. q \in Nat /\ q * b <= 0 /\ b \in Nat \ {0}
        BY <1>4, DivFloor
      <4> HIDE DEF q
      <4>2. q = 0
        <5>1. q > 0 => q * b > 0
          BY <4>1
        <5> QED BY <4>1, <5>1
      <4> QED BY <4>2 DEF q
    <3>2. Quotient(a, b) = 0
      BY <1>4, <3>1 DEF Quotient, Magnitude
    <3> QED BY <1>4, <3>2
  <2> QED BY <2>1, <2>2
<1> QED BY <1>3, <1>4

\* Products are monotone in both factors.
LEMMA ProductMonotone ==
  ASSUME NEW a \in Nat, NEW b \in Nat, NEW c \in Nat, NEW d \in Nat, a <= b, c <= d
  PROVE  a * c <= b * d
<1>1. a * c <= b * c
  OBVIOUS
<1>2. b * c <= b * d
  OBVIOUS
<1>3. a * c \in Int /\ b * c \in Int /\ b * d \in Int
  OBVIOUS
<1> QED BY <1>1, <1>2, <1>3

\* A common positive factor cancels.
LEMMA ProductCancels ==
  ASSUME NEW a \in Nat, NEW b \in Nat, NEW c \in Nat \ {0}, a * c <= b * c
  PROVE  a <= b
OBVIOUS

\* The quotient is the largest number whose product fits.
LEMMA DivIsLargest ==
  ASSUME NEW a \in Nat, NEW b \in Nat \ {0}, NEW q \in Nat
  PROVE  q <= a \div b <=> q * b <= a
<1> DEFINE d == a \div b
<1>1. d \in Nat /\ d * b <= a /\ a < d * b + b
  BY DivFloor
<1> HIDE DEF d
<1>2. q <= d => q * b <= a
  <2>1. q <= d => q * b <= d * b
    BY <1>1, ProductMonotone
  <2>2. q * b \in Int /\ d * b \in Int
    BY <1>1
  <2> QED BY <1>1, <2>1, <2>2
<1>3. q > d => q * b > a
  <2>1. q > d => (d + 1) * b <= q * b
    BY <1>1, ProductMonotone
  <2>2. (d + 1) * b = d * b + b /\ q * b \in Int /\ d * b \in Int
    BY <1>1
  <2> QED BY <1>1, <2>1, <2>2
<1> QED BY <1>1, <1>2, <1>3 DEF d

\* Every non-empty set of natural numbers has a least element.
LEMMA LeastNatural ==
  ASSUME NEW T \in SUBSET Nat, T # {}
  PROVE  \E x \in T : \A y \in T : x <= y
<1> DEFINE Below == {1 .. x : x \in T}
<1>1. Below \subseteq FiniteSubsetsOf(Nat)
  BY FS_Interval DEF FiniteSubsetsOf
<1>2. Below # {}
  OBVIOUS
<1>3. IsWellFoundedOn(StrictSubsetOrdering(Nat), FiniteSubsetsOf(Nat))
  BY FS_StrictSubsetOrderingWellFounded
<1>4. \E u \in Below : \A v \in Below : ~(<<v, u>> \in StrictSubsetOrdering(Nat))
  <2> HIDE DEF Below
  <2> QED BY <1>1, <1>2, <1>3, WFMin
<1>5. PICK x \in T : \A y \in T : ~(<<1 .. y, 1 .. x>> \in StrictSubsetOrdering(Nat))
  BY <1>4
<1>6. ASSUME NEW y \in T, y < x
      PROVE  FALSE
  <2> DEFINE u == 1 .. y
             v == 1 .. x
  <2>1. u \in SUBSET Nat /\ v \in SUBSET Nat /\ u \subseteq v /\ u # v
    BY <1>6
  <2>2. <<u, v>> \in StrictSubsetOrdering(Nat)
    <3> HIDE DEF u, v
    <3> QED BY <2>1, Zenon DEF StrictSubsetOrdering
  <2> QED BY <2>2, <1>5
<1> QED BY <1>6

\* Induction, over the members of a set.
LEMMA Induction ==
  ASSUME NEW T, 0 \in T, \A k \in Nat : k \in T => k + 1 \in T
  PROVE  \A k \in Nat : k \in T
<1> SUFFICES ASSUME Nat \ T # {} PROVE FALSE
  OBVIOUS
<1>1. PICK x \in Nat \ T : \A y \in Nat \ T : x <= y
  BY LeastNatural
<1>2. x # 0 /\ x - 1 \in Nat /\ x - 1 + 1 = x
  BY <1>1
<1>3. x - 1 \in T
  BY <1>1, <1>2
<1> QED BY <1>1, <1>2, <1>3

\* Sqrt is the floor of the square root, for every number.
LEMMA SqrtIsRoot ==
  ASSUME NEW y \in Nat
  PROVE  Sqrt(y) \in Nat /\ Sqrt(y) * Sqrt(y) <= y /\ y < (Sqrt(y) + 1) * (Sqrt(y) + 1)
<1> DEFINE Above == {w \in Nat : w * w > y}
<1>1. y + 1 \in Above
  OBVIOUS
<1>2. PICK x \in Above : \A w \in Above : x <= w
  <2>1. Above \in SUBSET Nat /\ Above # {}
    BY <1>1
  <2> HIDE DEF Above
  <2> QED BY <2>1, LeastNatural
<1>3. x \in Nat /\ x * x > y /\ x # 0
  BY <1>2
<1>4. x - 1 \in Nat /\ (x - 1) * (x - 1) <= y
  BY <1>2, <1>3
<1>5. x - 1 <= y
  <2>1. x - 1 <= (x - 1) * (x - 1)
    BY <1>4
  <2> QED BY <2>1, <1>4
<1>6. \E z \in 0 .. y : z * z <= y /\ y < (z + 1) * (z + 1)
  <2> DEFINE z == x - 1
  <2>1. z \in 0 .. y /\ z * z <= y
    BY <1>4, <1>5
  <2>2. z + 1 = x
    BY <1>3
  <2>3. y < (z + 1) * (z + 1)
    BY <1>3, <2>2
  <2> HIDE DEF z
  <2> QED BY <2>1, <2>3
<1>7. Sqrt(y) \in 0 .. y /\ Sqrt(y) * Sqrt(y) <= y /\ y < (Sqrt(y) + 1) * (Sqrt(y) + 1)
  BY <1>6 DEF Sqrt
<1> QED BY <1>7

-----------------------------------------------------------------------------
\* What the router quotes is what the pair accepts.  When in units enter one
\* side and out units leave the other, the fee-adjusted product check at the end of
\* swap holds exactly if out is at most get_amount_out of the input.
LEMMA CheckIsQuote ==
  ASSUME NEW in \in Nat \ {0}, NEW out \in Nat,
         NEW rIn \in Nat \ {0}, NEW rOut \in Nat, out <= rOut
  PROVE  ((rIn + in) * FeeDen - in * (FeeDen - FeeNum)) * ((rOut - out) * FeeDen)
            >= rIn * FeeDen * (rOut * FeeDen)
         <=> out <= GetAmountOut(in, rIn, rOut)
<1> DEFINE n == in * FeeNum * rOut
           d == rIn * FeeDen + in * FeeNum
<1>1. FeeNum \in Nat \ {0} /\ FeeDen \in Nat \ {0}
  BY FeeAssumption
<1>2. n \in Nat /\ d \in Nat \ {0}
  <2>1. in * FeeNum \in Nat \ {0} /\ rIn * FeeDen \in Nat \ {0}
    BY <1>1
  <2> QED BY <2>1
<1>3. (rIn + in) * FeeDen - in * (FeeDen - FeeNum) = d
  BY <1>1
<1>4. d * ((rOut - out) * FeeDen) = (d * (rOut - out)) * FeeDen
  BY <1>1, <1>2
<1>5. rIn * FeeDen * (rOut * FeeDen) = (rIn * FeeDen * rOut) * FeeDen
  BY <1>1
<1>6. d * (rOut - out) = rIn * FeeDen * rOut + n - out * d
  BY <1>1
<1>7. d * (rOut - out) \in Nat /\ rIn * FeeDen * rOut \in Nat
  <2>1. rOut - out \in Nat
    OBVIOUS
  <2> HIDE DEF d
  <2> QED BY <1>1, <1>2, <2>1
<1>8. d * (rOut - out) >= rIn * FeeDen * rOut <=> out * d <= n
  <2>1. out * d \in Int /\ n \in Int /\ rIn * FeeDen * rOut \in Int
    BY <1>1, <1>2
  <2> DEFINE k == rIn * FeeDen * rOut
             p == d * (rOut - out)
             q == out * d
  <2> HIDE DEF k, p, q, n
  <2> QED BY <1>6, <1>7, <2>1 DEF k, p, q
<1>9. (d * (rOut - out)) * FeeDen >= (rIn * FeeDen * rOut) * FeeDen
        <=> d * (rOut - out) >= rIn * FeeDen * rOut
  <2> DEFINE k == rIn * FeeDen * rOut
             p == d * (rOut - out)
  <2>1. k \in Nat /\ p \in Nat
    BY <1>7
  <2> HIDE DEF k, p
  <2>2. k * FeeDen <= p * FeeDen => k <= p
    BY <1>1, <2>1, ProductCancels
  <2>3. k <= p => k * FeeDen <= p * FeeDen
    BY <1>1, <2>1, ProductMonotone
  <2> QED BY <1>1, <2>1, <2>2, <2>3 DEF k, p
<1>10. out * d <= n <=> out <= GetAmountOut(in, rIn, rOut)
  <2>1. GetAmountOut(in, rIn, rOut) = n \div d
    BY DEF GetAmountOut
  <2> HIDE DEF n, d
  <2> QED BY <1>2, <2>1, DivIsLargest
<1> HIDE DEF n, d
<1> QED BY <1>3, <1>4, <1>5, <1>8, <1>9, <1>10

-----------------------------------------------------------------------------
(* What the amounts of deposits, withdrawals and swaps do to a pool. *)

\* A deposit mints no more than its share of one side.
LEMMA DepositSide ==
  ASSUME NEW x \in Nat, NEW r \in Nat \ {0}, NEW L \in Nat, NEW lp \in Nat,
         lp <= (x * L) \div r,
         NEW r2 \in Nat, r2 >= r + x
  PROVE  r * (L + lp) <= r2 * L
<1>1. x * L \in Nat
  OBVIOUS
<1>2. lp * r <= x * L
  BY <1>1, DivIsLargest
<1>3. r * (L + lp) = r * L + lp * r /\ (r + x) * L = r * L + x * L
  OBVIOUS
<1>4. (r + x) * L <= r2 * L
  BY ProductMonotone
<1>5. lp * r \in Int /\ r * L \in Int /\ r2 * L \in Int
  OBVIOUS
<1> QED BY <1>1, <1>2, <1>3, <1>4, <1>5

\* A withdrawal pays no more than its share of one side.
LEMMA WithdrawSide ==
  ASSUME NEW l \in Nat, NEW r \in Nat, NEW L \in Nat \ {0}, l <= L,
         NEW r2 \in Nat, r2 >= r - (l * r) \div L
  PROVE  r * (L - l) <= r2 * L
<1> DEFINE q == (l * r) \div L
<1>1. l * r \in Nat
  OBVIOUS
<1>2. q \in Nat /\ q * L <= l * r
  BY <1>1, DivFloor
<1> HIDE DEF q
<1>3. (r - q) * L = r * L - q * L /\ r * (L - l) = r * L - l * r
  BY <1>2
<1>4. (r - q) * L <= r2 * L
  <2>1. r - q <= r2 /\ r - q \in Int
    BY <1>2 DEF q
  <2> QED BY <2>1
<1>5. q * L \in Int /\ r * L \in Int /\ r2 * L \in Int
  BY <1>2
<1> QED BY <1>1, <1>2, <1>3, <1>4, <1>5

\* Two sides that keep their share keep the product's.
LEMMA SidesKeepValue ==
  ASSUME NEW x \in Nat, NEW y \in Nat, NEW L \in Nat,
         NEW x2 \in Nat, NEW y2 \in Nat, NEW L2 \in Nat,
         x * L2 <= x2 * L, y * L2 <= y2 * L
  PROVE  x * y * L2 * L2 <= x2 * y2 * L * L
<1>1. (x * L2) * (y * L2) <= (x2 * L) * (y2 * L)
  <2>1. x * L2 \in Nat /\ x2 * L \in Nat /\ y * L2 \in Nat /\ y2 * L \in Nat
    OBVIOUS
  <2> QED BY <2>1, ProductMonotone
<1>2. (x * L2) * (y * L2) = x * y * L2 * L2
  OBVIOUS
<1>3. (x2 * L) * (y2 * L) = x2 * y2 * L * L
  OBVIOUS
<1> QED BY <1>1, <1>2, <1>3

\* The balance less the fee on the input is at most the balance.
LEMMA AdjustedBound ==
  ASSUME NEW b \in Nat, NEW in \in Nat, in <= b
  PROVE  Adjusted(b, in) \in Nat /\ Adjusted(b, in) <= b * FeeDen
<1>1. FeeNum \in Nat /\ FeeDen \in Nat \ {0} /\ FeeNum <= FeeDen
  BY FeeAssumption
<1>2. FeeDen - FeeNum \in Nat /\ FeeDen - FeeNum <= FeeDen
  BY <1>1
<1>3. in * (FeeDen - FeeNum) \in Nat /\ in * (FeeDen - FeeNum) <= b * FeeDen
  BY <1>1, <1>2, ProductMonotone
<1>4. b * FeeDen \in Nat
  BY <1>1
<1> QED BY <1>3, <1>4 DEF Adjusted

\* The check that ends a swap implies that the product does not fall.
LEMMA CheckKeepsProduct ==
  ASSUME NEW bx \in Nat, NEW by \in Nat, NEW rx \in Nat, NEW ry \in Nat,
         NEW xIn \in Nat, NEW yIn \in Nat, xIn <= bx, yIn <= by,
         Adjusted(bx, xIn) * Adjusted(by, yIn) >= rx * FeeDen * (ry * FeeDen)
  PROVE  rx * ry <= bx * by
<1>1. FeeNum \in Nat /\ FeeDen \in Nat \ {0} /\ FeeNum <= FeeDen
  BY FeeAssumption
<1>2. /\ Adjusted(bx, xIn) \in Nat /\ Adjusted(bx, xIn) <= bx * FeeDen
      /\ Adjusted(by, yIn) \in Nat /\ Adjusted(by, yIn) <= by * FeeDen
  BY AdjustedBound
<1>3. Adjusted(bx, xIn) * Adjusted(by, yIn) <= (bx * FeeDen) * (by * FeeDen)
  <2>1. bx * FeeDen \in Nat /\ by * FeeDen \in Nat
    BY <1>1
  <2>2. Adjusted(bx, xIn) \in Nat /\ Adjusted(bx, xIn) <= bx * FeeDen
    BY <1>2
  <2>3. Adjusted(by, yIn) \in Nat /\ Adjusted(by, yIn) <= by * FeeDen
    BY <1>2
  <2> QED BY <2>1, <2>2, <2>3, ProductMonotone
<1>4. rx * FeeDen * (ry * FeeDen) <= (bx * FeeDen) * (by * FeeDen)
  <2>1. Adjusted(bx, xIn) * Adjusted(by, yIn) \in Int
    <3>1. Adjusted(bx, xIn) \in Nat /\ Adjusted(by, yIn) \in Nat
      BY <1>2
    <3> QED BY <3>1
  <2>2. rx * FeeDen * (ry * FeeDen) \in Int /\ (bx * FeeDen) * (by * FeeDen) \in Int
    BY <1>1
  <2> QED BY <1>3, <2>1, <2>2
<1>5. rx * FeeDen * (ry * FeeDen) = (rx * ry) * (FeeDen * FeeDen)
  BY <1>1
<1>6. (bx * FeeDen) * (by * FeeDen) = (bx * by) * (FeeDen * FeeDen)
  BY <1>1
<1>7. rx * ry \in Nat /\ bx * by \in Nat /\ FeeDen * FeeDen \in Nat \ {0}
  BY <1>1
<1> QED BY <1>4, <1>5, <1>6, <1>7, ProductCancels

\* Products of natural numbers are natural numbers.
LEMMA ProductNatural == ASSUME NEW x \in Nat, NEW y \in Nat PROVE x * y \in Nat /\ x * y >= 0
OBVIOUS

\* A positive supply under the bound leaves no reserve empty.
LEMMA PositiveReserves ==
  ASSUME NEW x \in Nat, NEW y \in Nat, NEW L \in Nat \ {0}, L * L <= x * y
  PROVE  x \in Nat \ {0} /\ y \in Nat \ {0}
<1>1. L * L > 0
  OBVIOUS
<1> QED BY <1>1

\* From the value behind an LP unit to the bound on the supply.
LEMMA ValueBoundsSupply ==
  ASSUME NEW x \in Nat, NEW y \in Nat, NEW L \in Nat \ {0}, L * L <= x * y,
         NEW x2 \in Nat, NEW y2 \in Nat, NEW L2 \in Nat,
         x * y * L2 * L2 <= x2 * y2 * L * L
  PROVE  L2 * L2 <= x2 * y2
<1> DEFINE k == x * y
           k2 == x2 * y2
           m == L * L
           m2 == L2 * L2
<1>1. k \in Nat /\ k2 \in Nat /\ m \in Nat \ {0} /\ m2 \in Nat
  OBVIOUS
<1>2. k * m2 <= k2 * m
  <2>1. x * y * L2 * L2 = k * m2 /\ x2 * y2 * L * L = k2 * m
    OBVIOUS
  <2> QED BY <2>1
<1>3. m <= k
  OBVIOUS
<1> HIDE DEF k, k2, m, m2
<1>4. m2 * m <= k2 * m
  <2>1. m2 * m <= m2 * k
    BY <1>1, <1>3, ProductMonotone
  <2>2. m2 * k = k * m2 /\ m2 * m \in Int /\ k * m2 \in Int /\ k2 * m \in Int
    BY <1>1
  <2> QED BY <1>2, <2>1, <2>2
<1>5. m2 <= k2
  BY <1>1, <1>4, ProductCancels
<1> QED BY <1>5 DEF m2, k2

-----------------------------------------------------------------------------
(* What the three calls of a pair do to reserves x, y and supply L, in     *)
(* numbers alone.                                                          *)

\* The amount a deposit mints is an integer, whatever the reserves are.
LEMMA MintedNumber ==
  ASSUME NEW x \in Int, NEW y \in Int, NEW rx \in Int, NEW ry \in Int, NEW L \in Int,
         MintedOk(x, y, rx, ry, L)
  PROVE  Minted(x, y, rx, ry, L) \in Int
<1>1. MinLiquidity \in Nat
  BY MinLiquidityAssumption
<1>2. CASE L = 0
  <2>1. x * y \in Nat
    <3>1. x * y \in Int
      OBVIOUS
    <3> QED BY <1>2, <3>1 DEF MintedOk
  <2>2. Sqrt(x * y) \in Int
    BY <2>1, SqrtIsRoot
  <2>3. Minted(x, y, rx, ry, L) = Sqrt(x * y) - MinLiquidity
    BY <1>2 DEF Minted
  <2> QED BY <1>1, <2>2, <2>3
<1>3. CASE L # 0
  <2>1. rx \in Nat \ {0} /\ ry \in Nat \ {0}
    BY <1>3 DEF MintedOk
  <2>2. x * L \in Int /\ y * L \in Int
    OBVIOUS
  <2>3. (x * L) \div rx \in Int /\ (y * L) \div ry \in Int
    BY <2>1, <2>2, DivType
  <2> QED BY <1>3, <2>3 DEF Minted, Least
<1> QED BY <1>2, <1>3

\* The amounts a deposit settles on are integers; in a pool with a reserve they are not
\* negative, and no reserve is.
LEMMA SettledNumber ==
  ASSUME NEW xd \in Int, NEW yd \in Int, NEW xMin \in Int, NEW yMin \in Int,
         NEW rx \in Int, NEW ry \in Int, NEW a \in Settled(xd, yd, xMin, yMin, rx, ry)
  PROVE  /\ a = <<a[1], a[2]>> /\ a[1] \in Int /\ a[2] \in Int
         /\ rx # 0 \/ ry # 0 => a[1] >= 0 /\ a[2] >= 0 /\ rx > 0 /\ ry > 0
         /\ rx = 0 /\ ry = 0 => a = <<xd, yd>>
<1> DEFINE yOpt == Quote(xd, rx, ry)
           xOpt == Quote(yd, ry, rx)
<1>1. CASE rx = 0 /\ ry = 0
  <2>1. a = <<xd, yd>>
    BY <1>1 DEF Settled
  <2> QED BY <1>1, <2>1
<1>2. CASE ~(rx = 0 /\ ry = 0)
  <2>1. \/ /\ a = <<xd, yOpt>> /\ QuoteOk(xd, rx, ry)
        \/ /\ a = <<xOpt, yd>> /\ QuoteOk(yd, ry, rx)
    BY <1>2 DEF Settled
  <2>2. ASSUME QuoteOk(xd, rx, ry) PROVE xd > 0 /\ rx > 0 /\ ry > 0 /\ yOpt \in Nat
    <3>1. xd > 0 /\ rx > 0 /\ ry > 0
      BY <2>2 DEF QuoteOk
    <3>2. xd * ry \in Nat /\ rx \in Nat \ {0}
      <4>1. xd \in Nat /\ ry \in Nat
        BY <3>1
      <4> QED BY <3>1, <4>1
    <3> QED BY <3>1, <3>2, DivFloor DEF Quote
  <2>3. ASSUME QuoteOk(yd, ry, rx) PROVE yd > 0 /\ rx > 0 /\ ry > 0 /\ xOpt \in Nat
    <3>1. yd > 0 /\ rx > 0 /\ ry > 0
      BY <2>3 DEF QuoteOk
    <3>2. yd * rx \in Nat /\ ry \in Nat \ {0}
      <4>1. yd \in Nat /\ rx \in Nat
        BY <3>1
      <4> QED BY <3>1, <4>1
    <3> QED BY <3>1, <3>2, DivFloor DEF Quote
  <2> HIDE DEF xOpt, yOpt
  <2>4. CASE a = <<xd, yOpt>> /\ QuoteOk(xd, rx, ry)
    BY <1>2, <2>2, <2>4
  <2>5. CASE a = <<xOpt, yd>> /\ QuoteOk(yd, ry, rx)
    BY <1>2, <2>3, <2>5
  <2> QED BY <2>1, <2>4, <2>5
<1> QED BY <1>1, <1>2

\* A share of natural numbers is integer division, a share that is positive is of a
\* reserve that is.
LEMMA ShareNumber ==
  ASSUME NEW l \in Nat, NEW L \in Nat \ {0}, NEW r \in Int
  PROVE  /\ ShareOf(l, r, L) \in Int
         /\ r >= 0 => ShareOf(l, r, L) = (l * r) \div L /\ ShareOf(l, r, L) \in Nat
         /\ ShareOf(l, r, L) > 0 => r > 0
<1>1. l * r \in Int
  OBVIOUS
<1>2. /\ ShareOf(l, r, L) \in Int
      /\ ShareOf(l, r, L) > 0 => l * r > 0
  BY <1>1, QuotientType DEF ShareOf
<1>3. ASSUME r >= 0
      PROVE  ShareOf(l, r, L) = (l * r) \div L /\ ShareOf(l, r, L) \in Nat
  <2>1. l * r \in Nat
    BY <1>3
  <2> QED BY <2>1, QuotientIsDiv DEF ShareOf
<1>4. l * r > 0 => r > 0
  OBVIOUS
<1> QED BY <1>2, <1>3, <1>4

\* A deposit into a pool with shares adds at most the depositor's part of them.
LEMMA JoinNumbers ==
  ASSUME NEW x \in Nat, NEW y \in Nat, NEW rx \in Nat, NEW ry \in Nat, NEW L \in Nat \ {0},
         L * L <= rx * ry,
         NEW rx2 \in Nat, NEW ry2 \in Nat, rx2 >= rx + x, ry2 >= ry + y,
         NEW lp \in Nat, lp = Minted(x, y, rx, ry, L)
  PROVE  /\ rx * (L + lp) <= rx2 * L /\ ry * (L + lp) <= ry2 * L
         /\ (L + lp) * (L + lp) <= rx2 * ry2
<1>1. rx \in Nat \ {0} /\ ry \in Nat \ {0}
  BY PositiveReserves
<1>2. PICK px \in Nat, py \in Nat : px = (x * L) \div rx /\ py = (y * L) \div ry
  <2>1. x * L \in Nat /\ y * L \in Nat
    OBVIOUS
  <2> QED BY <1>1, <2>1, DivFloor
<1>3. lp <= px /\ lp <= py
  BY <1>2 DEF Minted, Least
<1>4. rx * (L + lp) <= rx2 * L
  BY <1>1, <1>2, <1>3, DepositSide
<1>5. ry * (L + lp) <= ry2 * L
  BY <1>1, <1>2, <1>3, DepositSide
<1>6. rx * ry * (L + lp) * (L + lp) <= rx2 * ry2 * L * L
  BY <1>4, <1>5, SidesKeepValue
<1>7. (L + lp) * (L + lp) <= rx2 * ry2
  BY <1>6, ValueBoundsSupply
<1> QED BY <1>4, <1>5, <1>7

\* The first deposit makes at most the root of the product in shares.
LEMMA OpenNumbers ==
  ASSUME NEW x \in Nat, NEW y \in Nat, NEW rx2 \in Nat, NEW ry2 \in Nat, rx2 >= x, ry2 >= y,
         NEW rx, NEW ry, NEW lp \in Nat, lp = Minted(x, y, rx, ry, 0)
  PROVE  (MinLiquidity + lp) * (MinLiquidity + lp) <= rx2 * ry2
<1>1. x * y \in Nat
  OBVIOUS
<1>2. MinLiquidity + lp = Sqrt(x * y) /\ Sqrt(x * y) \in Nat
  BY <1>1, SqrtIsRoot, MinLiquidityAssumption DEF Minted
<1>3. Sqrt(x * y) * Sqrt(x * y) <= x * y
  BY <1>1, SqrtIsRoot
<1>4. x * y <= rx2 * ry2
  BY ProductMonotone
<1>5. Sqrt(x * y) * Sqrt(x * y) \in Nat /\ rx2 * ry2 \in Nat
  BY <1>2
<1> QED BY <1>1, <1>2, <1>3, <1>4, <1>5

\* A withdrawal pays at most the withdrawn shares' part of each reserve.
LEMMA LeaveNumbers ==
  ASSUME NEW l \in Nat, NEW rx \in Nat, NEW ry \in Nat, NEW L \in Nat \ {0}, l <= L,
         L * L <= rx * ry,
         NEW rx2 \in Nat, NEW ry2 \in Nat,
         rx2 >= rx - ShareOf(l, rx, L), ry2 >= ry - ShareOf(l, ry, L)
  PROVE  /\ rx * (L - l) <= rx2 * L /\ ry * (L - l) <= ry2 * L
         /\ (L - l) * (L - l) <= rx2 * ry2
<1>1. rx * (L - l) <= rx2 * L
  <2>1. ShareOf(l, rx, L) = (l * rx) \div L
    BY ShareNumber
  <2> QED BY <2>1, WithdrawSide
<1>2. ry * (L - l) <= ry2 * L
  <2>1. ShareOf(l, ry, L) = (l * ry) \div L
    BY ShareNumber
  <2> QED BY <2>1, WithdrawSide
<1>3. L - l \in Nat
  OBVIOUS
<1>4. rx * ry * (L - l) * (L - l) <= rx2 * ry2 * L * L
  BY <1>1, <1>2, <1>3, SidesKeepValue
<1>5. (L - l) * (L - l) <= rx2 * ry2
  BY <1>3, <1>4, ValueBoundsSupply
<1> QED BY <1>1, <1>2, <1>5

\* A swap that passes the check keeps the product of the reserves, even if an output
\* is negative: that only lets less of the balance bear the fee.
LEMMA TradeNumbers ==
  ASSUME NEW rx \in Nat, NEW ry \in Nat, NEW bx \in Nat, NEW by \in Nat,
         NEW xOut \in Int, NEW yOut \in Int, xOut <= rx, yOut <= ry,
         KHolds(rx, ry, bx, by, AmountIn(bx, rx, xOut), AmountIn(by, ry, yOut))
  PROVE  rx * ry <= bx * by
<1> DEFINE xIn == AmountIn(bx, rx, xOut)
           yIn == AmountIn(by, ry, yOut)
<1>1. xIn \in Nat /\ xIn <= bx /\ yIn \in Nat /\ yIn <= by
  BY DEF AmountIn
<1>2. Adjusted(bx, xIn) * Adjusted(by, yIn) >= rx * FeeDen * (ry * FeeDen)
  BY DEF KHolds
<1> HIDE DEF xIn, yIn
<1> QED BY <1>1, <1>2, CheckKeepsProduct

-----------------------------------------------------------------------------
(* The amounts the router computes. *)

\* An output is a natural number, below the reserve it is paid from.
LEMMA OutNumber ==
  ASSUME NEW in \in Nat \ {0}, NEW rIn \in Nat \ {0}, NEW rOut \in Nat \ {0}
  PROVE  GetAmountOut(in, rIn, rOut) \in Nat /\ GetAmountOut(in, rIn, rOut) < rOut
<1> DEFINE a == in * FeeNum
           b == rIn * FeeDen
           out == (a * rOut) \div (b + a)
<1>1. a \in Nat \ {0} /\ b \in Nat \ {0}
  BY FeeAssumption
<1>2. GetAmountOut(in, rIn, rOut) = out
  BY DEF GetAmountOut
<1> HIDE DEF a, b
<1>3. a * rOut \in Nat /\ b + a \in Nat \ {0} /\ b * rOut > 0
  BY <1>1
<1>4. out \in Nat /\ out * (b + a) <= a * rOut
  BY <1>3, DivFloor
<1> HIDE DEF out
<1>5. a * rOut < rOut * (b + a)
  <2>1. rOut * (b + a) = b * rOut + a * rOut
    BY <1>1
  <2>2. b * rOut \in Nat
    BY <1>1
  <2> QED BY <1>3, <2>1, <2>2
<1>6. ~(rOut <= out)
  <2> SUFFICES ASSUME rOut <= out PROVE FALSE
    OBVIOUS
  <2>1. rOut * (b + a) <= out * (b + a)
    BY <1>3, <1>4, ProductMonotone
  <2>2. rOut * (b + a) \in Nat /\ out * (b + a) \in Nat
    BY <1>3, <1>4
  <2> QED BY <1>3, <1>4, <1>5, <2>1, <2>2
<1> QED BY <1>2, <1>4, <1>6

\* The input computed for an output buys at least that output.
LEMMA InNumber ==
  ASSUME NEW out \in Nat \ {0}, NEW rIn \in Nat \ {0}, NEW rOut \in Nat, out < rOut
  PROVE  /\ GetAmountIn(out, rIn, rOut) \in Nat \ {0}
         /\ out <= GetAmountOut(GetAmountIn(out, rIn, rOut), rIn, rOut)
<1> DEFINE n == rIn * out * FeeDen
           m == (rOut - out) * FeeNum
           in == n \div m + 1
           d == rIn * FeeDen + in * FeeNum
<1>1. FeeNum \in Nat \ {0} /\ FeeDen \in Nat \ {0} /\ rOut - out \in Nat \ {0}
  BY FeeAssumption
<1>2. n \in Nat /\ m \in Nat \ {0}
  BY <1>1
<1>3. in \in Nat \ {0} /\ n <= in * m
  <2> HIDE DEF n, m
  <2>1. n \div m \in Nat /\ n < (n \div m) * m + m
    BY <1>2, DivFloor
  <2>2. (n \div m + 1) * m = (n \div m) * m + m
    BY <1>2, <2>1
  <2> QED BY <1>2, <2>1, <2>2
<1>4. GetAmountIn(out, rIn, rOut) = in
  BY DEF GetAmountIn
<1> HIDE DEF in
<1>5. out * d <= in * FeeNum * rOut
  <2>1. out * d = n + in * FeeNum * out
    BY <1>1, <1>3
  <2>2. in * m = in * FeeNum * rOut - in * FeeNum * out
    BY <1>1, <1>3
  <2>3. in * FeeNum * out \in Int /\ in * FeeNum * rOut \in Int
    BY <1>1, <1>3
  <2> DEFINE k == in * FeeNum * out
             l == in * FeeNum * rOut
             c == out * d
             e == in * m
  <2>4. c = n + k /\ e = l - k /\ n <= e /\ k \in Int /\ l \in Int
    BY <1>3, <2>1, <2>2, <2>3
  <2> HIDE DEF n, k, l, c, e
  <2>5. c <= l
    BY <1>2, <2>4
  <2> QED BY <2>5 DEF c, l
<1>6. in * FeeNum * rOut \in Nat /\ d \in Nat \ {0}
  <2>1. in * FeeNum \in Nat \ {0} /\ rIn * FeeDen \in Nat \ {0}
    BY <1>1, <1>3
  <2> QED BY <2>1
<1>7. out <= (in * FeeNum * rOut) \div d
  <2> DEFINE l == in * FeeNum * rOut
  <2>1. l \in Nat /\ out * d <= l
    BY <1>5, <1>6
  <2> HIDE DEF l, d
  <2> QED BY <1>6, <2>1, DivIsLargest DEF l
<1>8. GetAmountOut(in, rIn, rOut) = (in * FeeNum * rOut) \div d
  BY DEF GetAmountOut
<1> QED BY <1>3, <1>4, <1>7, <1>8

\* What is above the reserve counts as input, less the fee.
LEMMA AdjustedInput ==
  ASSUME NEW b \in Nat, NEW r \in Nat, NEW in \in Nat, b >= r + in
  PROVE  /\ AmountIn(b, r, 0) \in Nat /\ AmountIn(b, r, 0) <= b
         /\ in > 0 => AmountIn(b, r, 0) > 0
         /\ Adjusted(b, AmountIn(b, r, 0)) >= (r + in) * FeeDen - in * (FeeDen - FeeNum)
<1> DEFINE n == b - r
<1>1. FeeNum \in Nat /\ FeeDen \in Nat
  BY FeeAssumption
<1>2. n \in Nat /\ n >= in /\ b = r + n
  OBVIOUS
<1>3. AmountIn(b, r, 0) = n
  BY <1>2 DEF AmountIn
<1> HIDE DEF n
<1>4. Adjusted(b, n) = r * FeeDen + n * FeeNum
  <2>1. (r + n) * FeeDen - n * (FeeDen - FeeNum) = r * FeeDen + n * FeeNum
    BY <1>1, <1>2
  <2> QED BY <1>2, <2>1 DEF Adjusted
<1>5. (r + in) * FeeDen - in * (FeeDen - FeeNum) = r * FeeDen + in * FeeNum
  BY <1>1
<1>6. in * FeeNum <= n * FeeNum
  BY <1>1, <1>2, ProductMonotone
<1>7. in * FeeNum \in Nat /\ n * FeeNum \in Nat /\ r * FeeDen \in Nat
  BY <1>1, <1>2
<1> QED BY <1>2, <1>3, <1>4, <1>5, <1>6, <1>7

\* What is left of the other reserve counts in full, whatever else came in.
LEMMA AdjustedOutput ==
  ASSUME NEW b \in Nat, NEW r \in Nat, NEW out \in Nat, out <= r, b >= r - out
  PROVE  /\ AmountIn(b, r, out) \in Nat /\ AmountIn(b, r, out) <= b
         /\ Adjusted(b, AmountIn(b, r, out)) >= (r - out) * FeeDen
<1> DEFINE n == b - (r - out)
           k == r - out
<1>1. FeeNum \in Nat /\ FeeDen \in Nat
  BY FeeAssumption
<1>2. n \in Nat /\ k \in Nat /\ b = k + n
  OBVIOUS
<1>3. AmountIn(b, r, out) = n
  BY <1>2 DEF AmountIn
<1> HIDE DEF n, k
<1>4. Adjusted(b, n) = k * FeeDen + n * FeeNum
  <2>1. (k + n) * FeeDen - n * (FeeDen - FeeNum) = k * FeeDen + n * FeeNum
    BY <1>1, <1>2
  <2> QED BY <1>2, <2>1 DEF Adjusted
<1>5. k * FeeDen \in Nat /\ n * FeeNum \in Nat
  BY <1>1, <1>2
<1>6. Adjusted(b, n) >= k * FeeDen
  BY <1>4, <1>5
<1>7. n <= b
  BY <1>2
<1> QED BY <1>2, <1>3, <1>6, <1>7 DEF k

\* A pair accepts an output that is at most the quote for its input, whatever
\* else it has, if no product overflows for balances up to total.
LEMMA QuoteAccepted ==
  ASSUME NEW rIn \in Nat \ {0}, NEW rOut \in Nat \ {0}, NEW in \in Nat \ {0},
         NEW out \in Nat, out < rOut, out <= GetAmountOut(in, rIn, rOut),
         NEW bIn \in Nat, bIn >= rIn + in, NEW bOut \in Nat, bOut >= rOut - out,
         NEW total \in Nat, bIn <= total, bOut <= total,
         (total * FeeDen) * (total * FeeDen) <= MaxInt
  PROVE  /\ AmountIn(bIn, rIn, 0) > 0
         /\ KHolds(rIn, rOut, bIn, bOut, AmountIn(bIn, rIn, 0), AmountIn(bOut, rOut, out))
         /\ KHolds(rOut, rIn, bOut, bIn, AmountIn(bOut, rOut, out), AmountIn(bIn, rIn, 0))
<1> DEFINE nIn == AmountIn(bIn, rIn, 0)
           nOut == AmountIn(bOut, rOut, out)
           a == Adjusted(bIn, nIn)
           b == Adjusted(bOut, nOut)
           t == total * FeeDen
           old == rIn * FeeDen * (rOut * FeeDen)
           c == (rIn + in) * FeeDen - in * (FeeDen - FeeNum)
           d == (rOut - out) * FeeDen
<1>1. FeeNum \in Nat \ {0} /\ FeeDen \in Nat \ {0} /\ MaxInt \in Nat
  BY FeeAssumption, MaxIntAssumption
<1>2. nIn \in Nat /\ nIn <= bIn /\ nIn > 0 /\ a >= c
  BY AdjustedInput
<1>3. nOut \in Nat /\ nOut <= bOut /\ b >= d
  <2>1. rOut \in Nat /\ out <= rOut
    OBVIOUS
  <2>2. /\ AmountIn(bOut, rOut, out) \in Nat /\ AmountIn(bOut, rOut, out) <= bOut
        /\ Adjusted(bOut, AmountIn(bOut, rOut, out)) >= (rOut - out) * FeeDen
    BY <2>1, AdjustedOutput
  <2> QED BY <2>2
<1>4. a \in Nat /\ a <= bIn * FeeDen /\ b \in Nat /\ b <= bOut * FeeDen
  BY <1>2, <1>3, AdjustedBound
<1>5. c \in Nat /\ d \in Nat /\ t \in Nat /\ old \in Nat
  <2>1. c = rIn * FeeDen + in * FeeNum
    BY <1>1
  <2>2. rIn * FeeDen \in Nat /\ in * FeeNum \in Nat /\ rOut * FeeDen \in Nat
        /\ (rOut - out) \in Nat
    BY <1>1
  <2> QED BY <1>1, <2>1, <2>2
<1>6. c * d >= old
  BY CheckIsQuote
<1>7. bIn * FeeDen <= t /\ bOut * FeeDen <= t /\ bIn * FeeDen \in Nat /\ bOut * FeeDen \in Nat
  BY <1>1, ProductMonotone
<1>8. t <= t * t
  <2> HIDE DEF t
  <2>1. CASE t = 0
    BY <2>1
  <2>2. CASE t # 0
    BY <1>5, <2>2
  <2> QED BY <2>1, <2>2
<1> DEFINE x == bIn * FeeDen
           y == bOut * FeeDen
<1> HIDE DEF a, b, c, d, t, old, x, y, nIn, nOut
<1>9. x <= t /\ y <= t /\ x \in Nat /\ y \in Nat /\ a <= x /\ b <= y /\ t * t <= MaxInt
  BY <1>4, <1>7 DEF x, y, t
<1>10. c * d <= a * b /\ a * b <= t * t
  <2>1. c * d <= a * b
    BY <1>2, <1>3, <1>4, <1>5, ProductMonotone
  <2>2. a <= t /\ b <= t
    BY <1>4, <1>5, <1>9
  <2>3. a * b <= t * t
    BY <1>4, <1>5, <2>2, ProductMonotone
  <2> QED BY <2>1, <2>3
<1>11. /\ c * d \in Nat /\ a * b \in Nat /\ t * t \in Nat /\ a * b = b * a
  BY <1>4, <1>5
<1>12. /\ x <= MaxInt /\ y <= MaxInt /\ a * b <= MaxInt /\ old <= MaxInt /\ a * b >= old
  <2> DEFINE k == c * d
             l == a * b
             m == t * t
  <2>1. k \in Nat /\ l \in Nat /\ m \in Nat /\ k <= l /\ l <= m /\ m <= MaxInt /\ k >= old
        /\ t <= m
    BY <1>6, <1>8, <1>9, <1>10, <1>11
  <2> HIDE DEF k, l, m
  <2>2. x <= MaxInt /\ y <= MaxInt /\ l <= MaxInt /\ old <= MaxInt /\ l >= old
    BY <1>1, <1>5, <1>9, <2>1
  <2> QED BY <2>2 DEF l
<1>13. rOut * FeeDen * (rIn * FeeDen) = old
  <2>1. rOut * FeeDen * (rIn * FeeDen) = rIn * FeeDen * (rOut * FeeDen)
    BY <1>1
  <2> QED BY <2>1 DEF old
<1>14. rIn * FeeDen <= old /\ rOut * FeeDen <= old
  <2> DEFINE u == rIn * FeeDen
             v == rOut * FeeDen
  <2>1. u \in Nat \ {0} /\ v \in Nat \ {0} /\ old = u * v
    BY <1>1 DEF old
  <2> HIDE DEF u, v
  <2>2. u <= u * v /\ v <= u * v
    BY <2>1
  <2> QED BY <2>1, <2>2 DEF u, v
<1>15. /\ Fits(x) /\ Fits(y) /\ Fits(a * b) /\ Fits(old)
       /\ Fits(rIn * FeeDen) /\ Fits(rOut * FeeDen)
  <2>1. \A n \in Nat : n <= MaxInt => Fits(n)
    BY <1>1 DEF Fits
  <2>2. /\ rIn * FeeDen \in Nat /\ rOut * FeeDen \in Nat
        /\ rIn * FeeDen <= MaxInt /\ rOut * FeeDen <= MaxInt
    <3>1. rIn * FeeDen \in Nat /\ rOut * FeeDen \in Nat
      BY <1>1
    <3> QED BY <1>1, <1>5, <1>12, <1>14, <3>1
  <2> QED BY <1>5, <1>9, <1>11, <1>12, <2>1, <2>2
<1>16. KHolds(rIn, rOut, bIn, bOut, nIn, nOut)
  BY <1>12, <1>15 DEF KHolds, a, b, x, y, old
<1>17. KHolds(rOut, rIn, bOut, bIn, nOut, nIn)
  <2>1. b * a = a * b /\ b * a >= old
    BY <1>11, <1>12
  <2> QED BY <1>12, <1>13, <1>15, <2>1 DEF KHolds, a, b, x, y
<1> QED BY <1>2, <1>16, <1>17 DEF nIn, nOut

-----------------------------------------------------------------------------
(* Depositing and withdrawing. *)

\* Units minted for no more than their share of a side are not worth more than
\* what was paid in on that side, whatever other units there are.
LEMMA RoundTripSide ==
  ASSUME NEW x \in Nat, NEW r \in Nat, NEW L \in Nat, NEW lp \in Nat \ {0}, lp * r <= x * L,
         NEW supply \in Nat, supply >= L + lp
  PROVE  ShareOf(lp, r + x, supply) \in Nat /\ ShareOf(lp, r + x, supply) <= x
<1> DEFINE n == lp * (r + x)
           q == n \div supply
<1>1. n \in Nat /\ supply \in Nat \ {0}
  OBVIOUS
<1>2. ShareOf(lp, r + x, supply) = q
  <2> DEFINE s == r + x
  <2>1. s \in Int /\ s >= 0 /\ n = lp * s /\ lp \in Nat
    OBVIOUS
  <2> HIDE DEF s
  <2>2. ShareOf(lp, s, supply) = (lp * s) \div supply
    BY <1>1, <2>1, ShareNumber
  <2> QED BY <2>1, <2>2 DEF s
<1>3. n <= x * supply
  <2>1. n = lp * r + lp * x /\ x * (L + lp) = x * L + lp * x
    OBVIOUS
  <2>2. x * (L + lp) <= x * supply
    BY ProductMonotone
  <2>3. lp * r \in Nat /\ lp * x \in Nat /\ x * L \in Nat /\ x * supply \in Nat
    OBVIOUS
  <2> HIDE DEF n
  <2> QED BY <2>1, <2>2, <2>3
<1> HIDE DEF n
<1>4. q \in Nat /\ q * supply <= n
  BY <1>1, DivFloor
<1> HIDE DEF q
<1>5. q * supply <= x * supply
  <2>1. q * supply \in Nat /\ x * supply \in Nat
    BY <1>1, <1>4
  <2> QED BY <1>1, <1>3, <1>4, <2>1
<1>6. q <= x
  BY <1>1, <1>4, <1>5, ProductCancels
<1> QED BY <1>2, <1>4, <1>6

\* What is minted for a deposit is no more than its share of either side.
LEMMA MintedWithinShares ==
  ASSUME NEW x \in Nat, NEW y \in Nat, NEW rx \in Nat, NEW ry \in Nat, NEW L \in Nat,
         rx = 0 <=> ry = 0, L = 0 => rx = 0,
         NEW lp \in Nat, lp = Minted(x, y, rx, ry, L)
  PROVE  lp * rx <= x * L /\ lp * ry <= y * L
<1>1. CASE rx = 0
  <2>1. lp * rx = 0 /\ lp * ry = 0
    BY <1>1
  <2>2. x * L \in Nat /\ y * L \in Nat
    BY ProductNatural
  <2> HIDE DEF Minted
  <2> QED BY <2>1, <2>2
<1>2. CASE rx # 0
  <2>1. rx \in Nat \ {0} /\ ry \in Nat \ {0} /\ L # 0
    BY <1>2
  <2>2. x * L \in Nat /\ y * L \in Nat
    OBVIOUS
  <2>3. (x * L) \div rx \in Nat /\ (y * L) \div ry \in Nat
    BY <2>1, <2>2, DivFloor
  <2>4. lp <= (x * L) \div rx /\ lp <= (y * L) \div ry
    BY <2>1, <2>3 DEF Minted, Least
  <2> QED BY <2>1, <2>2, <2>4, DivIsLargest
<1> QED BY <1>1, <1>2

\* Rounding a share of two reserves down costs less than a unit of each: if the
\* product of the reserves has not fallen, neither has the product of what is paid,
\* with a unit added to each.
LEMMA WorthKept ==
  ASSUME NEW n \in Nat, NEW x \in Nat, NEW y \in Nat, NEW x2 \in Nat, NEW y2 \in Nat,
         NEW L \in Nat \ {0}, x2 * y2 >= x * y
  PROVE  /\ ShareOf(n, x, L) \in Nat /\ ShareOf(n, y, L) \in Nat
         /\ ShareOf(n, x2, L) \in Nat /\ ShareOf(n, y2, L) \in Nat
         /\ (ShareOf(n, x2, L) + 1) * (ShareOf(n, y2, L) + 1) >= ShareOf(n, x, L) * ShareOf(n, y, L)
<1> DEFINE a == ShareOf(n, x, L)
           b == ShareOf(n, y, L)
           c == ShareOf(n, x2, L)
           d == ShareOf(n, y2, L)
<1>1. n * x \in Nat /\ n * y \in Nat /\ n * x2 \in Nat /\ n * y2 \in Nat
  OBVIOUS
<1>2. /\ a \in Nat /\ a * L <= n * x
      /\ b \in Nat /\ b * L <= n * y
      /\ c \in Nat /\ n * x2 < c * L + L
      /\ d \in Nat /\ n * y2 < d * L + L
  <2>1. \A r \in Nat : ShareOf(n, r, L) = (n * r) \div L
    <3> TAKE r \in Nat
    <3>1. r \in Int /\ r >= 0
      OBVIOUS
    <3> QED BY <3>1, ShareNumber
  <2>2. a = (n * x) \div L /\ b = (n * y) \div L /\ c = (n * x2) \div L /\ d = (n * y2) \div L
    BY <2>1, Zenon
  <2> HIDE DEF a, b, c, d
  <2> QED BY <1>1, <2>2, DivFloor
<1> HIDE DEF a, b, c, d
<1>3. n * x2 <= (c + 1) * L /\ n * y2 <= (d + 1) * L
  BY <1>1, <1>2
<1>4. (a * L) * (b * L) <= (n * x) * (n * y)
  BY <1>1, <1>2, ProductMonotone
<1>5. (n * x2) * (n * y2) <= ((c + 1) * L) * ((d + 1) * L)
  <2>1. (c + 1) * L \in Nat /\ (d + 1) * L \in Nat
    BY <1>2
  <2> QED BY <1>1, <1>3, <2>1, ProductMonotone
<1>6. (n * x) * (n * y) <= (n * x2) * (n * y2)
  <2>1. (n * n) * (x * y) <= (n * n) * (x2 * y2)
    <3>1. n * n \in Nat /\ x * y \in Nat /\ x2 * y2 \in Nat
      OBVIOUS
    <3> QED BY <3>1, ProductMonotone
  <2>2. (n * n) * (x * y) = (n * x) * (n * y) /\ (n * n) * (x2 * y2) = (n * x2) * (n * y2)
    OBVIOUS
  <2> QED BY <2>1, <2>2
<1>7. (a * b) * (L * L) <= ((c + 1) * (d + 1)) * (L * L)
  <2>1. (a * b) * (L * L) = (a * L) * (b * L)
    BY <1>2
  <2>2. ((c + 1) * (d + 1)) * (L * L) = ((c + 1) * L) * ((d + 1) * L)
    BY <1>2
  <2> DEFINE e == (a * L) * (b * L)
             f == (n * x) * (n * y)
             g == (n * x2) * (n * y2)
             h == ((c + 1) * L) * ((d + 1) * L)
  <2>3. e \in Int /\ f \in Int /\ g \in Int /\ h \in Int
    BY <1>2
  <2>4. e <= f /\ f <= g /\ g <= h
    BY <1>4, <1>5, <1>6
  <2>5. e <= h
    <3> HIDE DEF e, f, g, h
    <3> QED BY <2>3, <2>4
  <2> QED BY <2>1, <2>2, <2>5
<1>8. a * b \in Nat /\ (c + 1) * (d + 1) \in Nat /\ L * L \in Nat \ {0}
  BY <1>2
<1>9. a * b <= (c + 1) * (d + 1)
  <2> DEFINE s == a * b
             t == (c + 1) * (d + 1)
             u == L * L
  <2>1. s \in Nat /\ t \in Nat /\ u \in Nat \ {0} /\ s * u <= t * u
    BY <1>7, <1>8
  <2> HIDE DEF s, t, u
  <2>2. s <= t
    BY <2>1, ProductCancels
  <2> QED BY <2>2 DEF s, t
<1> QED BY <1>2, <1>8, <1>9 DEF a, b, c, d

\* The share of a reserve below zero is that of its amount, below zero.
LEMMA ShareMirrored ==
  ASSUME NEW n \in Nat, NEW r \in Nat, NEW L \in Nat \ {0}
  PROVE  ShareOf(n, -r, L) = -ShareOf(n, r, L)
<1> DEFINE k == n * r
<1>1. k \in Nat /\ n * (-r) = -k
  BY ProductNatural
<1> HIDE DEF k
<1>2. Quotient(-k, L) = -Quotient(k, L)
  <2>1. k \div L \in Nat /\ 0 \div L = 0
    BY <1>1, DivFloor
  <2> QED BY <1>1, <2>1 DEF Quotient, Magnitude
<1> QED BY <1>1, <1>2 DEF ShareOf, k

\* The same as WorthKept for a pair that recorded reserves below zero.
LEMMA WorthKeptFromAny ==
  ASSUME NEW n \in Nat, NEW x \in Int, NEW y \in Int, NEW x2 \in Nat, NEW y2 \in Nat,
         NEW L \in Nat \ {0}, x2 * y2 >= x * y
  PROVE  (ShareOf(n, x2, L) + 1) * (ShareOf(n, y2, L) + 1) >= ShareOf(n, x, L) * ShareOf(n, y, L)
<1> DEFINE P(a, b) == ShareOf(n, a, L) * ShareOf(n, b, L)
           w == (ShareOf(n, x2, L) + 1) * (ShareOf(n, y2, L) + 1)
<1>1. ASSUME NEW a \in Nat, NEW b \in Nat, a * b <= x2 * y2
      PROVE  w >= P(a, b)
  BY <1>1, WorthKept
<1>2. /\ \A a \in Nat : ShareOf(n, a, L) \in Nat
      /\ \A a \in Int : ShareOf(n, a, L) \in Int
      /\ \A a \in Nat : ShareOf(n, -a, L) = -ShareOf(n, a, L)
  <2>1. \A a \in Int : ShareOf(n, a, L) \in Int /\ (a >= 0 => ShareOf(n, a, L) \in Nat)
    BY ShareNumber
  <2>2. \A a \in Nat : ShareOf(n, -a, L) = -ShareOf(n, a, L)
    BY ShareMirrored
  <2> QED BY <2>1, <2>2
<1>3. w \in Nat
  BY <1>2, ProductNatural
<1> HIDE DEF w
<1>4. CASE x >= 0 /\ y >= 0
  BY <1>1, <1>4 DEF w
<1>5. CASE x < 0 /\ y < 0
  <2>1. -x \in Nat /\ -y \in Nat /\ (-x) * (-y) = x * y
    BY <1>5
  <2>2. w >= P(-x, -y)
    BY <1>1, <2>1
  <2>3. ShareOf(n, x, L) = -ShareOf(n, -x, L) /\ ShareOf(n, y, L) = -ShareOf(n, -y, L)
    BY <1>2, <2>1
  <2>4. P(-x, -y) = P(x, y)
    <3> DEFINE s == ShareOf(n, -x, L)
               t == ShareOf(n, -y, L)
    <3>1. s \in Nat /\ t \in Nat
      BY <1>2, <2>1
    <3> HIDE DEF s, t
    <3>2. (-s) * (-t) = s * t
      BY <3>1
    <3> QED BY <2>3, <3>2 DEF s, t
  <2> QED BY <2>2, <2>4 DEF w
<1>6. CASE x < 0 /\ y >= 0
  <2>1. ShareOf(n, y, L) \in Nat /\ ShareOf(n, -x, L) \in Nat
        /\ ShareOf(n, x, L) = -ShareOf(n, -x, L)
    BY <1>2, <1>6
  <2>2. P(x, y) <= 0
    BY <2>1
  <2>3. P(x, y) \in Int
    BY <2>1
  <2> HIDE DEF P
  <2>4. w >= P(x, y)
    BY <1>3, <2>2, <2>3
  <2> QED BY <2>4 DEF w, P
<1>7. CASE x >= 0 /\ y < 0
  <2>1. ShareOf(n, x, L) \in Nat /\ ShareOf(n, -y, L) \in Nat
        /\ ShareOf(n, y, L) = -ShareOf(n, -y, L)
    BY <1>2, <1>7
  <2>2. P(x, y) <= 0
    BY <2>1
  <2>3. P(x, y) \in Int
    BY <2>1
  <2> HIDE DEF P
  <2>4. w >= P(x, y)
    BY <1>3, <2>2, <2>3
  <2> QED BY <2>4 DEF w, P
<1> QED BY <1>4, <1>5, <1>6, <1>7
=============================================================================
