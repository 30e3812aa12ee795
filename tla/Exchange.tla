------------------------------ MODULE Exchange ------------------------------
(***************************************************************************)
(* The exchange: the factory's registry, the router and several pairs over *)
(* shared token ledgers (contracts/factory, contracts/router).             *)
(*                                                                         *)
(* A router transaction calls other contracts, and a panic in any of them  *)
(* undoes all of it.  A call is therefore an operator from the world it    *)
(* finds to the set of worlds it may leave: one world, or none if it       *)
(* panics.  Calls are chained by After; an action takes the world from     *)
(* before a transaction to after it.                                       *)
(*                                                                         *)
(* The token contracts and a first deposit let negative amounts through.   *)
(* negatives counts those paid to each address; an address they were not   *)
(* paid to keeps what the exchange promises it.                            *)
(***************************************************************************)
EXTENDS PairMath, TokenLedger, Sequences

CONSTANTS
  Tokens,           \* token addresses, as numbers: the host orders addresses
  Users,
  Router,
  PairSlots,        \* the addresses the deployer derives for pairs 0, 1, ...
  Endow,            \* how much of each token a user owns at the start
  Recipients,       \* the `to' addresses callers name
  Deposits,         \* the amounts callers offer to deposit
  Transfers,        \* what users transfer by themselves, to whom
  Amounts, Mins,    \* the other amounts, and the limits, callers state
  Paths,            \* the routes callers state
  Deadlines,        \* the deadlines callers state
  MaxNegative,      \* bound: the negative amounts paid to one address
  MaxNow            \* bound: the last ledger timestamp considered

PairAddresses == {PairSlots[i] : i \in DOMAIN PairSlots}
Address == Users \cup PairAddresses \cup {Router}

ASSUME TokenAssumption ==
  /\ Tokens \subseteq Nat
  /\ Endow \in [Users -> Nat] /\ IsFiniteSet(Units(Endow))
ASSUME AddressAssumption ==
  /\ PairSlots \in Seq(PairAddresses)
  /\ \A i, j \in DOMAIN PairSlots : PairSlots[i] = PairSlots[j] => i = j
  /\ Router \notin Users /\ (Users \cup {Router}) \cap PairAddresses = {}
  /\ Address \cap Tokens = {}
ASSUME InputAssumption ==
  /\ Recipients \subseteq Address /\ Transfers \subseteq Users \X Address \X Int
  /\ Deposits \subseteq Int /\ Amounts \subseteq Int /\ Mins \subseteq Int
  /\ Deadlines \subseteq Nat
  /\ MaxNow \in Nat /\ Paths \subseteq Seq(Tokens)

VARIABLES
  bal,        \* balances, by token and address
  pool,       \* the storage of each deployed pair
  registry,   \* the factory's Pair(lo, hi) entries
  pairList,   \* its PairList entries, PairCount of them
  negatives,  \* history: how many negative amounts each address was paid
  now         \* the timestamp of the current ledger

vars == <<bal, pool, registry, pairList, negatives, now>>

World == [bal |-> bal, pool |-> pool, registry |-> registry, pairList |-> pairList,
          negatives |-> negatives]

Become(w) ==
  /\ bal' = w.bal /\ pool' = w.pool
  /\ registry' = w.registry /\ pairList' = w.pairList
  /\ negatives' = w.negatives

After(worlds, Call(_)) == UNION {Call(w) : w \in worlds}

Init ==
  /\ bal = [t \in Tokens |-> [a \in Address |-> IF a \in Users THEN Endow[a] ELSE 0]]
  /\ pool = << >> /\ registry = << >> /\ pairList = << >>
  /\ negatives = [a \in Address |-> 0]
  /\ now = 0

-----------------------------------------------------------------------------
(* Token and pair calls.                                                   *)

(* The payment of an amount to an address, as the history records it.      *)
Noted(history, to, amount) ==
  IF amount < 0 THEN [history EXCEPT ![to] = @ + 1] ELSE history

\* Mutation of Pay: the balance is not checked.
PayUnchecked(w, token, from, to, amount) ==
  {[w EXCEPT !.bal[token] = Moved(@, from, to, amount),
             !.negatives = Noted(@, to, amount)]}

Pay(w, token, from, to, amount) ==
  IF CanPay(w.bal[token], from, to, amount)
  THEN {[w EXCEPT !.bal[token] = Moved(@, from, to, amount),
                  !.negatives = Noted(@, to, amount)]}
  ELSE {}

SetReserves(w, p) ==
  LET q == w.pool[p]
  IN  [w EXCEPT !.pool[p] = [q EXCEPT !.reserveX = w.bal[q.tokenX][p],
                                      !.reserveY = w.bal[q.tokenY][p]]]

(* Both tokens of a pair are paid, x units of one and y of the other.      *)
PayBoth(w, q, from, to, x, y) ==
  After(Pay(w, q.tokenX, from, to, x), LAMBDA u : Pay(u, q.tokenY, from, to, y))

(* mint: the first deposit also locks the minimum.                         *)
Mint(w, p, to, n) ==
  LET q == w.pool[p]
      locked == IF q.supply = 0 THEN MinLiquidity ELSE 0
  IN  [w EXCEPT !.pool[p] = [q EXCEPT !.supply = @ + locked + n, !.lp = Credited(@, to, n)]]

Burn(w, p, from, n) ==
  LET q == w.pool[p]
  IN  [w EXCEPT !.pool[p] = [q EXCEPT !.supply = @ - n, !.lp = Debited(@, from, n)]]

Deposit(w, p, caller, x, y, to) ==
  LET q  == w.pool[p]
      lp == Minted(x, y, q.reserveX, q.reserveY, q.supply)
  IN  IF MintedOk(x, y, q.reserveX, q.reserveY, q.supply) /\ lp > 0
      THEN {SetReserves(v, p) :
              v \in {u \in {Mint(z, p, to, lp) : z \in PayBoth(w, q, caller, p, x, y)} :
                       Fits(u.pool[p].supply)}}
      ELSE {}

PairAdd(w, p, caller, xDesired, yDesired, to) ==
  LET q == w.pool[p]
  IN  UNION {Deposit(w, p, caller, a[1], a[2], to) :
               a \in Settled(xDesired, yDesired, 0, 0, q.reserveX, q.reserveY)}

PairRemove(w, p, caller, liquidity, xMin, yMin, to) ==
  LET q == w.pool[p]
      x == ShareOf(liquidity, q.reserveX, q.supply)
      y == ShareOf(liquidity, q.reserveY, q.supply)
  IN  IF /\ liquidity > 0 /\ q.supply # 0
         /\ Fits(liquidity * q.reserveX) /\ Fits(liquidity * q.reserveY)
         /\ x > 0 /\ y > 0 /\ x >= xMin /\ y >= yMin
         /\ CanDebit(q.lp, caller, liquidity)
      THEN {SetReserves(v, p) : v \in PayBoth(Burn(w, p, caller, liquidity), q, p, to, x, y)}
      ELSE {}

(* swap, as the router calls it: one output positive, the other 0.         *)
PairSwap(w, p, xOut, yOut, to) ==
  LET q == w.pool[p]
      accepted(v) ==
        LET bx  == v.bal[q.tokenX][p]
            by  == v.bal[q.tokenY][p]
            xIn == AmountIn(bx, q.reserveX, xOut)
            yIn == AmountIn(by, q.reserveY, yOut)
        IN  /\ AmountInOk(bx, q.reserveX, xOut) /\ AmountInOk(by, q.reserveY, yOut)
            /\ xIn > 0 \/ yIn > 0
            /\ KHolds(q.reserveX, q.reserveY, bx, by, xIn, yIn)
  IN  IF /\ (xOut > 0) # (yOut > 0)
         /\ xOut < q.reserveX /\ yOut < q.reserveY
         /\ to \notin {q.tokenX, q.tokenY}
      THEN {SetReserves(v, p) :
              v \in {u \in IF xOut > 0 THEN Pay(w, q.tokenX, p, to, xOut)
                                       ELSE Pay(w, q.tokenY, p, to, yOut) : accepted(u)}}
      ELSE {}

-----------------------------------------------------------------------------
(* The factory.                                                            *)

\* Mutation of Sort: the order of the arguments is kept.
SortNot(a, b) == <<a, b>>

Sort(a, b) == IF a < b THEN <<a, b>> ELSE <<b, a>>

PairExists(w, a, b) == Sort(a, b) \in DOMAIN w.registry

GetPair(w, a, b) == w.registry[Sort(a, b)]

(* The entry of k is written, in a map that may not have had one.          *)
With(f, k, value) == [x \in DOMAIN f \cup {k} |-> IF x = k THEN value ELSE f[x]]

Created(w, a, b) ==
  LET p == PairSlots[Len(w.pairList) + 1]
      q == [tokenX |-> Sort(a, b)[1], tokenY |-> Sort(a, b)[2],
            reserveX |-> 0, reserveY |-> 0, supply |-> 0, lp |-> [u \in Address |-> 0]]
  IN  IF a # b /\ ~PairExists(w, a, b) /\ Len(w.pairList) < Len(PairSlots)
      THEN {[w EXCEPT !.pool = With(@, p, q),
                      !.registry = With(@, Sort(a, b), p),
                      !.pairList = Append(@, p)]}
      ELSE {}

-----------------------------------------------------------------------------
(* The router: deposits and withdrawals.                                   *)

(* The reserves of the pair of a and b, in that order.                     *)
ReservesOf(w, a, b) ==
  LET q == w.pool[GetPair(w, a, b)]
  IN  IF q.tokenX = a THEN <<q.reserveX, q.reserveY>> ELSE <<q.reserveY, q.reserveX>>

(***************************************************************************)
(* The router settles the amounts, in the caller's order of the tokens,    *)
(* against the caller's minimums; the pair settles once more, in its own   *)
(* order, on what the router chose, with no minimums.                      *)
(***************************************************************************)
RouterAdd(w, caller, a, b, aDesired, bDesired, aMin, bMin, to) ==
  LET settle(v) ==
        LET p == GetPair(v, a, b)
            r == ReservesOf(v, a, b)
        IN  UNION {IF v.pool[p].tokenX = a
                   THEN PairAdd(v, p, caller, s[1], s[2], to)
                   ELSE PairAdd(v, p, caller, s[2], s[1], to) :
                     s \in Settled(aDesired, bDesired, aMin, bMin, r[1], r[2])}
  IN  After(IF PairExists(w, a, b) THEN {w} ELSE Created(w, a, b), settle)

RouterRemove(w, caller, a, b, liquidity, aMin, bMin, to) ==
  IF ~PairExists(w, a, b) THEN {}
  ELSE LET p == GetPair(w, a, b) IN
       IF w.pool[p].tokenX = a
       THEN PairRemove(w, p, caller, liquidity, aMin, bMin, to)
       ELSE PairRemove(w, p, caller, liquidity, bMin, aMin, to)

-----------------------------------------------------------------------------
(* The router: swaps along a path.                                         *)

PathOk(w, path) ==
  /\ Len(path) >= 2
  /\ \A i \in 1 .. Len(path) - 1 : PairExists(w, path[i], path[i + 1])

(* The amounts along a path; 0 where the computation panics, which also    *)
(* makes the amounts after (for AmountsIn: before) it 0.                   *)

AmountsOut(w, amountIn, path) ==
  LET amounts[i \in 1 .. Len(path)] ==
        IF i = 1 THEN amountIn
        ELSE LET r == ReservesOf(w, path[i - 1], path[i]) IN
             IF GetAmountOutOk(amounts[i - 1], r[1], r[2])
             THEN GetAmountOut(amounts[i - 1], r[1], r[2])
             ELSE 0
  IN  amounts

AmountsIn(w, amountOut, path) ==
  LET amounts[i \in 1 .. Len(path)] ==
        IF i = Len(path) THEN amountOut
        ELSE LET r == ReservesOf(w, path[i], path[i + 1]) IN
             IF GetAmountInOk(amounts[i + 1], r[1], r[2])
             THEN GetAmountIn(amounts[i + 1], r[1], r[2])
             ELSE 0
  IN  amounts

AllPositive(amounts) == \A i \in DOMAIN amounts : amounts[i] > 0

PairFor(w, path, i) == GetPair(w, path[i], path[i + 1])

\* Mutation of HopTo: the last hop but one already pays the recipient.
HopToEarly(w, path, i, to) ==
  IF i + 2 < Len(path) THEN PairFor(w, path, i + 1) ELSE to

(* Where hop i pays: into the next pair, at the end to the recipient.      *)
HopTo(w, path, i, to) ==
  IF i + 1 < Len(path) THEN PairFor(w, path, i + 1) ELSE to

(* Hop i pays out what was computed before the first hop.                  *)
Hop(w, amounts, path, to, i) ==
  LET p   == PairFor(w, path, i)
      out == amounts[i + 1]
  IN  IF w.pool[p].tokenX = path[i + 1]
      THEN PairSwap(w, p, out, 0, HopTo(w, path, i, to))
      ELSE PairSwap(w, p, 0, out, HopTo(w, path, i, to))

RunSwapChain(w, amounts, path, to) ==
  LET chain[i \in 0 .. Len(path) - 1] ==
        IF i = 0 THEN {w} ELSE UNION {Hop(v, amounts, path, to, i) : v \in chain[i - 1]}
  IN  chain[Len(path) - 1]

SwapExactIn(w, caller, amountIn, outMin, path, to) ==
  LET amounts == AmountsOut(w, amountIn, path) IN
  IF PathOk(w, path) /\ AllPositive(amounts) /\ amounts[Len(path)] >= outMin
  THEN After(Pay(w, path[1], caller, PairFor(w, path, 1), amountIn),
             LAMBDA v : RunSwapChain(v, amounts, path, to))
  ELSE {}

\* Mutation of SwapExactOut: the most the caller accepts is taken.
SwapExactOutTakingMax(w, caller, amountOut, inMax, path, to) ==
  LET amounts == AmountsIn(w, amountOut, path) IN
  IF PathOk(w, path) /\ AllPositive(amounts) /\ amounts[1] <= inMax
  THEN After(Pay(w, path[1], caller, PairFor(w, path, 1), inMax),
             LAMBDA v : RunSwapChain(v, amounts, path, to))
  ELSE {}

SwapExactOut(w, caller, amountOut, inMax, path, to) ==
  LET amounts == AmountsIn(w, amountOut, path) IN
  IF PathOk(w, path) /\ AllPositive(amounts) /\ amounts[1] <= inMax
  THEN After(Pay(w, path[1], caller, PairFor(w, path, 1), amounts[1]),
             LAMBDA v : RunSwapChain(v, amounts, path, to))
  ELSE {}

-----------------------------------------------------------------------------
(* Transactions.  The router's refuse a passed deadline (check_deadline).  *)

InTime(deadline) == now <= deadline

CreatePair(a, b) == (\E w \in Created(World, a, b) : Become(w)) /\ UNCHANGED now

AddLiquidity(caller, a, b, aDesired, bDesired, aMin, bMin, to, deadline) ==
  /\ InTime(deadline)
  /\ \E w \in RouterAdd(World, caller, a, b, aDesired, bDesired, aMin, bMin, to) : Become(w)
  /\ UNCHANGED now

RemoveLiquidity(caller, a, b, liquidity, aMin, bMin, to, deadline) ==
  /\ InTime(deadline)
  /\ \E w \in RouterRemove(World, caller, a, b, liquidity, aMin, bMin, to) : Become(w)
  /\ UNCHANGED now

SwapExactTokensForTokens(caller, amountIn, outMin, path, to, deadline) ==
  /\ InTime(deadline)
  /\ \E w \in SwapExactIn(World, caller, amountIn, outMin, path, to) : Become(w)
  /\ UNCHANGED now

SwapTokensForExactTokens(caller, amountOut, inMax, path, to, deadline) ==
  /\ InTime(deadline)
  /\ \E w \in SwapExactOut(World, caller, amountOut, inMax, path, to) : Become(w)
  /\ UNCHANGED now

(* Calls that do not go through the router: plain token transfers, and the *)
(* sync of a pair.                                                         *)

Transfer(token, from, to, amount) ==
  /\ amount < 0 => negatives[to] < MaxNegative
  /\ \E w \in Pay(World, token, from, to, amount) : Become(w)
  /\ UNCHANGED now

Sync(p) == Become(SetReserves(World, p)) /\ UNCHANGED now

CloseLedger ==
  now < MaxNow /\ now' = now + 1 /\ UNCHANGED <<bal, pool, registry, pairList, negatives>>

Next ==
  \/ \E a, b \in Tokens : CreatePair(a, b)
  \/ \E caller \in Users, to \in Recipients, a, b \in Tokens, aMin, bMin \in Mins,
        deadline \in Deadlines :
       \/ \E m, n \in Deposits : AddLiquidity(caller, a, b, m, n, aMin, bMin, to, deadline)
       \/ \E n \in Amounts : RemoveLiquidity(caller, a, b, n, aMin, bMin, to, deadline)
  \/ \E caller \in Users, to \in Recipients, n \in Amounts, limit \in Mins, path \in Paths,
        deadline \in Deadlines :
       \/ SwapExactTokensForTokens(caller, n, limit, path, to, deadline)
       \/ SwapTokensForExactTokens(caller, n, limit, path, to, deadline)
  \/ \E t \in Tokens, a \in Transfers : Transfer(t, a[1], a[2], a[3])
  \/ \E p \in DOMAIN pool : Sync(p)
  \/ CloseLedger

Spec == Init /\ [][Next]_vars
-----------------------------------------------------------------------------
(* Properties.  Most are about every call a state permits: about the world *)
(* a transaction would leave, whether or not it is sent.                   *)

(* Nobody has paid the address a negative amount.                          *)
Clean(a) == negatives[a] = 0

\* An address that was never paid a negative amount is never in debt, and such
\* a pair records no negative reserve; LP balances and supplies of the pairs,
\* which no transaction here transfers, are never negative.
TypeOK ==
  /\ bal \in [Tokens -> [Address -> Int]]
  /\ \A p \in DOMAIN pool :
       pool[p] \in [tokenX : Tokens, tokenY : Tokens, reserveX : Int, reserveY : Int,
                    supply : Nat, lp : [Address -> Nat]]
  /\ \A k \in DOMAIN registry : registry[k] \in DOMAIN pool
  /\ pairList \in Seq(DOMAIN pool)
  /\ negatives \in [Address -> Nat]
  /\ \A a \in Address : Clean(a) => \A t \in Tokens : bal[t][a] >= 0
  /\ \A p \in DOMAIN pool : Clean(p) => pool[p].reserveX >= 0 /\ pool[p].reserveY >= 0
  /\ now \in 0 .. MaxNow

(* A pair has what it records as its reserves.                             *)
Backed(p) ==
  /\ pool[p].reserveX <= bal[pool[p].tokenX][p]
  /\ pool[p].reserveY <= bal[pool[p].tokenY][p]

\* A pair that was never paid a negative amount has what it records as its
\* reserves, in ledgers it shares with every other pair, whoever pays into it
\* or is paid by it and whatever was done to the others; its LP units are no
\* more than the root of the product of its reserves.  The LP units of every
\* pair are what it minted, and no transaction makes or destroys a token.
PoolsSound ==
  /\ \A p \in DOMAIN pool :
       /\ Clean(p) => /\ Backed(p)
                      /\ pool[p].supply * pool[p].supply <= pool[p].reserveX * pool[p].reserveY
       /\ pool[p].supply = Total(pool[p].lp) + (IF pool[p].supply = 0 THEN 0 ELSE MinLiquidity)
  /\ \A t \in Tokens : Total(bal[t]) = Total(Endow)

(* What a pair stores, before it is created nothing.                       *)
Stored(p, field) == IF p \in DOMAIN pool THEN pool[p][field] ELSE 0

V(p) == INSTANCE Vault WITH
  Locked <- MinLiquidity,
  x <- Stored(p, "reserveX"), y <- Stored(p, "reserveY"), shares <- Stored(p, "supply"),
  intact <- Clean(p)

\* Whatever a transaction does along a route, and in the pairs it passes, each
\* pair keeps what a vault promises to those who hold a share of it, as long as
\* that pair itself is not paid a negative amount.
PairsAreVaults == [][\A p \in PairAddresses : V(p)!Next \/ UNCHANGED V(p)!vault]_vars

\* Two tokens, in whatever order they are given, have at most one pair; the
\* lookup by tokens, the list and the tokens the pairs were initialized with
\* describe the same pairs.
RegistrySound ==
  /\ \A a, b \in Tokens :
       PairExists(World, a, b) =>
         /\ PairExists(World, b, a) /\ GetPair(World, a, b) = GetPair(World, b, a)
         /\ {pool[GetPair(World, a, b)].tokenX, pool[GetPair(World, a, b)].tokenY} = {a, b}
  /\ \A p, q \in DOMAIN pool :
       {pool[p].tokenX, pool[p].tokenY} = {pool[q].tokenX, pool[q].tokenY} => p = q
  /\ \A p \in DOMAIN pool : Cardinality({i \in DOMAIN pairList : pairList[i] = p}) = 1
  /\ Cardinality(DOMAIN registry) = Len(pairList)

(* A path that uses no pair twice.  The amounts along a path are computed  *)
(* from the reserves before it, so no promise is made for others.          *)
Simple(path) ==
  \A i, j \in 1 .. Len(path) - 1 :
    {path[i], path[i + 1]} = {path[j], path[j + 1]} => i = j

(* The routes along which every pair has what it records; a payment of a   *)
(* negative amount, and nothing else, may leave a pair with less.          *)
Routes ==
  {path \in Paths :
     /\ Simple(path) /\ PathOk(World, path)
     /\ \A i \in 1 .. Len(path) - 1 : Backed(PairFor(World, path, i))}

(* The caller can pay an amount into the first pair of a route.            *)
CanStart(caller, path, n) == CanPay(bal[path[1]], caller, PairFor(World, path, 1), n)

\* What the router quotes for an input, the pairs accept: every hop passes
\* the check at the end of swap, whatever was donated to the pairs before and
\* whatever was ever taken from them, if they have what they record.
QuotesExecute ==
  \A caller, to \in Users, n \in Amounts, path \in Routes :
    AllPositive(AmountsOut(World, n, path)) /\ CanStart(caller, path, n)
      => SwapExactIn(World, caller, n, 0, path, to) # {}

\* The input the router computes for an output suffices for every hop of such
\* a route.
InputsSuffice ==
  \A caller, to \in Users, n \in Amounts, path \in Routes :
    LET amounts == AmountsIn(World, n, path) IN
    AllPositive(amounts) /\ CanStart(caller, path, amounts[1])
      => SwapExactOut(World, caller, n, amounts[1], path, to) # {}

(* After a swap that pays in of First and out of Last, no user and not the *)
(* router has anything else than before.                                   *)
Delivers(v, caller, to, path, in, out) ==
  \A t \in Tokens, u \in Users \cup {Router} :
    v.bal[t][u] = bal[t][u]
                    - (IF u = caller /\ t = path[1] THEN in ELSE 0)
                    + (IF u = to /\ t = path[Len(path)] THEN out ELSE 0)

\* A swap takes exactly the input, and at most what the caller accepts; `to'
\* receives exactly the output, and at least what the caller accepts; nothing
\* stays with the router or between the hops, on any path.
SwapDelivers ==
  \A caller, to \in Users, n \in Amounts, limit \in Mins, path \in Paths :
    /\ \A v \in SwapExactIn(World, caller, n, limit, path, to) :
         LET out == AmountsOut(World, n, path)[Len(path)]
         IN  out >= limit /\ Delivers(v, caller, to, path, n, out)
    /\ \A v \in SwapExactOut(World, caller, n, limit, path, to) :
         /\ AmountsIn(World, n, path)[1] <= limit
         /\ Delivers(v, caller, to, path, AmountsIn(World, n, path)[1], n)

(* A pair's reserves are its balances, and what it has is all deposited.   *)
Undonated(p) ==
  /\ pool[p].supply = 0 => pool[p].reserveX = 0 /\ pool[p].reserveY = 0
  /\ pool[p].reserveX = bal[pool[p].tokenX][p]
  /\ pool[p].reserveY = bal[pool[p].tokenY][p]

\* Depositing through the router and withdrawing the LP units at once returns
\* at most what was deposited, in both tokens: none of the roundings, of the
\* router, of the pair's settling, of mint and of burn, favours the caller.
DepositsDoNotPay ==
  \A caller \in Users, m, n \in Deposits, p \in {q \in DOMAIN pool : Undonated(q)} :
    LET a == pool[p].tokenX
        b == pool[p].tokenY
    IN  \A v \in RouterAdd(World, caller, a, b, m, n, 0, 0, caller) :
          \A u \in RouterRemove(v, caller, a, b, v.pool[p].lp[caller] - pool[p].lp[caller],
                                0, 0, caller) :
            u.bal[a][caller] <= bal[a][caller] /\ u.bal[b][caller] <= bal[b][caller]

\* router/src/contract.rs, line 3: slippage protection on every call.  A
\* deposit takes at least the minimums the caller stated, if they are not
\* above what the caller offered.
DocDepositMinimums ==
  \A caller \in Users, a, b \in Tokens, m, n \in Deposits, aMin, bMin \in Mins :
    aMin <= m /\ bMin <= n =>
      \A v \in RouterAdd(World, caller, a, b, m, n, aMin, bMin, caller) :
        /\ bal[a][caller] - v.bal[a][caller] >= aMin
        /\ bal[b][caller] - v.bal[b][caller] >= bMin
=============================================================================
