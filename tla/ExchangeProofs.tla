---------------------------- MODULE ExchangeProofs ----------------------------
(***************************************************************************)
(* The safety of the exchange, for every set of tokens, users and pairs,   *)
(* every route, every fee and every amount, of either sign.                *)
(*                                                                         *)
(* A transaction is a chain of calls, so the invariant is stated of worlds *)
(* and kept by every call, not only by every transaction.  What it says of *)
(* balances and reserves, it says of the addresses that were never paid a  *)
(* negative amount; the books of LP units and tokens and the registry are  *)
(* right whatever was paid.  What the calls promise follows from it, and   *)
(* so does what the web client and the SDK compute of a call before they   *)
(* send it.                                                                *)
(***************************************************************************)
EXTENDS Clients, TokenLedgerProofs, PairMathProofs

(* A record of the things a transaction may change.                        *)
IsWorld(w) ==
  w = [bal |-> w.bal, pool |-> w.pool, registry |-> w.registry, pairList |-> w.pairList,
       negatives |-> w.negatives]

IsPool(q) ==
  /\ q = [tokenX |-> q.tokenX, tokenY |-> q.tokenY, reserveX |-> q.reserveX,
          reserveY |-> q.reserveY, supply |-> q.supply, lp |-> q.lp]
  /\ q.tokenX \in Tokens /\ q.tokenY \in Tokens /\ q.tokenX < q.tokenY
  /\ q.reserveX \in Int /\ q.reserveY \in Int /\ q.supply \in Nat
  /\ q.lp \in [Address -> Nat] /\ IsLedger(q.lp)
  /\ q.supply = Total(q.lp) + (IF q.supply = 0 THEN 0 ELSE MinLiquidity)

LedgersOk(w) ==
  /\ w.bal \in [Tokens -> [Address -> Int]]
  /\ \A t \in Tokens : IsLedger(w.bal[t]) /\ Total(w.bal[t]) = Total(Endow)
  /\ w.negatives \in [Address -> Nat]
  /\ \A a \in Address, t \in Tokens : w.negatives[a] = 0 => w.bal[t][a] >= 0

PoolsOk(w) ==
  /\ w.pool = [p \in DOMAIN w.pool |-> w.pool[p]]
  /\ DOMAIN w.pool \subseteq PairAddresses
  /\ \A p \in DOMAIN w.pool : IsPool(w.pool[p])

(* The pair has the reserves it records, and its supply is within them.    *)
Solvent(w, p) ==
  LET q == w.pool[p]
  IN  /\ q.reserveX >= 0 /\ q.reserveX <= w.bal[q.tokenX][p]
      /\ q.reserveY >= 0 /\ q.reserveY <= w.bal[q.tokenY][p]
      /\ q.supply * q.supply <= q.reserveX * q.reserveY

TokensOf(q) == <<q.tokenX, q.tokenY>>

RegistryOk(w) ==
  /\ w.registry = [k \in DOMAIN w.registry |-> w.registry[k]]
  /\ w.pairList \in Seq(PairAddresses) /\ Len(w.pairList) <= Len(PairSlots)
  /\ \A i \in 1 .. Len(w.pairList) : w.pairList[i] = PairSlots[i]
  /\ DOMAIN w.pool = {w.pairList[i] : i \in 1 .. Len(w.pairList)}
  /\ \A k \in DOMAIN w.registry :
       w.registry[k] \in DOMAIN w.pool /\ TokensOf(w.pool[w.registry[k]]) = k
  /\ \A p \in DOMAIN w.pool :
       TokensOf(w.pool[p]) \in DOMAIN w.registry /\ w.registry[TokensOf(w.pool[p])] = p
  /\ IsFiniteSet(DOMAIN w.registry) /\ Cardinality(DOMAIN w.registry) = Len(w.pairList)

WorldOk(w) ==
  /\ IsWorld(w) /\ LedgersOk(w) /\ PoolsOk(w) /\ RegistryOk(w)
  /\ \A p \in DOMAIN w.pool : w.negatives[p] = 0 => Solvent(w, p)

(* What was paid to an address stays recorded.                             *)
Remembers(w, v) == \A a \in Address : w.negatives[a] <= v.negatives[a]

(* No account of As loses anything, unless it is paid a negative amount.   *)
NoLoss(w, v, As) ==
  \A a \in As, t \in Tokens : v.negatives[a] = w.negatives[a] => v.bal[t][a] >= w.bal[t][a]

-----------------------------------------------------------------------------
(* Token calls. *)

(* What a payment changes: two balances of one token, and no total.        *)
Paid(w, v, t, from, to, n) ==
  /\ IsWorld(v) /\ LedgersOk(v)
  /\ v.pool = w.pool /\ v.registry = w.registry /\ v.pairList = w.pairList
  /\ v.negatives = Noted(w.negatives, to, n)
  /\ n <= w.bal[t][from]
  /\ \A s \in Tokens : s # t => v.bal[s] = w.bal[s]
  /\ \A a \in Address :
       v.bal[t][a] = w.bal[t][a] - (IF a = from THEN n ELSE 0) + (IF a = to THEN n ELSE 0)
  /\ Remembers(w, v) /\ NoLoss(w, v, Address \ {from})

\* The history of negative payments only grows, at the payee.
LEMMA NotedFacts ==
  ASSUME NEW h \in [Address -> Nat], NEW to \in Address, NEW n \in Int
  PROVE  /\ Noted(h, to, n) \in [Address -> Nat]
         /\ \A a \in Address : h[a] <= Noted(h, to, n)[a]
         /\ \A a \in Address : a # to => Noted(h, to, n)[a] = h[a]
         /\ n < 0 => Noted(h, to, n)[to] = h[to] + 1
         /\ n >= 0 => Noted(h, to, n) = h
<1>1. CASE n < 0
  <2>1. Noted(h, to, n) = [h EXCEPT ![to] = @ + 1]
    BY <1>1 DEF Noted
  <2> QED BY <1>1, <2>1
<1>2. CASE ~(n < 0)
  <2>1. Noted(h, to, n) = h
    BY <1>2 DEF Noted
  <2> QED BY <1>2, <2>1
<1> QED BY <1>1, <1>2

\* A payment moves tokens, to oneself too, and makes none.
LEMMA PayStep ==
  ASSUME NEW w, IsWorld(w), LedgersOk(w),
         NEW t \in Tokens, NEW from \in Address, NEW to \in Address, NEW n \in Int,
         NEW v \in Pay(w, t, from, to, n)
  PROVE  Paid(w, v, t, from, to, n)
<1> DEFINE b == w.bal[t]
           c == Moved(b, from, to, n)
           h == Noted(w.negatives, to, n)
<1>1. /\ b \in [Address -> Int] /\ IsLedger(b) /\ Total(b) = Total(Endow) /\ DOMAIN b = Address
      /\ w.negatives \in [Address -> Nat]
  BY DEF LedgersOk
<1>2. /\ CanPay(b, from, to, n)
      /\ v = [w EXCEPT !.bal[t] = c, !.negatives = h]
  BY DEF Pay
<1>3. /\ v = [bal |-> [w.bal EXCEPT ![t] = c], pool |-> w.pool,
              registry |-> w.registry, pairList |-> w.pairList, negatives |-> h]
      /\ IsWorld(v)
  BY <1>2 DEF IsWorld
<1>4. IsLedger(c) /\ Total(c) = Total(b)
  BY <1>1, TotalMoved
<1>5. n <= b[from] /\ CanDebit(b, from, n)
  BY <1>1, <1>2 DEF CanPay, CanDebit
<1>6. /\ c \in [Address -> Int]
      /\ \A a \in Address : c[a] = b[a] - (IF a = from THEN n ELSE 0)
                                        + (IF a = to THEN n ELSE 0)
  BY <1>1 DEF Moved, Credited, Debited
<1>7. /\ h \in [Address -> Nat]
      /\ \A a \in Address : w.negatives[a] <= h[a] /\ (a # to => h[a] = w.negatives[a])
      /\ n < 0 => h[to] = w.negatives[to] + 1
      /\ n >= 0 => h = w.negatives
  BY <1>1, NotedFacts
<1>8. \A a \in Address : /\ a = from /\ from # to => c[a] >= 0
                         /\ n >= 0 /\ b[a] >= 0 => c[a] >= 0
                         /\ n >= 0 /\ a # from => c[a] >= b[a]
  BY <1>1, <1>5, MovedSign
<1>9. \A a \in Address : a \notin {from, to} => c[a] = b[a]
  BY <1>1, <1>6
<1> HIDE DEF c, h
<1>10. /\ v.bal = [w.bal EXCEPT ![t] = c] /\ v.pool = w.pool
       /\ v.registry = w.registry /\ v.pairList = w.pairList /\ v.negatives = h
  BY <1>3
<1>11. v.bal[t] = c /\ \A s \in Tokens : s # t => v.bal[s] = w.bal[s]
  BY <1>10 DEF LedgersOk
<1>12. \A a \in Address : h[a] = w.negatives[a] => n >= 0 \/ a # to
  BY <1>1, <1>7
<1>13. \A a \in Address : h[a] = 0 => w.negatives[a] = 0
  BY <1>1, <1>7
<1>14. \A a \in Address, s \in Tokens : h[a] = 0 => v.bal[s][a] >= 0
  <2> SUFFICES ASSUME NEW a \in Address, NEW s \in Tokens, h[a] = 0 PROVE v.bal[s][a] >= 0
    OBVIOUS
  <2>1. w.negatives[a] = 0 /\ w.bal[s][a] >= 0 /\ (n >= 0 \/ a # to)
    BY <1>12, <1>13 DEF LedgersOk
  <2>2. CASE s # t
    BY <1>11, <2>1, <2>2
  <2>3. CASE s = t
    <3>1. b[a] >= 0
      BY <2>1, <2>3
    <3>2. c[a] >= 0
      BY <1>1, <1>8, <1>9, <2>1, <3>1
    <3> QED BY <1>11, <2>3, <3>2
  <2> QED BY <2>2, <2>3
<1>15. LedgersOk(v)
  <2>1. v.bal \in [Tokens -> [Address -> Int]]
    BY <1>6, <1>10 DEF LedgersOk
  <2>2. \A s \in Tokens : IsLedger(v.bal[s]) /\ Total(v.bal[s]) = Total(Endow)
    BY <1>1, <1>4, <1>11 DEF LedgersOk
  <2> QED BY <1>7, <1>10, <1>14, <2>1, <2>2 DEF LedgersOk
<1>16. NoLoss(w, v, Address \ {from})
  <2> SUFFICES ASSUME NEW a \in Address \ {from}, NEW s \in Tokens,
                      v.negatives[a] = w.negatives[a]
               PROVE  v.bal[s][a] >= w.bal[s][a]
    BY DEF NoLoss
  <2>1. w.bal[s][a] \in Int /\ (n >= 0 \/ a # to)
    BY <1>10, <1>12 DEF LedgersOk
  <2>2. CASE s # t
    BY <1>11, <2>1, <2>2
  <2>3. CASE s = t
    <3>1. c[a] >= b[a]
      BY <1>1, <1>8, <1>9, <2>1
    <3> QED BY <1>11, <2>3, <3>1
  <2> QED BY <2>2, <2>3
<1>17. \A a \in Address :
         v.bal[t][a] = w.bal[t][a] - (IF a = from THEN n ELSE 0) + (IF a = to THEN n ELSE 0)
  BY <1>6, <1>11
<1>18. Remembers(w, v)
  BY <1>7, <1>10 DEF Remembers
<1>19. v.negatives = Noted(w.negatives, to, n)
  BY <1>10 DEF h
<1> QED BY <1>3, <1>5, <1>10, <1>11, <1>15, <1>16, <1>17, <1>18, <1>19 DEF Paid

-----------------------------------------------------------------------------
(* Pair calls. *)

\* sync: the reserves become the balances, and nothing else changes.
LEMMA SetReservesStep ==
  ASSUME NEW w, IsWorld(w), NEW p \in DOMAIN w.pool
  PROVE  LET q == w.pool[p]
             v == SetReserves(w, p)
         IN  /\ IsWorld(v) /\ v.bal = w.bal /\ v.negatives = w.negatives
             /\ v.registry = w.registry /\ v.pairList = w.pairList
             /\ v.pool = [w.pool EXCEPT ![p] =
                            [q EXCEPT !.reserveX = w.bal[q.tokenX][p],
                                      !.reserveY = w.bal[q.tokenY][p]]]
<1> DEFINE q == w.pool[p]
           q2 == [q EXCEPT !.reserveX = w.bal[q.tokenX][p], !.reserveY = w.bal[q.tokenY][p]]
<1>1. SetReserves(w, p) = [w EXCEPT !.pool[p] = q2]
  BY DEF SetReserves
<1> HIDE DEF q2
<1> QED BY <1>1 DEF IsWorld, q2

\* The registry does not depend on what a pair stores besides its tokens.
LEMMA RegistryKept ==
  ASSUME NEW w, RegistryOk(w), NEW v,
         v.registry = w.registry, v.pairList = w.pairList,
         DOMAIN v.pool = DOMAIN w.pool,
         \A p \in DOMAIN w.pool : TokensOf(v.pool[p]) = TokensOf(w.pool[p])
  PROVE  RegistryOk(v)
<1>1. \A k \in DOMAIN v.registry :
        v.registry[k] \in DOMAIN v.pool /\ TokensOf(v.pool[v.registry[k]]) = k
  BY DEF RegistryOk
<1>2. \A p \in DOMAIN v.pool :
        TokensOf(v.pool[p]) \in DOMAIN v.registry /\ v.registry[TokensOf(v.pool[p])] = p
  BY DEF RegistryOk
<1> QED BY <1>1, <1>2 DEF RegistryOk

\* What is known of every pair, whatever was paid to it.
LEMMA PairFacts ==
  ASSUME NEW w, WorldOk(w), NEW p \in DOMAIN w.pool
  PROVE  LET q == w.pool[p]
         IN  /\ IsWorld(w) /\ LedgersOk(w) /\ PoolsOk(w) /\ IsPool(q)
             /\ q.tokenX \in Tokens /\ q.tokenY \in Tokens /\ q.tokenX # q.tokenY
             /\ q.reserveX \in Int /\ q.reserveY \in Int /\ q.supply \in Nat
             /\ p \in PairAddresses /\ p \in Address /\ p \notin Users
             /\ w.bal[q.tokenX][p] \in Int /\ w.bal[q.tokenY][p] \in Int
             /\ w.negatives[p] \in Nat
             /\ w.negatives[p] = 0 => Solvent(w, p)
<1> DEFINE q == w.pool[p]
<1>1. /\ IsWorld(w) /\ LedgersOk(w) /\ PoolsOk(w) /\ IsPool(q) /\ p \in PairAddresses
      /\ w.negatives[p] = 0 => Solvent(w, p)
  BY DEF WorldOk, PoolsOk
<1>2. p \in Address /\ p \notin Users
  BY <1>1, AddressAssumption DEF Address
<1>3. /\ q.tokenX \in Tokens /\ q.tokenY \in Tokens /\ q.tokenX < q.tokenY
      /\ q.reserveX \in Int /\ q.reserveY \in Int /\ q.supply \in Nat
  BY <1>1 DEF IsPool
<1> HIDE DEF q
<1>4. q.tokenX # q.tokenY
  <2>1. q.tokenX \in Nat /\ q.tokenY \in Nat
    BY <1>3, TokenAssumption
  <2> QED BY <1>3, <2>1
<1>5. w.bal[q.tokenX][p] \in Int /\ w.bal[q.tokenY][p] \in Int /\ w.negatives[p] \in Nat
  BY <1>1, <1>2, <1>3 DEF LedgersOk
<1> QED BY <1>1, <1>2, <1>3, <1>4, <1>5 DEF q

\* A pair that was never paid a negative amount has what it records.
LEMMA SolventFacts ==
  ASSUME NEW w, WorldOk(w), NEW p \in DOMAIN w.pool, Solvent(w, p)
  PROVE  LET q == w.pool[p]
         IN  /\ q.reserveX \in Nat /\ q.reserveY \in Nat /\ q.supply \in Nat
             /\ q.supply * q.supply <= q.reserveX * q.reserveY
             /\ w.bal[q.tokenX][p] \in Nat /\ q.reserveX <= w.bal[q.tokenX][p]
             /\ w.bal[q.tokenY][p] \in Nat /\ q.reserveY <= w.bal[q.tokenY][p]
<1> DEFINE q == w.pool[p]
<1>1. /\ q.reserveX \in Int /\ q.reserveY \in Int /\ q.supply \in Nat
      /\ w.bal[q.tokenX][p] \in Int /\ w.bal[q.tokenY][p] \in Int
  BY PairFacts
<1>2. /\ q.reserveX >= 0 /\ q.reserveX <= w.bal[q.tokenX][p]
      /\ q.reserveY >= 0 /\ q.reserveY <= w.bal[q.tokenY][p]
      /\ q.supply * q.supply <= q.reserveX * q.reserveY
  BY DEF Solvent
<1> HIDE DEF q
<1> QED BY <1>1, <1>2 DEF q

(* Only the record of p, and balances, may differ.                         *)
OnlyPool(w, v, p) ==
  /\ v.registry = w.registry /\ v.pairList = w.pairList
  /\ v.pool = [w.pool EXCEPT ![p] = v.pool[p]]
  /\ TokensOf(v.pool[p]) = TokensOf(w.pool[p])

\* A pair that keeps its record and loses nothing stays solvent.
LEMMA SolventKept ==
  ASSUME NEW w, WorldOk(w), NEW v, LedgersOk(v), NEW p \in DOMAIN w.pool, Solvent(w, p),
         v.pool[p] = w.pool[p],
         \A t \in Tokens : v.bal[t][p] >= w.bal[t][p]
  PROVE  Solvent(v, p)
<1> DEFINE q == w.pool[p]
<1>1. q.tokenX \in Tokens /\ q.tokenY \in Tokens /\ p \in Address
  BY PairFacts
<1>2. /\ q.reserveX \in Nat /\ q.reserveY \in Nat
      /\ q.supply * q.supply <= q.reserveX * q.reserveY
      /\ w.bal[q.tokenX][p] \in Nat /\ q.reserveX <= w.bal[q.tokenX][p]
      /\ w.bal[q.tokenY][p] \in Nat /\ q.reserveY <= w.bal[q.tokenY][p]
  BY SolventFacts
<1>3. /\ v.bal[q.tokenX][p] \in Int /\ v.bal[q.tokenX][p] >= w.bal[q.tokenX][p]
      /\ v.bal[q.tokenY][p] \in Int /\ v.bal[q.tokenY][p] >= w.bal[q.tokenY][p]
  BY <1>1 DEF LedgersOk
<1>4. v.pool[p] = q
  OBVIOUS
<1> HIDE DEF q
<1>5. /\ q.reserveX >= 0 /\ q.reserveX <= v.bal[q.tokenX][p]
      /\ q.reserveY >= 0 /\ q.reserveY <= v.bal[q.tokenY][p]
  BY <1>2, <1>3
<1> QED BY <1>2, <1>4, <1>5 DEF Solvent

\* An empty history was empty before, and has recorded nothing since.
LEMMA NothingNoted ==
  ASSUME NEW w, LedgersOk(w), NEW v, LedgersOk(v), Remembers(w, v),
         NEW a \in Address, v.negatives[a] = 0
  PROVE  w.negatives[a] = 0 /\ v.negatives[a] = w.negatives[a]
<1>1. w.negatives[a] \in Nat /\ w.negatives[a] <= v.negatives[a]
  BY DEF LedgersOk, Remembers
<1> QED BY <1>1

\* A world is sound after a call if the pair it concerns is, and no other pair
\* has lost anything.
LEMMA OnePoolChanged ==
  ASSUME NEW w, WorldOk(w), NEW v, IsWorld(v), LedgersOk(v), Remembers(w, v),
         NEW p \in DOMAIN w.pool,
         OnlyPool(w, v, p), IsPool(v.pool[p]),
         v.negatives[p] = 0 => Solvent(v, p),
         NoLoss(w, v, PairAddresses \ {p})
  PROVE  WorldOk(v) /\ DOMAIN v.pool = DOMAIN w.pool
<1>1. /\ DOMAIN v.pool = DOMAIN w.pool
      /\ v.pool = [r \in DOMAIN v.pool |-> v.pool[r]]
      /\ \A r \in DOMAIN w.pool : r # p => v.pool[r] = w.pool[r]
  BY DEF WorldOk, PoolsOk, OnlyPool
<1>2. PoolsOk(v)
  BY <1>1 DEF WorldOk, PoolsOk
<1>3. \A r \in DOMAIN v.pool : v.negatives[r] = 0 => Solvent(v, r)
  <2> SUFFICES ASSUME NEW r \in DOMAIN w.pool, r # p, v.negatives[r] = 0
               PROVE  Solvent(v, r)
    BY <1>1
  <2>1. r \in PairAddresses \ {p} /\ r \in Address /\ LedgersOk(w)
    BY PairFacts
  <2>2. w.negatives[r] = 0 /\ v.negatives[r] = w.negatives[r]
    BY <2>1, NothingNoted
  <2>3. Solvent(w, r) /\ \A t \in Tokens : v.bal[t][r] >= w.bal[t][r]
    BY <2>1, <2>2 DEF WorldOk, NoLoss
  <2> QED BY <1>1, <2>3, SolventKept
<1>4. RegistryOk(v)
  <2>1. \A r \in DOMAIN w.pool : TokensOf(v.pool[r]) = TokensOf(w.pool[r])
    BY <1>1 DEF OnlyPool
  <2> QED BY <1>1, <2>1, RegistryKept DEF WorldOk, OnlyPool
<1> QED BY <1>1, <1>2, <1>3, <1>4 DEF WorldOk

(* What a payment of both tokens of pool q changes in the ledgers.         *)
PaidBoth(w, v, q, from, to, x, y) ==
  /\ LedgersOk(v)
  /\ x <= w.bal[q.tokenX][from] /\ y <= w.bal[q.tokenY][from]
  /\ \A a \in Address :
       /\ v.bal[q.tokenX][a] = w.bal[q.tokenX][a] - (IF a = from THEN x ELSE 0)
                                                 + (IF a = to THEN x ELSE 0)
       /\ v.bal[q.tokenY][a] = w.bal[q.tokenY][a] - (IF a = from THEN y ELSE 0)
                                                 + (IF a = to THEN y ELSE 0)
  /\ x >= 0 /\ y >= 0 => v.negatives = w.negatives
  /\ v.negatives[to] = w.negatives[to] => x >= 0 /\ y >= 0
  /\ Remembers(w, v) /\ NoLoss(w, v, Address \ {from})

\* What two payments in a row leave of an account, they leave together.
LEMMA LossesCompose ==
  ASSUME NEW w, LedgersOk(w), NEW u, LedgersOk(u), NEW v, LedgersOk(v),
         NEW As \in SUBSET Address,
         Remembers(w, u), NoLoss(w, u, As), Remembers(u, v), NoLoss(u, v, As)
  PROVE  Remembers(w, v) /\ NoLoss(w, v, As)
<1>1. \A a \in Address :
        /\ w.negatives[a] \in Nat /\ u.negatives[a] \in Nat /\ v.negatives[a] \in Nat
        /\ w.negatives[a] <= u.negatives[a] /\ u.negatives[a] <= v.negatives[a]
  BY DEF LedgersOk, Remembers
<1>2. NoLoss(w, v, As)
  <2> SUFFICES ASSUME NEW a \in As, NEW t \in Tokens, v.negatives[a] = w.negatives[a]
               PROVE  v.bal[t][a] >= w.bal[t][a]
    BY DEF NoLoss
  <2>1. u.negatives[a] = w.negatives[a] /\ v.negatives[a] = u.negatives[a]
    BY <1>1
  <2>2. w.bal[t][a] \in Int /\ u.bal[t][a] \in Int /\ v.bal[t][a] \in Int
    BY DEF LedgersOk
  <2>3. u.bal[t][a] >= w.bal[t][a] /\ v.bal[t][a] >= u.bal[t][a]
    BY <2>1 DEF NoLoss
  <2> QED BY <2>2, <2>3
<1>3. Remembers(w, v)
  BY <1>1 DEF Remembers
<1> QED BY <1>2, <1>3

\* Paying both tokens changes two balances in each.
LEMMA PayBothStep ==
  ASSUME NEW w, IsWorld(w), LedgersOk(w), NEW q,
         q.tokenX \in Tokens, q.tokenY \in Tokens, q.tokenX # q.tokenY,
         NEW from \in Address, NEW to \in Address, NEW x \in Int, NEW y \in Int,
         NEW v \in PayBoth(w, q, from, to, x, y)
  PROVE  /\ IsWorld(v) /\ PaidBoth(w, v, q, from, to, x, y)
         /\ v.pool = w.pool /\ v.registry = w.registry /\ v.pairList = w.pairList
<1>1. PICK u : u \in Pay(w, q.tokenX, from, to, x) /\ v \in Pay(u, q.tokenY, from, to, y)
  BY DEF PayBoth, After
<1>2. Paid(w, u, q.tokenX, from, to, x)
  BY <1>1, PayStep
<1>3. Paid(u, v, q.tokenY, from, to, y)
  BY <1>1, <1>2, PayStep DEF Paid
<1>4. Remembers(w, v) /\ NoLoss(w, v, Address \ {from})
  BY <1>2, <1>3, LossesCompose DEF Paid
<1>5. /\ w.negatives \in [Address -> Nat] /\ u.negatives = Noted(w.negatives, to, x)
      /\ u.negatives \in [Address -> Nat] /\ v.negatives = Noted(u.negatives, to, y)
  BY <1>2, <1>3 DEF Paid, LedgersOk
<1>6. x >= 0 /\ y >= 0 => v.negatives = w.negatives
  BY <1>5, NotedFacts
<1>7. v.negatives[to] = w.negatives[to] => x >= 0 /\ y >= 0
  <2>1. x < 0 => u.negatives[to] = w.negatives[to] + 1
    BY <1>5 DEF Noted
  <2>2. y < 0 => v.negatives[to] = u.negatives[to] + 1
    BY <1>5 DEF Noted
  <2>3. /\ w.negatives[to] \in Nat /\ u.negatives[to] \in Nat /\ v.negatives[to] \in Nat
    BY <1>3, <1>5 DEF Paid, LedgersOk
  <2>4. w.negatives[to] <= u.negatives[to] /\ u.negatives[to] <= v.negatives[to]
    BY <1>2, <1>3 DEF Paid, Remembers
  <2> QED BY <2>1, <2>2, <2>3, <2>4
<1>8. /\ IsWorld(v) /\ LedgersOk(v)
      /\ v.pool = w.pool /\ v.registry = w.registry /\ v.pairList = w.pairList
      /\ x <= w.bal[q.tokenX][from] /\ y <= w.bal[q.tokenY][from]
  BY <1>2, <1>3 DEF Paid
<1>9. \A a \in Address :
       /\ v.bal[q.tokenX][a] = w.bal[q.tokenX][a] - (IF a = from THEN x ELSE 0)
                                                 + (IF a = to THEN x ELSE 0)
       /\ v.bal[q.tokenY][a] = w.bal[q.tokenY][a] - (IF a = from THEN y ELSE 0)
                                                 + (IF a = to THEN y ELSE 0)
  BY <1>2, <1>3 DEF Paid
<1> QED BY <1>4, <1>6, <1>7, <1>8, <1>9 DEF PaidBoth

\* The amounts a deposit settles on.
LEMMA SettledAmounts ==
  ASSUME NEW xd \in Int, NEW yd \in Int, NEW xm \in Int, NEW ym \in Int,
         NEW rx \in Int, NEW ry \in Int, NEW s \in Settled(xd, yd, xm, ym, rx, ry)
  PROVE  \E x, y \in Int : s = <<x, y>>
BY SettledNumber

(* What add_liquidity of a pair leaves when it takes x and y and mints lp. *)
IsDeposit(w, v, p, caller, to, x, y, lp) ==
  LET q == w.pool[p]
      locked == IF q.supply = 0 THEN MinLiquidity ELSE 0
  IN  /\ lp = Minted(x, y, q.reserveX, q.reserveY, q.supply) /\ lp > 0
      /\ MintedOk(x, y, q.reserveX, q.reserveY, q.supply)
      /\ PaidBoth(w, v, q, caller, p, x, y)
      /\ IsWorld(v) /\ v.registry = w.registry /\ v.pairList = w.pairList
      /\ v.pool = [w.pool EXCEPT ![p] =
            [q EXCEPT !.supply = q.supply + locked + lp,
                      !.lp = Credited(q.lp, to, lp),
                      !.reserveX = v.bal[q.tokenX][p],
                      !.reserveY = v.bal[q.tokenY][p]]]

\* A deposit settles on some amounts and mints for them.
LEMMA PairAddResult ==
  ASSUME NEW w, WorldOk(w), NEW p \in DOMAIN w.pool, NEW caller \in Users,
         NEW xd \in Int, NEW yd \in Int, NEW to \in Address,
         NEW v \in PairAdd(w, p, caller, xd, yd, to)
  PROVE  \E x, y \in Int, lp \in Nat :
           /\ <<x, y>> \in Settled(xd, yd, 0, 0, w.pool[p].reserveX, w.pool[p].reserveY)
           /\ IsDeposit(w, v, p, caller, to, x, y, lp)
<1> DEFINE q == w.pool[p]
           locked == IF q.supply = 0 THEN MinLiquidity ELSE 0
<1>1. /\ IsWorld(w) /\ LedgersOk(w) /\ PoolsOk(w) /\ IsPool(q)
      /\ q.tokenX \in Tokens /\ q.tokenY \in Tokens /\ q.tokenX # q.tokenY
      /\ q.reserveX \in Int /\ q.reserveY \in Int /\ q.supply \in Nat
      /\ p \in Address /\ caller \in Address
  BY PairFacts DEF Address
<1>2. PICK s \in Settled(xd, yd, 0, 0, q.reserveX, q.reserveY) :
        v \in Deposit(w, p, caller, s[1], s[2], to)
  BY DEF PairAdd
<1>3. PICK x \in Int, y \in Int : s = <<x, y>>
  <2> HIDE DEF q
  <2> QED BY <1>1, <1>2, SettledAmounts
<1> DEFINE lp == Minted(x, y, q.reserveX, q.reserveY, q.supply)
<1>4. v \in Deposit(w, p, caller, x, y, to)
  BY <1>2, <1>3
<1>5. PICK u \in PayBoth(w, q, caller, p, x, y) :
        /\ lp > 0 /\ MintedOk(x, y, q.reserveX, q.reserveY, q.supply)
        /\ v = SetReserves(Mint(u, p, to, lp), p)
  BY <1>4 DEF Deposit
<1>6. lp \in Nat
  <2> HIDE DEF q
  <2>1. lp \in Int
    BY <1>1, <1>5, MintedNumber
  <2> QED BY <1>5, <2>1
<1> HIDE DEF lp
<1>7. /\ PaidBoth(w, u, q, caller, p, x, y) /\ IsWorld(u)
      /\ u.pool = w.pool /\ u.registry = w.registry /\ u.pairList = w.pairList
  <2> HIDE DEF q
  <2> QED BY <1>1, PayBothStep
<1> DEFINE q2 == [q EXCEPT !.supply = q.supply + locked + lp, !.lp = Credited(q.lp, to, lp)]
           u2 == Mint(u, p, to, lp)
<1>8. /\ IsWorld(u2) /\ u2.bal = u.bal /\ u2.registry = w.registry
      /\ u2.pairList = w.pairList /\ u2.pool = [w.pool EXCEPT ![p] = q2]
      /\ u2.negatives = u.negatives
  <2>1. u2 = [u EXCEPT !.pool[p] = q2]
    BY <1>7 DEF Mint
  <2> HIDE DEF u2, q2
  <2> QED BY <1>7, <2>1 DEF IsWorld
<1>9. u2.pool[p] = q2 /\ p \in DOMAIN u2.pool
  BY <1>8
<1>10. q2.tokenX = q.tokenX /\ q2.tokenY = q.tokenY
  BY <1>1 DEF IsPool
<1> DEFINE q3 == [q EXCEPT !.supply = q.supply + locked + lp, !.lp = Credited(q.lp, to, lp),
                           !.reserveX = u.bal[q.tokenX][p], !.reserveY = u.bal[q.tokenY][p]]
<1>11. /\ IsWorld(v) /\ v.bal = u.bal /\ v.registry = w.registry /\ v.pairList = w.pairList
       /\ v.pool = [w.pool EXCEPT ![p] = q3] /\ v.negatives = u.negatives
  <2>1. v = SetReserves(u2, p)
    BY <1>5
  <2>2. q3 = [q2 EXCEPT !.reserveX = u.bal[q.tokenX][p], !.reserveY = u.bal[q.tokenY][p]]
    OBVIOUS
  <2> HIDE DEF u2, q2, q3, q, locked
  <2>3. /\ IsWorld(v) /\ v.bal = u2.bal /\ v.negatives = u2.negatives
        /\ v.registry = u2.registry /\ v.pairList = u2.pairList
        /\ v.pool = [u2.pool EXCEPT ![p] =
                       [u2.pool[p] EXCEPT !.reserveX = u2.bal[u2.pool[p].tokenX][p],
                                          !.reserveY = u2.bal[u2.pool[p].tokenY][p]]]
    BY <1>8, <1>9, <2>1, SetReservesStep
  <2> QED BY <1>8, <1>9, <1>10, <2>2, <2>3
<1>12. /\ <<x, y>> \in Settled(xd, yd, 0, 0, q.reserveX, q.reserveY)
       /\ lp = Minted(x, y, q.reserveX, q.reserveY, q.supply) /\ lp > 0
       /\ MintedOk(x, y, q.reserveX, q.reserveY, q.supply)
  BY <1>2, <1>3, <1>5 DEF lp
<1>13. PaidBoth(w, v, q, caller, p, x, y)
  <2> HIDE DEF q
  <2> QED BY <1>7, <1>11 DEF PaidBoth, LedgersOk, NoLoss, Remembers
<1>14. IsDeposit(w, v, p, caller, to, x, y, lp)
  BY <1>11, <1>12, <1>13 DEF IsDeposit
<1> QED BY <1>6, <1>12, <1>14

(***************************************************************************)
(* What a pair's record becomes; Vault over the fields of a record.        *)
(***************************************************************************)
KeepsEachSide(q, r) ==
  /\ r.reserveX * q.supply >= q.reserveX * r.supply
  /\ r.reserveY * q.supply >= q.reserveY * r.supply

Opens(q, r) ==
  /\ q.supply = 0
  /\ r.supply > MinLiquidity /\ r.supply * r.supply <= r.reserveX * r.reserveY

Joins(q, r) == q.supply > 0 /\ r.supply > q.supply /\ KeepsEachSide(q, r)

Leaves(q, r) == r.supply < q.supply /\ r.supply >= MinLiquidity /\ KeepsEachSide(q, r)

Grows(q, r) ==
  r.supply = q.supply /\ r.reserveX >= q.reserveX /\ r.reserveY >= q.reserveY

Trades(q, r) ==
  /\ r.supply = q.supply /\ r.reserveX >= 0 /\ r.reserveY >= 0
  /\ r.reserveX * r.reserveY >= q.reserveX * q.reserveY

\* A deposit opens or joins the pair it concerns, if it pays it nothing negative.
LEMMA PairAddStep ==
  ASSUME NEW w, WorldOk(w), NEW p \in DOMAIN w.pool, NEW caller \in Users,
         NEW xd \in Int, NEW yd \in Int, NEW to \in Address,
         NEW v \in PairAdd(w, p, caller, xd, yd, to)
  PROVE  /\ WorldOk(v) /\ OnlyPool(w, v, p) /\ Remembers(w, v)
         /\ v.negatives[p] = 0 => Opens(w.pool[p], v.pool[p]) \/ Joins(w.pool[p], v.pool[p])
<1> DEFINE q == w.pool[p]
           r == v.pool[p]
           locked == IF q.supply = 0 THEN MinLiquidity ELSE 0
<1>0. PICK x \in Int, y \in Int, lp \in Nat : IsDeposit(w, v, p, caller, to, x, y, lp)
  BY PairAddResult
<1>1. /\ lp > 0 /\ lp = Minted(x, y, q.reserveX, q.reserveY, q.supply)
      /\ IsWorld(v) /\ v.registry = w.registry /\ v.pairList = w.pairList
      /\ LedgersOk(v) /\ Remembers(w, v) /\ NoLoss(w, v, Address \ {caller})
  BY <1>0 DEF IsDeposit, PaidBoth
<1>2. /\ IsPool(q) /\ q.tokenX \in Tokens /\ q.tokenY \in Tokens
      /\ q.reserveX \in Int /\ q.reserveY \in Int /\ q.supply \in Nat
      /\ p \in PairAddresses /\ p \in Address /\ caller \in Address /\ caller # p
      /\ LedgersOk(w)
  BY PairFacts DEF Address
<1>3. /\ r = [q EXCEPT !.supply = q.supply + locked + lp, !.lp = Credited(q.lp, to, lp),
                       !.reserveX = v.bal[q.tokenX][p], !.reserveY = v.bal[q.tokenY][p]]
      /\ v.pool = [w.pool EXCEPT ![p] = r]
  BY <1>0 DEF IsDeposit
<1>4. /\ r = [tokenX |-> q.tokenX, tokenY |-> q.tokenY, reserveX |-> r.reserveX,
               reserveY |-> r.reserveY, supply |-> r.supply, lp |-> r.lp]
      /\ r.tokenX = q.tokenX /\ r.tokenY = q.tokenY
      /\ r.reserveX = v.bal[q.tokenX][p] /\ r.reserveY = v.bal[q.tokenY][p]
      /\ r.supply = q.supply + locked + lp /\ r.lp = Credited(q.lp, to, lp)
  <2> HIDE DEF r, locked, q
  <2> QED BY <1>2, <1>3 DEF IsPool
<1>5. /\ r.reserveX = w.bal[q.tokenX][p] + x /\ r.reserveX \in Int
      /\ r.reserveY = w.bal[q.tokenY][p] + y /\ r.reserveY \in Int
  <2> HIDE DEF q, r
  <2>1. /\ v.bal[q.tokenX][p] = w.bal[q.tokenX][p] + x
        /\ v.bal[q.tokenY][p] = w.bal[q.tokenY][p] + y
    <3>1. w.bal[q.tokenX][p] \in Int /\ w.bal[q.tokenY][p] \in Int
      BY <1>2 DEF LedgersOk
    <3> QED BY <1>0, <1>2, <3>1 DEF IsDeposit, PaidBoth, q
  <2>2. v.bal[q.tokenX][p] \in Int /\ v.bal[q.tokenY][p] \in Int
    BY <1>1, <1>2 DEF LedgersOk
  <2> QED BY <1>4, <2>1, <2>2
<1>6. r.supply \in Nat /\ locked \in Nat
  BY <1>2, <1>4, MinLiquidityAssumption
<1>7. ASSUME v.negatives[p] = 0
      PROVE  Solvent(v, p) /\ (Opens(q, r) \/ Joins(q, r))
  <2>1. w.negatives[p] = 0 /\ v.negatives[p] = w.negatives[p]
    BY <1>1, <1>2, <1>7, NothingNoted
  <2>2. Solvent(w, p)
    BY <2>1, PairFacts
  <2>3. /\ q.reserveX \in Nat /\ q.reserveY \in Nat
        /\ q.supply * q.supply <= q.reserveX * q.reserveY
        /\ w.bal[q.tokenX][p] \in Nat /\ q.reserveX <= w.bal[q.tokenX][p]
        /\ w.bal[q.tokenY][p] \in Nat /\ q.reserveY <= w.bal[q.tokenY][p]
    BY <2>2, SolventFacts
  <2>4. x \in Nat /\ y \in Nat
    <3>1. x >= 0 /\ y >= 0
      BY <1>0, <2>1 DEF IsDeposit, PaidBoth
    <3> QED BY <3>1
  <2> HIDE DEF q, r
  <2>5. /\ r.reserveX \in Nat /\ r.reserveX >= q.reserveX + x
        /\ r.reserveY \in Nat /\ r.reserveY >= q.reserveY + y
    BY <1>5, <2>3, <2>4
  <2>6. ASSUME q.supply = 0
        PROVE  r.supply * r.supply <= r.reserveX * r.reserveY /\ Opens(q, r)
    <3>1. r.supply = MinLiquidity + lp
      BY <1>4, <2>6, MinLiquidityAssumption
    <3>2. (MinLiquidity + lp) * (MinLiquidity + lp) <= r.reserveX * r.reserveY
      <4>1. r.reserveX >= x /\ r.reserveY >= y
        BY <2>3, <2>4, <2>5
      <4> QED BY <1>1, <2>4, <2>5, <2>6, <4>1, OpenNumbers
    <3>3. r.supply > MinLiquidity /\ r.supply * r.supply <= r.reserveX * r.reserveY
      BY <1>1, <3>1, <3>2, MinLiquidityAssumption
    <3> QED BY <2>6, <3>3 DEF Opens
  <2>7. ASSUME q.supply # 0
        PROVE  r.supply * r.supply <= r.reserveX * r.reserveY /\ Joins(q, r)
    <3>1. r.supply = q.supply + lp
      BY <1>2, <1>4, <2>7
    <3>2. /\ q.reserveX * (q.supply + lp) <= r.reserveX * q.supply
          /\ q.reserveY * (q.supply + lp) <= r.reserveY * q.supply
          /\ (q.supply + lp) * (q.supply + lp) <= r.reserveX * r.reserveY
      BY <1>1, <1>2, <2>3, <2>4, <2>5, <2>7, JoinNumbers
    <3>3. Joins(q, r)
      <4>1. q.supply > 0 /\ r.supply > q.supply
        BY <1>1, <1>2, <2>7, <3>1
      <4>2. KeepsEachSide(q, r)
        <5>1. q.reserveX * r.supply <= r.reserveX * q.supply
          BY <3>1, <3>2
        <5>2. q.reserveY * r.supply <= r.reserveY * q.supply
          BY <3>1, <3>2
        <5> QED BY <5>1, <5>2, <1>2, <1>6, <2>3, <2>5 DEF KeepsEachSide
      <4> QED BY <4>1, <4>2 DEF Joins
    <3>4. r.supply * r.supply <= r.reserveX * r.reserveY
      BY <3>1, <3>2
    <3> QED BY <3>3, <3>4
  <2>8. r.supply * r.supply <= r.reserveX * r.reserveY /\ (Opens(q, r) \/ Joins(q, r))
    BY <2>6, <2>7
  <2>9. Solvent(v, p)
    <3>1. /\ r.reserveX >= 0 /\ r.reserveX <= v.bal[r.tokenX][p]
          /\ r.reserveY >= 0 /\ r.reserveY <= v.bal[r.tokenY][p]
      BY <1>4, <2>5
    <3> QED BY <2>8, <3>1 DEF Solvent, r
  <2> QED BY <2>8, <2>9
<1>8. /\ r.lp \in [Address -> Nat] /\ IsLedger(r.lp)
      /\ r.supply = Total(r.lp) + (IF r.supply = 0 THEN 0 ELSE MinLiquidity)
  <2> HIDE DEF q, r
  <2>1. /\ q.lp \in [Address -> Nat] /\ IsLedger(q.lp) /\ DOMAIN q.lp = Address
        /\ q.supply = Total(q.lp) + (IF q.supply = 0 THEN 0 ELSE MinLiquidity)
    BY <1>2 DEF IsPool
  <2>2. IsLedger(r.lp) /\ DOMAIN r.lp = Address /\ Total(r.lp) = Total(q.lp) + lp
    BY <1>4, <2>1, TotalCredited
  <2>3. Total(q.lp) \in Nat
    BY <2>1, BalanceWithinTotal
  <2>4. r.supply = Total(r.lp) + (IF r.supply = 0 THEN 0 ELSE MinLiquidity)
    BY <1>1, <1>2, <1>4, <1>6, <2>1, <2>2, <2>3, MinLiquidityAssumption
  <2>5. r.lp \in [Address -> Nat]
    BY <1>4, <2>1 DEF Credited
  <2> QED BY <2>2, <2>4, <2>5
<1>9. IsPool(r)
  <2> HIDE DEF q, r
  <2> QED BY <1>2, <1>4, <1>5, <1>6, <1>8 DEF IsPool
<1>10. OnlyPool(w, v, p)
  <2> HIDE DEF q
  <2> QED BY <1>1, <1>3, <1>4 DEF OnlyPool, TokensOf, q
<1>11. NoLoss(w, v, PairAddresses \ {p})
  <2>1. PairAddresses \ {p} \subseteq Address \ {caller}
    BY AddressAssumption DEF Address
  <2> QED BY <1>1, <2>1 DEF NoLoss
<1>12. WorldOk(v)
  BY <1>1, <1>7, <1>9, <1>10, <1>11, OnePoolChanged
<1> QED BY <1>1, <1>7, <1>10, <1>12

(* What remove_liquidity of a pair leaves when it burns n.                 *)
IsWithdrawal(w, v, p, caller, to, n) ==
  LET q == w.pool[p]
      x == ShareOf(n, q.reserveX, q.supply)
      y == ShareOf(n, q.reserveY, q.supply)
  IN  /\ q.supply # 0 /\ n > 0 /\ n <= q.lp[caller] /\ x > 0 /\ y > 0
      /\ PaidBoth(w, v, q, p, to, x, y)
      /\ IsWorld(v) /\ v.registry = w.registry /\ v.pairList = w.pairList
      /\ v.pool = [w.pool EXCEPT ![p] =
            [q EXCEPT !.supply = q.supply - n, !.lp = Debited(q.lp, caller, n),
                      !.reserveX = v.bal[q.tokenX][p],
                      !.reserveY = v.bal[q.tokenY][p]]]

\* A withdrawal pays a positive share of each reserve.
LEMMA PairRemoveResult ==
  ASSUME NEW w, WorldOk(w), NEW p \in DOMAIN w.pool, NEW caller \in Address,
         NEW n \in Int, NEW xm, NEW ym, NEW to \in Address,
         NEW v \in PairRemove(w, p, caller, n, xm, ym, to)
  PROVE  IsWithdrawal(w, v, p, caller, to, n)
<1> DEFINE q == w.pool[p]
           x == ShareOf(n, q.reserveX, q.supply)
           y == ShareOf(n, q.reserveY, q.supply)
           q2 == [q EXCEPT !.supply = q.supply - n, !.lp = Debited(q.lp, caller, n)]
           w2 == Burn(w, p, caller, n)
<1>1. /\ IsWorld(w) /\ LedgersOk(w) /\ IsPool(q)
      /\ q.tokenX \in Tokens /\ q.tokenY \in Tokens /\ q.tokenX # q.tokenY
      /\ q.reserveX \in Int /\ q.reserveY \in Int /\ q.supply \in Nat
      /\ p \in Address
  BY PairFacts
<1>2. PICK u \in PayBoth(w2, q, p, to, x, y) :
        /\ q.supply # 0 /\ n > 0 /\ CanDebit(q.lp, caller, n) /\ x > 0 /\ y > 0
        /\ v = SetReserves(u, p)
  BY DEF PairRemove
<1>3. x \in Int /\ y \in Int
  <2>1. n \in Nat /\ q.supply \in Nat \ {0}
    BY <1>1, <1>2
  <2> QED BY <1>1, <2>1, ShareNumber
<1>4. /\ IsWorld(w2) /\ w2.bal = w.bal /\ w2.registry = w.registry
      /\ w2.pairList = w.pairList /\ w2.pool = [w.pool EXCEPT ![p] = q2]
      /\ w2.negatives = w.negatives
  <2>1. w2 = [w EXCEPT !.pool[p] = q2]
    BY DEF Burn
  <2> HIDE DEF w2, q2
  <2> QED BY <1>1, <2>1 DEF IsWorld
<1>5. /\ PaidBoth(w, u, q, p, to, x, y) /\ IsWorld(u)
      /\ u.pool = w2.pool /\ u.registry = w.registry /\ u.pairList = w.pairList
  <2> HIDE DEF q, w2, x, y, q2
  <2>1. LedgersOk(w2)
    BY <1>1, <1>4 DEF LedgersOk
  <2>2. /\ PaidBoth(w2, u, q, p, to, x, y) /\ IsWorld(u)
        /\ u.pool = w2.pool /\ u.registry = w2.registry /\ u.pairList = w2.pairList
    BY <1>1, <1>2, <1>3, <1>4, <2>1, PayBothStep
  <2> QED BY <1>4, <2>2 DEF PaidBoth, NoLoss, Remembers
<1>6. u.pool[p] = q2 /\ p \in DOMAIN u.pool
  BY <1>4, <1>5
<1>7. q2.tokenX = q.tokenX /\ q2.tokenY = q.tokenY
  BY <1>1 DEF IsPool
<1> DEFINE q3 == [q EXCEPT !.supply = q.supply - n, !.lp = Debited(q.lp, caller, n),
                           !.reserveX = u.bal[q.tokenX][p], !.reserveY = u.bal[q.tokenY][p]]
<1>8. /\ IsWorld(v) /\ v.bal = u.bal /\ v.registry = w.registry /\ v.pairList = w.pairList
      /\ v.pool = [w.pool EXCEPT ![p] = q3] /\ v.negatives = u.negatives
  <2>1. q3 = [q2 EXCEPT !.reserveX = u.bal[q.tokenX][p], !.reserveY = u.bal[q.tokenY][p]]
    OBVIOUS
  <2> HIDE DEF w2, q2, q3, q, x, y
  <2>2. /\ IsWorld(v) /\ v.bal = u.bal /\ v.negatives = u.negatives
        /\ v.registry = u.registry /\ v.pairList = u.pairList
        /\ v.pool = [u.pool EXCEPT ![p] =
                       [u.pool[p] EXCEPT !.reserveX = u.bal[u.pool[p].tokenX][p],
                                         !.reserveY = u.bal[u.pool[p].tokenY][p]]]
    BY <1>2, <1>5, <1>6, SetReservesStep
  <2>3. v.pool = [u.pool EXCEPT ![p] = q3]
    BY <1>6, <1>7, <2>1, <2>2
  <2>4. [u.pool EXCEPT ![p] = q3] = [w.pool EXCEPT ![p] = q3]
    BY <1>4, <1>5
  <2> QED BY <1>5, <2>2, <2>3, <2>4
<1>9. PaidBoth(w, v, q, p, to, x, y)
  <2> HIDE DEF w2, q2, q3, q, x, y
  <2> QED BY <1>5, <1>8 DEF PaidBoth, LedgersOk, NoLoss, Remembers
<1>10. n <= q.lp[caller]
  <2>1. q.lp[caller] \in Nat
    BY <1>1 DEF IsPool
  <2> QED BY <1>2, <2>1 DEF CanDebit
<1> QED BY <1>2, <1>8, <1>9, <1>10 DEF IsWithdrawal

\* A withdrawal leaves the pair it concerns.
LEMMA PairRemoveStep ==
  ASSUME NEW w, WorldOk(w), NEW p \in DOMAIN w.pool, NEW caller \in Address,
         NEW n \in Int, NEW xm, NEW ym, NEW to \in Address,
         NEW v \in PairRemove(w, p, caller, n, xm, ym, to)
  PROVE  /\ WorldOk(v) /\ OnlyPool(w, v, p) /\ v.negatives = w.negatives
         /\ v.negatives[p] = 0 => Leaves(w.pool[p], v.pool[p])
<1> DEFINE q == w.pool[p]
           r == v.pool[p]
           x == ShareOf(n, q.reserveX, q.supply)
           y == ShareOf(n, q.reserveY, q.supply)
<1>0. IsWithdrawal(w, v, p, caller, to, n)
  BY PairRemoveResult
<1>1. /\ q.supply # 0 /\ n > 0 /\ n <= q.lp[caller] /\ x > 0 /\ y > 0
      /\ PaidBoth(w, v, q, p, to, x, y)
      /\ IsWorld(v) /\ v.registry = w.registry /\ v.pairList = w.pairList
  BY <1>0 DEF IsWithdrawal
<1>2. /\ IsPool(q) /\ q.tokenX \in Tokens /\ q.tokenY \in Tokens
      /\ q.reserveX \in Int /\ q.reserveY \in Int /\ q.supply \in Nat
      /\ p \in PairAddresses /\ p \in Address /\ LedgersOk(w)
  BY PairFacts
<1>3. /\ r = [q EXCEPT !.supply = q.supply - n, !.lp = Debited(q.lp, caller, n),
                       !.reserveX = v.bal[q.tokenX][p], !.reserveY = v.bal[q.tokenY][p]]
      /\ v.pool = [w.pool EXCEPT ![p] = r]
  BY <1>0 DEF IsWithdrawal
<1>4. /\ r = [tokenX |-> q.tokenX, tokenY |-> q.tokenY, reserveX |-> r.reserveX,
               reserveY |-> r.reserveY, supply |-> r.supply, lp |-> r.lp]
      /\ r.tokenX = q.tokenX /\ r.tokenY = q.tokenY
      /\ r.reserveX = v.bal[q.tokenX][p] /\ r.reserveY = v.bal[q.tokenY][p]
      /\ r.supply = q.supply - n /\ r.lp = Debited(q.lp, caller, n)
  <2> HIDE DEF r, q
  <2> QED BY <1>2, <1>3 DEF IsPool
<1>5. n \in Nat /\ q.supply \in Nat \ {0} /\ x \in Int /\ y \in Int
  <2>1. n \in Nat /\ q.supply \in Nat \ {0}
    BY <1>1, <1>2
  <2> QED BY <1>2, <2>1, ShareNumber
<1>6. /\ LedgersOk(v) /\ NoLoss(w, v, Address \ {p}) /\ Remembers(w, v)
      /\ v.negatives = w.negatives
      /\ r.reserveX \in Int /\ r.reserveY \in Int
  <2> HIDE DEF q, r, x, y
  <2>1. /\ LedgersOk(v) /\ NoLoss(w, v, Address \ {p}) /\ Remembers(w, v)
    BY <1>1 DEF PaidBoth
  <2>2. x >= 0 /\ y >= 0
    BY <1>1, <1>5
  <2>3. v.negatives = w.negatives
    BY <1>1, <2>2 DEF PaidBoth
  <2>4. r.reserveX \in Int /\ r.reserveY \in Int
    BY <1>2, <1>4, <2>1 DEF LedgersOk
  <2> QED BY <2>1, <2>3, <2>4
<1>7. /\ q.lp \in [Address -> Nat] /\ IsLedger(q.lp) /\ DOMAIN q.lp = Address
      /\ q.supply = Total(q.lp) + MinLiquidity
  BY <1>1, <1>2 DEF IsPool
<1>8. /\ n <= Total(q.lp) /\ Total(q.lp) \in Nat
      /\ IsLedger(r.lp) /\ DOMAIN r.lp = Address /\ Total(r.lp) = Total(q.lp) - n
      /\ r.lp \in [Address -> Nat]
  <2> HIDE DEF q, r
  <2>1. IsLedger(r.lp) /\ DOMAIN r.lp = Address /\ Total(r.lp) = Total(q.lp) - n
    BY <1>4, <1>5, <1>7, TotalDebited
  <2>2. Total(q.lp) \in Nat /\ q.lp[caller] \in Nat /\ q.lp[caller] <= Total(q.lp)
    BY <1>7, BalanceWithinTotal
  <2>3. r.lp \in [Address -> Nat]
    BY <1>1, <1>4, <1>5, <1>7, <2>2 DEF Debited
  <2> QED BY <1>1, <1>5, <2>1, <2>2, <2>3
<1>9. /\ r.supply \in Nat /\ r.supply < q.supply /\ r.supply >= MinLiquidity
      /\ r.supply = Total(r.lp) + (IF r.supply = 0 THEN 0 ELSE MinLiquidity)
      /\ n <= q.supply
  <2> HIDE DEF q, r
  <2>1. MinLiquidity \in Nat \ {0}
    BY MinLiquidityAssumption
  <2> QED BY <1>1, <1>4, <1>5, <1>7, <1>8, <2>1
<1>10. ASSUME v.negatives[p] = 0
       PROVE  Solvent(v, p) /\ Leaves(q, r)
  <2>1. Solvent(w, p)
    BY <1>6, <1>10, PairFacts
  <2>2. /\ q.reserveX \in Nat /\ q.reserveY \in Nat
        /\ q.supply * q.supply <= q.reserveX * q.reserveY
        /\ w.bal[q.tokenX][p] \in Nat /\ q.reserveX <= w.bal[q.tokenX][p]
        /\ w.bal[q.tokenY][p] \in Nat /\ q.reserveY <= w.bal[q.tokenY][p]
    BY <2>1, SolventFacts
  <2>3. x \in Nat /\ y \in Nat
    BY <1>1, <1>5
  <2> HIDE DEF q, r, x, y
  <2>4. /\ v.bal[q.tokenX][p] = w.bal[q.tokenX][p] - x + (IF p = to THEN x ELSE 0)
        /\ v.bal[q.tokenY][p] = w.bal[q.tokenY][p] - y + (IF p = to THEN y ELSE 0)
    BY <1>1, <1>2 DEF PaidBoth
  <2>5. v.bal[q.tokenX][p] \in Nat /\ v.bal[q.tokenY][p] \in Nat
    <3>1. v.bal[q.tokenX][p] \in Int /\ v.bal[q.tokenY][p] \in Int
      BY <1>2, <1>6 DEF LedgersOk
    <3>2. v.bal[q.tokenX][p] >= 0 /\ v.bal[q.tokenY][p] >= 0
      BY <1>2, <1>6, <1>10 DEF LedgersOk
    <3> QED BY <3>1, <3>2
  <2>6. /\ r.reserveX \in Nat /\ r.reserveX >= q.reserveX - x
        /\ r.reserveY \in Nat /\ r.reserveY >= q.reserveY - y
    BY <1>4, <2>2, <2>3, <2>4, <2>5
  <2>7. /\ q.reserveX * (q.supply - n) <= r.reserveX * q.supply
        /\ q.reserveY * (q.supply - n) <= r.reserveY * q.supply
        /\ (q.supply - n) * (q.supply - n) <= r.reserveX * r.reserveY
    BY <1>5, <1>9, <2>2, <2>6, LeaveNumbers DEF x, y
  <2>8. Leaves(q, r) /\ r.supply * r.supply <= r.reserveX * r.reserveY
    <3>1. /\ q.reserveX * r.supply <= r.reserveX * q.supply
          /\ q.reserveY * r.supply <= r.reserveY * q.supply
      BY <1>4, <2>7
    <3>2. KeepsEachSide(q, r)
      BY <3>1, <1>5, <1>9, <2>2, <2>6 DEF KeepsEachSide
    <3> QED BY <1>4, <1>9, <2>7, <3>2 DEF Leaves
  <2>9. /\ r.reserveX >= 0 /\ r.reserveX <= v.bal[r.tokenX][p]
        /\ r.reserveY >= 0 /\ r.reserveY <= v.bal[r.tokenY][p]
    BY <1>4, <2>6
  <2> QED BY <2>8, <2>9 DEF Solvent, r
<1>11. IsPool(r)
  <2> HIDE DEF q, r
  <2> QED BY <1>2, <1>4, <1>6, <1>8, <1>9 DEF IsPool
<1>12. OnlyPool(w, v, p)
  <2> HIDE DEF q
  <2> QED BY <1>1, <1>3, <1>4 DEF OnlyPool, TokensOf, q
<1>13. NoLoss(w, v, PairAddresses \ {p})
  BY <1>6 DEF NoLoss, Address
<1>14. WorldOk(v)
  BY <1>1, <1>6, <1>10, <1>11, <1>12, <1>13, OnePoolChanged
<1> QED BY <1>6, <1>10, <1>12, <1>14

(* Only p pays: n units of t to `to', and nobody else's balance changes.   *)
PaysOut(w, v, p, to, t, n) ==
  \A s \in Tokens, a \in Address \ {p} :
    v.bal[s][a] = w.bal[s][a] + (IF s = t /\ a = to THEN n ELSE 0)

(* What swap of a pair leaves when it pays n units of t.                   *)
IsTrade(w, v, p, to, t, n, xOut, yOut) ==
  LET q == w.pool[p]
      bx == v.bal[q.tokenX][p]
      by == v.bal[q.tokenY][p]
  IN  /\ n > 0 /\ xOut < q.reserveX /\ yOut < q.reserveY /\ v.bal[t][p] >= 0
      /\ KHolds(q.reserveX, q.reserveY, bx, by,
                AmountIn(bx, q.reserveX, xOut), AmountIn(by, q.reserveY, yOut))
      /\ LedgersOk(v) /\ PaysOut(w, v, p, to, t, n)
      /\ \A s \in Tokens : s # t => v.bal[s] = w.bal[s]
      /\ IsWorld(v) /\ v.registry = w.registry /\ v.pairList = w.pairList
      /\ v.negatives = w.negatives
      /\ v.pool = [w.pool EXCEPT ![p] = [q EXCEPT !.reserveX = bx, !.reserveY = by]]

\* A payment by p changes no balance but p's and the recipient's.
LEMMA PaidIsPaysOut ==
  ASSUME NEW w, LedgersOk(w), NEW p \in Address, NEW to \in Address, NEW t \in Tokens,
         NEW n \in Nat, NEW v, Paid(w, v, t, p, to, n)
  PROVE  PaysOut(w, v, p, to, t, n) /\ v.bal[t][p] >= 0 /\ v.negatives = w.negatives
<1>1. PaysOut(w, v, p, to, t, n)
  <2> SUFFICES ASSUME NEW s \in Tokens, NEW a \in Address \ {p}
               PROVE  v.bal[s][a] = w.bal[s][a] + (IF s = t /\ a = to THEN n ELSE 0)
    BY DEF PaysOut
  <2>1. w.bal[s][a] \in Int /\ w.bal[t][a] \in Int
    BY DEF LedgersOk
  <2> QED BY <2>1 DEF Paid
<1>2. v.bal[t][p] >= 0
  <2>1. w.bal[t][p] \in Int
    BY DEF LedgersOk
  <2> QED BY <2>1 DEF Paid
<1>3. v.negatives = w.negatives
  BY DEF Paid, Noted
<1> QED BY <1>1, <1>2, <1>3

\* A swap pays one token out, if the check holds for what is then there.
LEMMA PairSwapResult ==
  ASSUME NEW w, WorldOk(w), NEW p \in DOMAIN w.pool,
         NEW xOut \in Nat, NEW yOut \in Nat, NEW to \in Address,
         NEW v \in PairSwap(w, p, xOut, yOut, to)
  PROVE  \/ yOut = 0 /\ IsTrade(w, v, p, to, w.pool[p].tokenX, xOut, xOut, yOut)
         \/ xOut = 0 /\ IsTrade(w, v, p, to, w.pool[p].tokenY, yOut, xOut, yOut)
<1> DEFINE q == w.pool[p]
           Accepted(z) == KHolds(q.reserveX, q.reserveY, z.bal[q.tokenX][p], z.bal[q.tokenY][p],
                                 AmountIn(z.bal[q.tokenX][p], q.reserveX, xOut),
                                 AmountIn(z.bal[q.tokenY][p], q.reserveY, yOut))
<1>1. /\ IsWorld(w) /\ LedgersOk(w) /\ IsPool(q)
      /\ q.tokenX \in Tokens /\ q.tokenY \in Tokens /\ q.tokenX # q.tokenY
      /\ p \in Address
  BY PairFacts
<1>2. PICK u \in IF xOut > 0 THEN Pay(w, q.tokenX, p, to, xOut) ELSE Pay(w, q.tokenY, p, to, yOut) :
        /\ (xOut > 0) # (yOut > 0) /\ xOut < q.reserveX /\ yOut < q.reserveY
        /\ Accepted(u) /\ v = SetReserves(u, p)
  BY DEF PairSwap
<1>3. ASSUME NEW t \in Tokens, NEW n \in Nat, n > 0, u \in Pay(w, t, p, to, n)
      PROVE  IsTrade(w, v, p, to, t, n, xOut, yOut)
  <2>1. Paid(w, u, t, p, to, n)
    BY <1>1, <1>3, PayStep
  <2>2. /\ IsWorld(u) /\ LedgersOk(u)
        /\ u.pool = w.pool /\ u.registry = w.registry /\ u.pairList = w.pairList
        /\ \A s \in Tokens : s # t => u.bal[s] = w.bal[s]
    BY <2>1 DEF Paid
  <2>3. PaysOut(w, u, p, to, t, n) /\ u.bal[t][p] >= 0 /\ u.negatives = w.negatives
    BY <1>1, <2>1, PaidIsPaysOut
  <2>4. /\ IsWorld(v) /\ v.bal = u.bal /\ v.registry = u.registry /\ v.pairList = u.pairList
        /\ v.negatives = u.negatives
        /\ v.pool = [u.pool EXCEPT ![p] =
                       [u.pool[p] EXCEPT !.reserveX = u.bal[u.pool[p].tokenX][p],
                                         !.reserveY = u.bal[u.pool[p].tokenY][p]]]
    BY <1>2, <2>2, SetReservesStep
  <2>5. LedgersOk(v) /\ PaysOut(w, v, p, to, t, n)
    BY <2>2, <2>3, <2>4 DEF LedgersOk, PaysOut
  <2> QED BY <1>2, <1>3, <2>2, <2>3, <2>4, <2>5 DEF IsTrade
<1>4. CASE xOut > 0
  <2>1. yOut = 0 /\ u \in Pay(w, q.tokenX, p, to, xOut)
    BY <1>2, <1>4
  <2> QED BY <1>1, <1>3, <1>4, <2>1
<1>5. CASE ~(xOut > 0)
  <2>1. xOut = 0 /\ yOut > 0 /\ u \in Pay(w, q.tokenY, p, to, yOut)
    BY <1>2, <1>5
  <2> QED BY <1>1, <1>3, <2>1
<1> QED BY <1>4, <1>5

\* A balance below zero cannot pass the check of a swap that pays the other
\* token out of a balance that is not.
LEMMA DebtFailsCheck ==
  ASSUME NEW rx \in Nat \ {0}, NEW ry \in Nat \ {0}, NEW bx \in Nat, NEW by \in Int, by < 0,
         NEW xOut \in Nat, xOut <= rx
  PROVE  /\ ~KHolds(rx, ry, bx, by, AmountIn(bx, rx, xOut), AmountIn(by, ry, 0))
         /\ ~KHolds(ry, rx, by, bx, AmountIn(by, ry, 0), AmountIn(bx, rx, xOut))
<1> DEFINE xIn == AmountIn(bx, rx, xOut)
           A == Adjusted(bx, xIn)
           B == by * FeeDen
           R == rx * FeeDen
           S == ry * FeeDen
<1>1. FeeDen \in Nat \ {0}
  BY FeeAssumption
<1>2. AmountIn(by, ry, 0) = 0
  BY DEF AmountIn
<1>3. xIn \in Nat /\ xIn <= bx
  BY DEF AmountIn
<1>4. A \in Nat
  <2> HIDE DEF xIn
  <2> QED BY <1>3, AdjustedBound
<1>5. Adjusted(by, 0) = B /\ B \in Int /\ B < 0
  BY <1>1, FeeAssumption DEF Adjusted
<1>6. R \in Nat /\ S \in Nat /\ R > 0 /\ S > 0
  BY <1>1
<1> HIDE DEF xIn, A, B, R, S
<1>7. R * S > 0 /\ S * R > 0
  BY <1>6
<1>8. A * B <= 0 /\ B * A <= 0
  BY <1>4, <1>5
<1>9. ~(A * B >= R * S) /\ ~(B * A >= S * R)
  <2>1. A * B \in Int /\ R * S \in Int /\ B * A \in Int /\ S * R \in Int
    BY <1>4, <1>5, <1>6
  <2> QED BY <1>7, <1>8, <2>1
<1> QED BY <1>2, <1>5, <1>9 DEF KHolds, xIn, A, R, S

\* A swap trades with the pair it concerns, and takes nothing from others.
LEMMA TradeStep ==
  ASSUME NEW w, WorldOk(w), NEW p \in DOMAIN w.pool,
         NEW xOut \in Nat, NEW yOut \in Nat, NEW to \in Address, NEW t \in Tokens,
         NEW n \in Nat, NEW v, IsTrade(w, v, p, to, t, n, xOut, yOut),
         \/ t = w.pool[p].tokenX /\ yOut = 0
         \/ t = w.pool[p].tokenY /\ xOut = 0
  PROVE  /\ WorldOk(v) /\ OnlyPool(w, v, p) /\ v.negatives = w.negatives
         /\ Trades(w.pool[p], v.pool[p])
<1> DEFINE q == w.pool[p]
           r == v.pool[p]
<1>1. /\ xOut < q.reserveX /\ yOut < q.reserveY /\ v.bal[t][p] >= 0
      /\ KHolds(q.reserveX, q.reserveY, v.bal[q.tokenX][p], v.bal[q.tokenY][p],
                AmountIn(v.bal[q.tokenX][p], q.reserveX, xOut),
                AmountIn(v.bal[q.tokenY][p], q.reserveY, yOut))
      /\ LedgersOk(v) /\ PaysOut(w, v, p, to, t, n)
      /\ IsWorld(v) /\ v.registry = w.registry /\ v.pairList = w.pairList
      /\ v.negatives = w.negatives
      /\ v.pool = [w.pool EXCEPT ![p] = r]
      /\ r = [q EXCEPT !.reserveX = v.bal[q.tokenX][p], !.reserveY = v.bal[q.tokenY][p]]
  BY DEF IsTrade
<1>2. /\ IsPool(q) /\ q.tokenX \in Tokens /\ q.tokenY \in Tokens
      /\ q.reserveX \in Int /\ q.reserveY \in Int /\ q.supply \in Nat
      /\ p \in PairAddresses /\ p \in Address /\ LedgersOk(w)
  BY PairFacts
<1>3. /\ r = [tokenX |-> q.tokenX, tokenY |-> q.tokenY, reserveX |-> r.reserveX,
               reserveY |-> r.reserveY, supply |-> q.supply, lp |-> q.lp]
      /\ r.tokenX = q.tokenX /\ r.tokenY = q.tokenY
      /\ r.reserveX = v.bal[q.tokenX][p] /\ r.reserveY = v.bal[q.tokenY][p]
      /\ r.supply = q.supply /\ r.lp = q.lp
  <2> HIDE DEF r, q
  <2> QED BY <1>1, <1>2 DEF IsPool
<1>4. (t = q.tokenX /\ yOut = 0) \/ (t = q.tokenY /\ xOut = 0)
  OBVIOUS
<1> HIDE DEF q, r
<1>5. r.reserveX \in Int /\ r.reserveY \in Int
  BY <1>1, <1>2, <1>3 DEF LedgersOk
<1>6. q.reserveX \in Nat \ {0} /\ q.reserveY \in Nat \ {0} /\ xOut <= q.reserveX /\ yOut <= q.reserveY
  BY <1>1, <1>2
<1>7. KHolds(q.reserveX, q.reserveY, r.reserveX, r.reserveY,
             AmountIn(r.reserveX, q.reserveX, xOut), AmountIn(r.reserveY, q.reserveY, yOut))
  BY <1>1, <1>3
<1>8. r.reserveX \in Nat /\ r.reserveY \in Nat
  <2>1. CASE t = q.tokenX /\ yOut = 0
    <3>1. r.reserveX \in Nat
      BY <1>1, <1>3, <1>5, <2>1
    <3>2. ~(r.reserveY < 0)
      BY <1>5, <1>6, <1>7, <2>1, <3>1, DebtFailsCheck
    <3> QED BY <1>5, <3>1, <3>2
  <2>2. CASE t = q.tokenY /\ xOut = 0
    <3>1. r.reserveY \in Nat
      BY <1>1, <1>3, <1>5, <2>2
    <3>2. ~(r.reserveX < 0)
      BY <1>5, <1>6, <1>7, <2>2, <3>1, DebtFailsCheck
    <3> QED BY <1>5, <3>1, <3>2
  <2> QED BY <1>4, <2>1, <2>2
<1>9. q.reserveX * q.reserveY <= r.reserveX * r.reserveY
  BY <1>6, <1>7, <1>8, TradeNumbers
<1>10. Trades(q, r)
  <2>1. r.reserveX >= 0 /\ r.reserveY >= 0
    BY <1>8
  <2>2. r.reserveX * r.reserveY >= q.reserveX * q.reserveY
    <3> DEFINE a == q.reserveX * q.reserveY
               b == r.reserveX * r.reserveY
    <3>1. a \in Nat /\ b \in Nat
      BY <1>6, <1>8, ProductNatural
    <3> HIDE DEF a, b
    <3>2. a <= b => b >= a
      BY <3>1
    <3> QED BY <1>9, <3>2 DEF a, b
  <2> QED BY <1>3, <2>1, <2>2 DEF Trades
<1>11. IsPool(r)
  BY <1>2, <1>3, <1>5 DEF IsPool
<1>12. OnlyPool(w, v, p)
  BY <1>1, <1>3 DEF OnlyPool, TokensOf, q, r
<1>13. NoLoss(w, v, PairAddresses \ {p})
  <2> SUFFICES ASSUME NEW a \in PairAddresses \ {p}, NEW s \in Tokens
               PROVE  v.bal[s][a] >= w.bal[s][a]
    BY DEF NoLoss
  <2>1. a \in Address \ {p} /\ w.bal[s][a] \in Int
    BY <1>2 DEF LedgersOk, Address
  <2> QED BY <1>1, <2>1 DEF PaysOut
<1>14. Remembers(w, v)
  BY <1>1, <1>2 DEF Remembers, LedgersOk
<1>15. ASSUME v.negatives[p] = 0 PROVE Solvent(v, p)
  <2>1. Solvent(w, p)
    BY <1>1, <1>15, PairFacts
  <2>2. q.supply * q.supply <= q.reserveX * q.reserveY
    BY <2>1 DEF Solvent, q
  <2>3. q.supply * q.supply <= r.reserveX * r.reserveY
    <3> DEFINE a == q.reserveX * q.reserveY
               b == r.reserveX * r.reserveY
               m == q.supply * q.supply
    <3>1. a \in Nat /\ b \in Nat
      BY <1>6, <1>8, ProductNatural
    <3>2. m \in Nat
      BY <1>2, ProductNatural
    <3> HIDE DEF a, b, m
    <3>3. m <= a /\ a <= b => m <= b
      BY <3>1, <3>2
    <3> QED BY <1>9, <2>2, <3>3 DEF a, b, m
  <2>4. /\ r.reserveX >= 0 /\ r.reserveX <= v.bal[r.tokenX][p]
        /\ r.reserveY >= 0 /\ r.reserveY <= v.bal[r.tokenY][p]
    BY <1>3, <1>8
  <2> QED BY <1>3, <2>3, <2>4 DEF Solvent, r
<1>16. WorldOk(v)
  BY <1>1, <1>11, <1>12, <1>13, <1>14, <1>15, OnePoolChanged DEF r
<1> QED BY <1>1, <1>10, <1>12, <1>16 DEF q, r

\* sync takes what a pair has as its reserves: never less than before, if the
\* pair was never paid a negative amount.
LEMMA SyncStep ==
  ASSUME NEW w, WorldOk(w), NEW p \in DOMAIN w.pool
  PROVE  LET v == SetReserves(w, p)
         IN  /\ WorldOk(v) /\ OnlyPool(w, v, p) /\ v.negatives = w.negatives
             /\ v.negatives[p] = 0 => Grows(w.pool[p], v.pool[p])
<1> DEFINE v == SetReserves(w, p)
           q == w.pool[p]
           r == v.pool[p]
<1>1. /\ IsWorld(w) /\ LedgersOk(w) /\ IsPool(q)
      /\ w.bal[q.tokenX][p] \in Int /\ w.bal[q.tokenY][p] \in Int
  BY PairFacts
<1>2. /\ IsWorld(v) /\ v.bal = w.bal /\ v.registry = w.registry /\ v.pairList = w.pairList
      /\ v.negatives = w.negatives
      /\ v.pool = [w.pool EXCEPT ![p] =
                     [q EXCEPT !.reserveX = w.bal[q.tokenX][p], !.reserveY = w.bal[q.tokenY][p]]]
  <2> HIDE DEF v
  <2> QED BY <1>1, SetReservesStep DEF v
<1> HIDE DEF v
<1>3. /\ r = [q EXCEPT !.reserveX = w.bal[q.tokenX][p], !.reserveY = w.bal[q.tokenY][p]]
      /\ v.pool = [w.pool EXCEPT ![p] = r]
  BY <1>2
<1>4. /\ r = [tokenX |-> q.tokenX, tokenY |-> q.tokenY, reserveX |-> r.reserveX,
               reserveY |-> r.reserveY, supply |-> q.supply, lp |-> q.lp]
      /\ r.tokenX = q.tokenX /\ r.tokenY = q.tokenY
      /\ r.reserveX = w.bal[q.tokenX][p] /\ r.reserveY = w.bal[q.tokenY][p]
      /\ r.supply = q.supply /\ r.lp = q.lp
  <2> HIDE DEF q, r
  <2> QED BY <1>1, <1>3 DEF IsPool
<1>5. ASSUME v.negatives[p] = 0 PROVE Solvent(v, p) /\ Grows(q, r)
  <2>1. Solvent(w, p)
    BY <1>2, <1>5, PairFacts
  <2>2. /\ q.reserveX \in Nat /\ q.reserveY \in Nat /\ q.supply \in Nat
        /\ q.supply * q.supply <= q.reserveX * q.reserveY
        /\ w.bal[q.tokenX][p] \in Nat /\ q.reserveX <= w.bal[q.tokenX][p]
        /\ w.bal[q.tokenY][p] \in Nat /\ q.reserveY <= w.bal[q.tokenY][p]
    BY <2>1, SolventFacts
  <2> HIDE DEF q, r
  <2>3. q.supply * q.supply <= r.reserveX * r.reserveY
    <3> DEFINE a == q.reserveX * q.reserveY
               b == r.reserveX * r.reserveY
               m == q.supply * q.supply
    <3>1. a <= b
      BY <1>4, <2>2, ProductMonotone
    <3>2. a \in Nat /\ b \in Nat
      BY <1>4, <2>2, ProductNatural
    <3>3. m \in Nat
      BY <2>2, ProductNatural
    <3>4. m <= a
      BY <2>2
    <3> HIDE DEF a, b, m
    <3>5. m <= b
      BY <3>1, <3>2, <3>3, <3>4
    <3> QED BY <3>5 DEF b, m
  <2>4. /\ r.reserveX >= 0 /\ r.reserveX <= v.bal[r.tokenX][p]
        /\ r.reserveY >= 0 /\ r.reserveY <= v.bal[r.tokenY][p]
    BY <1>2, <1>4, <2>2
  <2>5. Solvent(v, p)
    BY <1>4, <2>3, <2>4 DEF Solvent, r
  <2>6. Grows(q, r)
    BY <1>4, <2>2 DEF Grows
  <2> QED BY <2>5, <2>6
<1>6. IsPool(r)
  <2> HIDE DEF q, r
  <2> QED BY <1>1, <1>4 DEF IsPool
<1>7. OnlyPool(w, v, p)
  <2> HIDE DEF q, r
  <2> QED BY <1>2, <1>3, <1>4 DEF OnlyPool, TokensOf, q, r
<1>8. WorldOk(v)
  <2>1. LedgersOk(v)
    BY <1>1, <1>2 DEF LedgersOk
  <2>2. NoLoss(w, v, PairAddresses \ {p}) /\ Remembers(w, v)
    BY <1>1, <1>2 DEF NoLoss, Remembers, LedgersOk, Address
  <2> QED BY <1>2, <1>5, <1>6, <1>7, <2>1, <2>2, OnePoolChanged
<1> QED BY <1>2, <1>5, <1>7, <1>8 DEF v

-----------------------------------------------------------------------------
(* The factory. *)

\* Two different tokens are ordered the same way in whatever order they come.
LEMMA SortOrders ==
  ASSUME NEW a \in Tokens, NEW b \in Tokens, a # b
  PROVE  /\ Sort(a, b) = Sort(b, a)
         /\ Sort(a, b)[1] \in Tokens /\ Sort(a, b)[2] \in Tokens
         /\ Sort(a, b)[1] < Sort(a, b)[2]
         /\ {Sort(a, b)[1], Sort(a, b)[2]} = {a, b}
         /\ Sort(a, b) = <<Sort(a, b)[1], Sort(a, b)[2]>>
<1>1. a \in Nat /\ b \in Nat
  BY TokenAssumption
<1> QED BY <1>1 DEF Sort

\* What create_pair leaves: one more pair, empty, at the next address.
LEMMA CreatedResult ==
  ASSUME NEW w, WorldOk(w), NEW a \in Tokens, NEW b \in Tokens, NEW v \in Created(w, a, b)
  PROVE  \E p, q, k :
           /\ p \in PairAddresses \ DOMAIN w.pool
           /\ a # b /\ k = Sort(a, b) /\ k \notin DOMAIN w.registry
           /\ Len(w.pairList) < Len(PairSlots) /\ p = PairSlots[Len(w.pairList) + 1]
           /\ IsPool(q) /\ TokensOf(q) = k
           /\ q.reserveX = 0 /\ q.reserveY = 0 /\ q.supply = 0
           /\ IsWorld(v) /\ v.bal = w.bal /\ v.negatives = w.negatives
           /\ v.pool = With(w.pool, p, q) /\ v.registry = With(w.registry, k, p)
           /\ v.pairList = Append(w.pairList, p)
<1> DEFINE p == PairSlots[Len(w.pairList) + 1]
           k == Sort(a, b)
           zero == [u \in Address |-> 0]
           q == [tokenX |-> k[1], tokenY |-> k[2],
                 reserveX |-> 0, reserveY |-> 0, supply |-> 0, lp |-> zero]
<1>1. /\ a # b /\ k \notin DOMAIN w.registry /\ Len(w.pairList) < Len(PairSlots)
      /\ v = [w EXCEPT !.pool = With(@, p, q), !.registry = With(@, k, p),
                       !.pairList = Append(@, p)]
  BY DEF Created, PairExists
<1>2. IsWorld(w) /\ PoolsOk(w) /\ RegistryOk(w)
  BY DEF WorldOk
<1>3. p \in PairAddresses /\ p \notin DOMAIN w.pool
  <2>1. Len(w.pairList) \in Nat /\ Len(w.pairList) + 1 \in DOMAIN PairSlots
    BY <1>1, <1>2, AddressAssumption DEF RegistryOk
  <2>2. \A i \in 1 .. Len(w.pairList) : PairSlots[i] # p
    BY <1>1, <2>1, AddressAssumption
  <2> QED BY <1>2, <2>1, <2>2 DEF RegistryOk, PairAddresses
<1>4. IsPool(q) /\ TokensOf(q) = k
  <2>1. /\ k[1] \in Tokens /\ k[2] \in Tokens /\ k[1] < k[2] /\ k = <<k[1], k[2]>>
    BY <1>1, SortOrders
  <2>2. zero \in [Address -> Nat] /\ IsLedger(zero) /\ Total(zero) = 0
    BY TotalOfZero
  <2> HIDE DEF k, zero
  <2> QED BY <2>1, <2>2 DEF IsPool, TokensOf
<1>5. q.reserveX = 0 /\ q.reserveY = 0 /\ q.supply = 0
  OBVIOUS
<1> HIDE DEF p, q, k
<1>6. /\ IsWorld(v) /\ v.bal = w.bal /\ v.pool = With(w.pool, p, q)
      /\ v.negatives = w.negatives
      /\ v.registry = With(w.registry, k, p) /\ v.pairList = Append(w.pairList, p)
  BY <1>1, <1>2 DEF IsWorld
<1> QED BY <1>1, <1>3, <1>4, <1>5, <1>6 DEF p, k

\* A world with one more, empty pair is sound.
LEMMA CreatedStep ==
  ASSUME NEW w, WorldOk(w), NEW a \in Tokens, NEW b \in Tokens, NEW v \in Created(w, a, b)
  PROVE  /\ WorldOk(v) /\ v.bal = w.bal /\ v.negatives = w.negatives
         /\ DOMAIN w.pool \subseteq DOMAIN v.pool
         /\ \A p \in DOMAIN w.pool : v.pool[p] = w.pool[p]
         /\ \A p \in DOMAIN v.pool \ DOMAIN w.pool :
              v.pool[p].reserveX = 0 /\ v.pool[p].reserveY = 0 /\ v.pool[p].supply = 0
         /\ Sort(a, b) \in DOMAIN v.registry
<1>1. PICK p, q, k :
        /\ p \in PairAddresses \ DOMAIN w.pool
        /\ a # b /\ k = Sort(a, b) /\ k \notin DOMAIN w.registry
        /\ Len(w.pairList) < Len(PairSlots) /\ p = PairSlots[Len(w.pairList) + 1]
        /\ IsPool(q) /\ TokensOf(q) = k
        /\ q.reserveX = 0 /\ q.reserveY = 0 /\ q.supply = 0
        /\ IsWorld(v) /\ v.bal = w.bal /\ v.negatives = w.negatives
        /\ v.pool = With(w.pool, p, q) /\ v.registry = With(w.registry, k, p)
        /\ v.pairList = Append(w.pairList, p)
  BY CreatedResult
<1>2. LedgersOk(w) /\ PoolsOk(w) /\ RegistryOk(w)
  BY DEF WorldOk
<1>3. /\ DOMAIN v.pool = DOMAIN w.pool \cup {p} /\ v.pool[p] = q
      /\ v.pool = [r \in DOMAIN v.pool |-> v.pool[r]]
      /\ \A r \in DOMAIN w.pool : v.pool[r] = w.pool[r]
  BY <1>1 DEF With
<1>4. /\ DOMAIN v.registry = DOMAIN w.registry \cup {k} /\ v.registry[k] = p
      /\ v.registry = [r \in DOMAIN v.registry |-> v.registry[r]]
      /\ \A r \in DOMAIN w.registry : v.registry[r] = w.registry[r]
  BY <1>1 DEF With
<1>5. LedgersOk(v) /\ PoolsOk(v)
  BY <1>1, <1>2, <1>3 DEF LedgersOk, PoolsOk
<1>6. \A r \in DOMAIN v.pool : v.negatives[r] = 0 => Solvent(v, r)
  <2> SUFFICES ASSUME NEW r \in DOMAIN v.pool, v.negatives[r] = 0 PROVE Solvent(v, r)
    OBVIOUS
  <2>1. CASE r \in DOMAIN w.pool
    <3>1. Solvent(w, r)
      BY <1>1, <2>1 DEF WorldOk
    <3> QED BY <1>1, <1>3, <2>1, <3>1 DEF Solvent
  <2>2. CASE r \notin DOMAIN w.pool
    <3>1. r = p /\ v.pool[r] = q
      BY <1>3, <2>2
    <3>2. q.tokenX \in Tokens /\ q.tokenY \in Tokens /\ p \in Address
      BY <1>1 DEF IsPool, Address
    <3>3. v.bal[q.tokenX][p] >= 0 /\ v.bal[q.tokenY][p] >= 0
      BY <1>5, <3>1, <3>2 DEF LedgersOk
    <3> QED BY <1>1, <3>1, <3>3 DEF Solvent
  <2> QED BY <2>1, <2>2
<1>7. RegistryOk(v)
  <2>1. /\ v.pairList \in Seq(PairAddresses) /\ Len(v.pairList) = Len(w.pairList) + 1
        /\ Len(w.pairList) \in Nat /\ Len(v.pairList) <= Len(PairSlots)
        /\ v.pairList[Len(w.pairList) + 1] = p
        /\ \A i \in 1 .. Len(w.pairList) : v.pairList[i] = w.pairList[i]
    BY <1>1, <1>2, AddressAssumption DEF RegistryOk
  <2>2. \A i \in 1 .. Len(v.pairList) : v.pairList[i] = PairSlots[i]
    BY <1>1, <1>2, <2>1 DEF RegistryOk
  <2>3. DOMAIN v.pool = {v.pairList[i] : i \in 1 .. Len(v.pairList)}
    <3>1. DOMAIN w.pool = {w.pairList[i] : i \in 1 .. Len(w.pairList)}
      BY <1>2 DEF RegistryOk
    <3>2. 1 .. Len(v.pairList) = 1 .. Len(w.pairList) \cup {Len(w.pairList) + 1}
      BY <2>1
    <3> QED BY <1>3, <2>1, <3>1, <3>2
  <2>4. \A r \in DOMAIN v.registry :
          v.registry[r] \in DOMAIN v.pool /\ TokensOf(v.pool[v.registry[r]]) = r
    BY <1>1, <1>2, <1>3, <1>4 DEF RegistryOk
  <2>5. \A r \in DOMAIN v.pool :
          TokensOf(v.pool[r]) \in DOMAIN v.registry /\ v.registry[TokensOf(v.pool[r])] = r
    BY <1>1, <1>2, <1>3, <1>4 DEF RegistryOk
  <2>6. IsFiniteSet(DOMAIN v.registry) /\ Cardinality(DOMAIN v.registry) = Len(v.pairList)
    <3>1. /\ IsFiniteSet(DOMAIN w.registry) /\ Cardinality(DOMAIN w.registry) = Len(w.pairList)
          /\ k \notin DOMAIN w.registry
      BY <1>1, <1>2 DEF RegistryOk
    <3>2. /\ IsFiniteSet(DOMAIN w.registry \cup {k})
          /\ Cardinality(DOMAIN w.registry \cup {k}) = Cardinality(DOMAIN w.registry) + 1
      BY <3>1, FS_AddElement
    <3> QED BY <1>4, <2>1, <3>1, <3>2
  <2> QED BY <1>4, <2>1, <2>2, <2>3, <2>4, <2>5, <2>6 DEF RegistryOk
<1> QED BY <1>1, <1>3, <1>4, <1>5, <1>6, <1>7 DEF WorldOk

\* The pair the registry names for two tokens is the pair of these tokens.
LEMMA PairOfTokens ==
  ASSUME NEW w, WorldOk(w), NEW a \in Tokens, NEW b \in Tokens, PairExists(w, a, b)
  PROVE  /\ a # b /\ GetPair(w, a, b) \in DOMAIN w.pool
         /\ PairExists(w, b, a) /\ GetPair(w, a, b) = GetPair(w, b, a)
         /\ TokensOf(w.pool[GetPair(w, a, b)]) = Sort(a, b)
         /\ {w.pool[GetPair(w, a, b)].tokenX, w.pool[GetPair(w, a, b)].tokenY} = {a, b}
<1> DEFINE p == GetPair(w, a, b)
           q == w.pool[p]
<1>1. p \in DOMAIN w.pool /\ TokensOf(q) = Sort(a, b)
  BY DEF PairExists, GetPair, WorldOk, RegistryOk
<1>2. q.tokenX # q.tokenY
  BY <1>1, PairFacts
<1>3. a # b
  BY <1>1, <1>2 DEF TokensOf, Sort
<1>4. Sort(a, b) = Sort(b, a) /\ {Sort(a, b)[1], Sort(a, b)[2]} = {a, b}
  BY <1>3, SortOrders
<1> QED BY <1>1, <1>3, <1>4 DEF TokensOf, PairExists, GetPair

-----------------------------------------------------------------------------
(* Deposits and withdrawals through the router. *)

(* What is behind the address of a pair, deployed or not.                  *)
Held(w, p) ==
  IF p \in DOMAIN w.pool THEN w.pool[p] ELSE [reserveX |-> 0, reserveY |-> 0, supply |-> 0]

SameStock(q, r) ==
  r.reserveX = q.reserveX /\ r.reserveY = q.reserveY /\ r.supply = q.supply

VaultStep(q, r) ==
  Opens(q, r) \/ Joins(q, r) \/ Leaves(q, r) \/ Grows(q, r) \/ Trades(q, r)

(* A pair keeps what a vault promises.                                     *)
Keeps(w, v, p) == SameStock(Held(w, p), Held(v, p)) \/ VaultStep(Held(w, p), Held(v, p))

(* Every pair does, until it is paid a negative amount.                    *)
KeepsPromises(w, v) ==
  Remembers(w, v) /\ \A p \in PairAddresses : v.negatives[p] = 0 => Keeps(w, v, p)

\* An unchanged history is remembered.
LEMMA SameHistory ==
  ASSUME NEW w, LedgersOk(w), NEW v, v.negatives = w.negatives
  PROVE  Remembers(w, v)
BY DEF Remembers, LedgersOk

\* A call that concerns one pair keeps every promise if that pair does.
LEMMA OnePairKeeps ==
  ASSUME NEW w, NEW v, NEW p \in DOMAIN w.pool, OnlyPool(w, v, p), Remembers(w, v),
         v.negatives[p] = 0 => VaultStep(w.pool[p], v.pool[p])
  PROVE  KeepsPromises(w, v)
<1>1. DOMAIN v.pool = DOMAIN w.pool /\ \A r \in DOMAIN w.pool : r # p => v.pool[r] = w.pool[r]
  BY DEF OnlyPool
<1>2. \A r \in PairAddresses : r # p => Held(v, r) = Held(w, r)
  BY <1>1 DEF Held
<1>3. Held(w, p) = w.pool[p] /\ Held(v, p) = v.pool[p]
  BY <1>1 DEF Held
<1>4. ASSUME NEW r \in PairAddresses, v.negatives[r] = 0 PROVE Keeps(w, v, r)
  <2>1. CASE r = p
    BY <1>3, <1>4, <2>1 DEF Keeps
  <2>2. CASE r # p
    BY <1>2, <2>2 DEF Keeps, SameStock
  <2> QED BY <2>1, <2>2
<1> QED BY <1>4 DEF KeepsPromises

\* The reserves of a pair are integers.
LEMMA ReservesTyped ==
  ASSUME NEW w, WorldOk(w), NEW a \in Tokens, NEW b \in Tokens, PairExists(w, a, b)
  PROVE  ReservesOf(w, a, b)[1] \in Int /\ ReservesOf(w, a, b)[2] \in Int
<1>1. GetPair(w, a, b) \in DOMAIN w.pool
  BY PairOfTokens
<1> QED BY <1>1, PairFacts DEF ReservesOf

\* add_liquidity of the router: the pair is created if need be, and opened or
\* joined.
LEMMA RouterAddStep ==
  ASSUME NEW w, WorldOk(w), NEW caller \in Users, NEW a \in Tokens, NEW b \in Tokens,
         NEW m \in Int, NEW n \in Int, NEW aMin \in Int, NEW bMin \in Int, NEW to \in Address,
         NEW v \in RouterAdd(w, caller, a, b, m, n, aMin, bMin, to)
  PROVE  WorldOk(v) /\ KeepsPromises(w, v)
<1> DEFINE Chosen(z) == Settled(m, n, aMin, bMin, ReservesOf(z, a, b)[1], ReservesOf(z, a, b)[2])
           Left(z, s) == IF z.pool[GetPair(z, a, b)].tokenX = a
                         THEN PairAdd(z, GetPair(z, a, b), caller, s[1], s[2], to)
                         ELSE PairAdd(z, GetPair(z, a, b), caller, s[2], s[1], to)
<1>0. PICK z \in IF PairExists(w, a, b) THEN {w} ELSE Created(w, a, b) :
        v \in UNION {Left(z, s) : s \in Chosen(z)}
  BY DEF RouterAdd, After
<1>1. PICK s \in Chosen(z) : v \in Left(z, s)
  <2> HIDE DEF Chosen, Left
  <2> QED BY <1>0
<1>2. /\ WorldOk(z) /\ PairExists(z, a, b) /\ z.negatives = w.negatives
      /\ \A p \in PairAddresses : SameStock(Held(w, p), Held(z, p))
  <2>1. CASE PairExists(w, a, b)
    BY <1>0, <2>1 DEF SameStock
  <2>2. CASE ~PairExists(w, a, b)
    <3>1. z \in Created(w, a, b)
      BY <1>0, <2>2
    <3> QED BY <3>1, CreatedStep DEF SameStock, Held, PairExists
  <2> QED BY <2>1, <2>2
<1> DEFINE p == GetPair(z, a, b)
<1>3. p \in DOMAIN z.pool
  BY <1>2, PairOfTokens
<1>4. PICK x \in Int, y \in Int : s = <<x, y>>
  <2>1. ReservesOf(z, a, b)[1] \in Int /\ ReservesOf(z, a, b)[2] \in Int
    BY <1>2, ReservesTyped
  <2> QED BY <1>1, <2>1, SettledAmounts
<1>5. v \in PairAdd(z, p, caller, x, y, to) \/ v \in PairAdd(z, p, caller, y, x, to)
  BY <1>1, <1>4
<1> HIDE DEF p
<1>6. /\ WorldOk(v) /\ OnlyPool(z, v, p) /\ Remembers(z, v)
      /\ v.negatives[p] = 0 => Opens(z.pool[p], v.pool[p]) \/ Joins(z.pool[p], v.pool[p])
  BY <1>2, <1>3, <1>5, PairAddStep
<1>7. KeepsPromises(z, v)
  BY <1>3, <1>6, OnePairKeeps DEF VaultStep
<1>8. Remembers(w, v)
  BY <1>2, <1>6 DEF Remembers
<1>9. ASSUME NEW r \in PairAddresses, v.negatives[r] = 0 PROVE Keeps(w, v, r)
  <2>1. SameStock(Held(w, r), Held(z, r))
    BY <1>2
  <2>2. SameStock(Held(z, r), Held(v, r)) \/ VaultStep(Held(z, r), Held(v, r))
    BY <1>7, <1>9 DEF KeepsPromises, Keeps
  <2>3. SameStock(Held(w, r), Held(v, r)) \/ VaultStep(Held(w, r), Held(v, r))
    BY <2>1, <2>2 DEF SameStock, VaultStep, Opens, Joins, Leaves, Grows, Trades, KeepsEachSide
  <2> QED BY <2>3 DEF Keeps
<1> QED BY <1>6, <1>8, <1>9 DEF KeepsPromises

\* remove_liquidity of the router: the pair is left.
LEMMA RouterRemoveStep ==
  ASSUME NEW w, WorldOk(w), NEW caller \in Users, NEW a \in Tokens, NEW b \in Tokens,
         NEW n \in Int, NEW aMin, NEW bMin, NEW to \in Address,
         NEW v \in RouterRemove(w, caller, a, b, n, aMin, bMin, to)
  PROVE  WorldOk(v) /\ KeepsPromises(w, v)
<1> DEFINE p == GetPair(w, a, b)
<1>1. PairExists(w, a, b) /\ caller \in Address
  BY DEF RouterRemove, Address
<1>2. \/ v \in PairRemove(w, p, caller, n, aMin, bMin, to)
      \/ v \in PairRemove(w, p, caller, n, bMin, aMin, to)
  BY DEF RouterRemove
<1>3. p \in DOMAIN w.pool
  BY <1>1, PairOfTokens
<1> HIDE DEF p
<1>4. /\ WorldOk(v) /\ OnlyPool(w, v, p) /\ v.negatives = w.negatives
      /\ v.negatives[p] = 0 => Leaves(w.pool[p], v.pool[p])
  BY <1>1, <1>2, <1>3, PairRemoveStep
<1>5. Remembers(w, v)
  BY <1>4, SameHistory DEF WorldOk
<1> QED BY <1>3, <1>4, <1>5, OnePairKeeps DEF VaultStep

-----------------------------------------------------------------------------
(* Swaps along a path. *)

(* The tokens of a pair.                                                   *)
Exchanges(q, a, b) == {q.tokenX, q.tokenY} = {a, b}

\* The hops of a path use deployed pairs of the tokens they exchange.
LEMMA PathFacts ==
  ASSUME NEW w, WorldOk(w), NEW path \in Seq(Tokens), PathOk(w, path),
         NEW i \in 1 .. Len(path) - 1
  PROVE  /\ Len(path) \in Nat /\ Len(path) >= 2 /\ i \in Nat
         /\ path[i] \in Tokens /\ path[i + 1] \in Tokens /\ path[i] # path[i + 1]
         /\ PairExists(w, path[i], path[i + 1])
         /\ PairFor(w, path, i) \in DOMAIN w.pool
         /\ Exchanges(w.pool[PairFor(w, path, i)], path[i], path[i + 1])
<1>1. /\ Len(path) \in Nat /\ Len(path) >= 2 /\ i \in Nat
      /\ path[i] \in Tokens /\ path[i + 1] \in Tokens
      /\ PairExists(w, path[i], path[i + 1])
  BY DEF PathOk
<1> QED BY <1>1, PairOfTokens DEF PairFor, Exchanges

\* Where a hop pays is an address.
LEMMA HopToAddress ==
  ASSUME NEW w, WorldOk(w), NEW path \in Seq(Tokens), PathOk(w, path),
         NEW i \in 1 .. Len(path) - 1, NEW to \in Address
  PROVE  /\ HopTo(w, path, i, to) \in Address
         /\ i = Len(path) - 1 => HopTo(w, path, i, to) = to
         /\ i # Len(path) - 1 => HopTo(w, path, i, to) = PairFor(w, path, i + 1)
         /\ i # Len(path) - 1 => HopTo(w, path, i, to) \in PairAddresses
<1>1. Len(path) \in Nat /\ i \in Nat
  OBVIOUS
<1>2. CASE i + 1 < Len(path)
  <2>1. i + 1 \in 1 .. Len(path) - 1
    BY <1>1, <1>2
  <2>2. PairFor(w, path, i + 1) \in DOMAIN w.pool
    BY <2>1, PathFacts
  <2> QED BY <1>1, <1>2, <2>2 DEF HopTo, WorldOk, PoolsOk, Address
<1>3. CASE ~(i + 1 < Len(path))
  BY <1>1, <1>3 DEF HopTo
<1> QED BY <1>2, <1>3

(* What a hop leaves: a trade with p, which pays n units of t to `to'.     *)
IsHop(w, v, p, to, t, n) ==
  \E xOut, yOut \in Nat :
    /\ IsTrade(w, v, p, to, t, n, xOut, yOut)
    /\ t = w.pool[p].tokenX => xOut = n /\ yOut = 0
    /\ t = w.pool[p].tokenY => xOut = 0 /\ yOut = n

\* A trade pays something.
LEMMA NoEmptyTrade ==
  ASSUME NEW w, NEW v, NEW p, NEW to, NEW t, NEW xOut, NEW yOut
  PROVE  ~IsTrade(w, v, p, to, t, 0, xOut, yOut)
<1> SUFFICES ASSUME IsTrade(w, v, p, to, t, 0, xOut, yOut) PROVE FALSE
  OBVIOUS
<1>1. 0 > 0
  BY DEF IsTrade
<1> QED BY <1>1

\* Every hop trades with its pair.
LEMMA HopResult ==
  ASSUME NEW w, WorldOk(w), NEW path \in Seq(Tokens), PathOk(w, path),
         NEW i \in 1 .. Len(path) - 1, NEW amounts, amounts[i + 1] \in Nat,
         NEW to \in Address, NEW v \in Hop(w, amounts, path, to, i)
  PROVE  IsHop(w, v, PairFor(w, path, i), HopTo(w, path, i, to), path[i + 1], amounts[i + 1])
<1> DEFINE p == PairFor(w, path, i)
           q == w.pool[p]
           out == amounts[i + 1]
           dest == HopTo(w, path, i, to)
<1>1. /\ p \in DOMAIN w.pool /\ Exchanges(q, path[i], path[i + 1])
      /\ path[i] # path[i + 1]
  BY PathFacts
<1>2. q.tokenX # q.tokenY
  BY <1>1, PairFacts
<1>3. dest \in Address /\ out \in Nat
  BY HopToAddress
<1>4. CASE q.tokenX = path[i + 1]
  <2>1. v \in PairSwap(w, p, out, 0, dest)
    BY <1>4 DEF Hop
  <2> HIDE DEF p, out, dest
  <2>2. \/ IsTrade(w, v, p, dest, q.tokenX, out, out, 0)
        \/ out = 0 /\ IsTrade(w, v, p, dest, q.tokenY, 0, out, 0)
    BY <1>1, <1>3, <2>1, PairSwapResult
  <2>3. ~IsTrade(w, v, p, dest, q.tokenY, 0, out, 0)
    BY NoEmptyTrade
  <2>5. IsTrade(w, v, p, dest, q.tokenX, out, out, 0)
    BY <2>2, <2>3
  <2>4. IsHop(w, v, p, dest, q.tokenX, out)
    BY <1>2, <1>3, <2>5 DEF IsHop
  <2> QED BY <1>4, <2>4 DEF p, out, dest
<1>5. CASE q.tokenX # path[i + 1]
  <2>1. v \in PairSwap(w, p, 0, out, dest) /\ q.tokenY = path[i + 1]
    BY <1>1, <1>5 DEF Hop, Exchanges
  <2> HIDE DEF p, out, dest
  <2>2. \/ IsTrade(w, v, p, dest, q.tokenY, out, 0, out)
        \/ out = 0 /\ IsTrade(w, v, p, dest, q.tokenX, 0, 0, out)
    BY <1>1, <1>3, <2>1, PairSwapResult
  <2>3. ~IsTrade(w, v, p, dest, q.tokenX, 0, 0, out)
    BY NoEmptyTrade
  <2>5. IsTrade(w, v, p, dest, q.tokenY, out, 0, out)
    BY <2>2, <2>3
  <2>4. IsHop(w, v, p, dest, q.tokenY, out)
    BY <1>2, <1>3, <2>5 DEF IsHop
  <2> QED BY <2>1, <2>4 DEF p, out, dest
<1> QED BY <1>4, <1>5

(* Some pairs have traded, and nothing else has happened to any.           *)
Traded(w, v) ==
  /\ v.registry = w.registry /\ v.pairList = w.pairList /\ DOMAIN v.pool = DOMAIN w.pool
  /\ v.negatives = w.negatives
  /\ \A p \in DOMAIN w.pool :
       /\ TokensOf(v.pool[p]) = TokensOf(w.pool[p])
       /\ SameStock(w.pool[p], v.pool[p]) \/ Trades(w.pool[p], v.pool[p])

\* Trades after trades are trades.
LEMMA TradesCompose ==
  ASSUME NEW q, NEW r, NEW s, IsPool(q), IsPool(r), IsPool(s),
         SameStock(q, r) \/ Trades(q, r), SameStock(r, s) \/ Trades(r, s)
  PROVE  SameStock(q, s) \/ Trades(q, s)
<1> DEFINE k == q.reserveX * q.reserveY
           l == r.reserveX * r.reserveY
           m == s.reserveX * s.reserveY
<1>1. k \in Int /\ l \in Int /\ m \in Int
  BY DEF IsPool
<1>2. CASE SameStock(q, r) \/ SameStock(r, s)
  BY <1>2 DEF SameStock, Trades
<1>3. CASE Trades(q, r) /\ Trades(r, s)
  <2>1. l >= k /\ m >= l /\ s.supply = q.supply /\ s.reserveX >= 0 /\ s.reserveY >= 0
    BY <1>3 DEF Trades
  <2>2. m >= k
    <3> HIDE DEF k, l, m
    <3> QED BY <1>1, <2>1
  <2> QED BY <2>1, <2>2 DEF Trades
<1> QED BY <1>2, <1>3

\* Several pairs that have traded after others have all traded.
LEMMA TradedCompose ==
  ASSUME NEW w, WorldOk(w), NEW v, WorldOk(v), NEW z, WorldOk(z), Traded(w, v), Traded(v, z)
  PROVE  Traded(w, z)
<1> SUFFICES ASSUME NEW p \in DOMAIN w.pool
             PROVE  /\ TokensOf(z.pool[p]) = TokensOf(w.pool[p])
                    /\ SameStock(w.pool[p], z.pool[p]) \/ Trades(w.pool[p], z.pool[p])
  BY DEF Traded
<1>1. IsPool(w.pool[p]) /\ IsPool(v.pool[p]) /\ IsPool(z.pool[p])
  BY DEF WorldOk, PoolsOk, Traded
<1>2. /\ SameStock(w.pool[p], v.pool[p]) \/ Trades(w.pool[p], v.pool[p])
      /\ SameStock(v.pool[p], z.pool[p]) \/ Trades(v.pool[p], z.pool[p])
      /\ TokensOf(z.pool[p]) = TokensOf(w.pool[p])
  BY DEF Traded
<1> QED BY <1>1, <1>2, TradesCompose

\* What has traded has kept its promises.
LEMMA TradedKeeps ==
  ASSUME NEW w, LedgersOk(w), NEW v, Traded(w, v)
  PROVE  KeepsPromises(w, v)
<1>1. \A p \in PairAddresses : Keeps(w, v, p)
  BY DEF Traded, Keeps, Held, SameStock, VaultStep
<1>2. Remembers(w, v)
  BY SameHistory DEF Traded
<1> QED BY <1>1, <1>2 DEF KeepsPromises

\* A hop keeps the world sound, and trades with its pair only.
LEMMA HopStep ==
  ASSUME NEW w, WorldOk(w), NEW path \in Seq(Tokens), PathOk(w, path),
         NEW i \in 1 .. Len(path) - 1, NEW amounts, amounts[i + 1] \in Nat,
         NEW to \in Address, NEW v \in Hop(w, amounts, path, to, i)
  PROVE  /\ WorldOk(v) /\ Traded(w, v) /\ OnlyPool(w, v, PairFor(w, path, i))
         /\ PaysOut(w, v, PairFor(w, path, i), HopTo(w, path, i, to),
                    path[i + 1], amounts[i + 1])
<1> DEFINE p == PairFor(w, path, i)
           out == amounts[i + 1]
           dest == HopTo(w, path, i, to)
<1>1. /\ p \in DOMAIN w.pool /\ path[i + 1] \in Tokens /\ dest \in Address
      /\ path[i + 1] \in {w.pool[p].tokenX, w.pool[p].tokenY}
  <2>1. /\ p \in DOMAIN w.pool /\ path[i + 1] \in Tokens
        /\ Exchanges(w.pool[p], path[i], path[i + 1])
    BY PathFacts
  <2>2. dest \in Address
    BY HopToAddress
  <2> QED BY <2>1, <2>2 DEF Exchanges
<1>2. IsHop(w, v, p, dest, path[i + 1], out)
  BY HopResult
<1> HIDE DEF p, out, dest
<1>3. PICK xOut \in Nat, yOut \in Nat :
        /\ IsTrade(w, v, p, dest, path[i + 1], out, xOut, yOut)
        /\ path[i + 1] = w.pool[p].tokenX => yOut = 0
        /\ path[i + 1] = w.pool[p].tokenY => xOut = 0
  BY <1>2 DEF IsHop
<1>4. /\ WorldOk(v) /\ OnlyPool(w, v, p) /\ v.negatives = w.negatives
      /\ Trades(w.pool[p], v.pool[p])
  <2>1. out \in Nat
    BY DEF out
  <2> QED BY <1>1, <1>3, <2>1, TradeStep
<1>5. PaysOut(w, v, p, dest, path[i + 1], out)
  BY <1>3 DEF IsTrade
<1>6. Traded(w, v)
  BY <1>1, <1>4 DEF OnlyPool, Traded, SameStock
<1> QED BY <1>4, <1>5, <1>6 DEF p, out, dest

(* The worlds after hop i, from those before it.                           *)
AfterHop(worlds, amounts, path, to, i) == UNION {Hop(v, amounts, path, to, i) : v \in worlds}

(* g is the sets of worlds after hops 0 to n.                              *)
IsChain(g, w, amounts, path, to, n) ==
  g = [i \in 0 .. n |-> IF i = 0 THEN {w} ELSE AfterHop(g[i - 1], amounts, path, to, i)]

(* The worlds after each hop.                                              *)
ChainOf(w, amounts, path, to) ==
  LET chain[i \in 0 .. Len(path) - 1] ==
        IF i = 0 THEN {w} ELSE AfterHop(chain[i - 1], amounts, path, to, i)
  IN  chain

\* The recursion that runs the hops has a solution.
LEMMA ChainExists ==
  ASSUME NEW w, NEW amounts, NEW path, NEW to, NEW n \in Nat
  PROVE  \E g : IsChain(g, w, amounts, path, to, n)
<1> DEFINE Later(worlds, i) == AfterHop(worlds, amounts, path, to, i)
           Solves(g, k) == g = [i \in 0 .. k |-> IF i = 0 THEN {w} ELSE Later(g[i - 1], i)]
           T == {k \in Nat : \E g : Solves(g, k)}
<1> HIDE DEF Later
<1>1. 0 \in T
  <2>1. Solves([i \in 0 .. 0 |-> {w}], 0)
    OBVIOUS
  <2> QED BY <2>1
<1>2. ASSUME NEW k \in Nat, k \in T PROVE k + 1 \in T
  <2>1. PICK g : Solves(g, k)
    BY <1>2
  <2> DEFINE h == [i \in 0 .. k + 1 |-> IF i <= k THEN g[i] ELSE Later(g[k], i)]
  <2>2. \A i \in 0 .. k + 1 : i # 0 => i - 1 \in 0 .. k /\ h[i - 1] = g[i - 1]
    OBVIOUS
  <2>3. ASSUME NEW i \in 0 .. k + 1
        PROVE  h[i] = IF i = 0 THEN {w} ELSE Later(h[i - 1], i)
    <3>1. CASE i <= k
      <4>1. i \in 0 .. k /\ h[i] = g[i]
        BY <3>1
      <4> QED BY <2>1, <2>2, <4>1
    <3>2. CASE ~(i <= k)
      <4>1. i = k + 1 /\ i - 1 = k /\ i # 0 /\ h[i] = Later(g[k], i)
        BY <3>2
      <4> QED BY <2>2, <4>1
    <3> QED BY <3>1, <3>2
  <2>4. Solves(h, k + 1)
    BY <2>3
  <2> HIDE DEF h, Solves
  <2> QED BY <2>4
<1>3. n \in T
  <2> HIDE DEF T
  <2> QED BY <1>1, <1>2, Induction
<1> QED BY <1>3 DEF Later, IsChain

(* chain is the sets of worlds after each hop, and the last is the result. *)
HopByHop(chain, w, amounts, path, to) ==
  /\ chain[0] = {w}
  /\ \A i \in 1 .. Len(path) - 1 : chain[i] = AfterHop(chain[i - 1], amounts, path, to, i)
  /\ RunSwapChain(w, amounts, path, to) = chain[Len(path) - 1]

\* The worlds after each hop are those after the hop before, one hop on.
LEMMA ChainFacts ==
  ASSUME NEW w, NEW amounts, NEW path \in Seq(Tokens), Len(path) >= 2, NEW to
  PROVE  HopByHop(ChainOf(w, amounts, path, to), w, amounts, path, to)
<1> DEFINE n == Len(path) - 1
           chain[i \in 0 .. n] ==
             IF i = 0 THEN {w} ELSE AfterHop(chain[i - 1], amounts, path, to, i)
<1>1. n \in Nat /\ n >= 1
  OBVIOUS
<1>2. /\ ChainOf(w, amounts, path, to) = chain
      /\ RunSwapChain(w, amounts, path, to) = chain[Len(path) - 1]
  BY DEF ChainOf, RunSwapChain, AfterHop
<1> HIDE DEF n
<1>3. \E g : IsChain(g, w, amounts, path, to, n)
  BY <1>1, ChainExists
<1>4. chain = [i \in 0 .. n |->
                 IF i = 0 THEN {w} ELSE AfterHop(chain[i - 1], amounts, path, to, i)]
  BY <1>3 DEF IsChain
<1> HIDE DEF chain
<1>5. chain[0] = {w}
  BY <1>1, <1>4
<1>6. ASSUME NEW i \in 1 .. n PROVE chain[i] = AfterHop(chain[i - 1], amounts, path, to, i)
  <2>1. i \in 0 .. n /\ i # 0
    BY <1>1
  <2> QED BY <1>4, <2>1
<1> QED BY <1>2, <1>5, <1>6 DEF n, HopByHop

IsAmounts(amounts, path) == amounts \in [1 .. Len(path) -> Nat]

(* After k hops: pairs have traded, and nobody else has anything but the   *)
(* recipient, who has the last amount after the last hop.                  *)
Routed(w, v, amounts, path, to, k) ==
  /\ WorldOk(v) /\ Traded(w, v)
  /\ \A t \in Tokens, u \in Address \ PairAddresses :
       v.bal[t][u] = w.bal[t][u]
                       + (IF k = Len(path) - 1 /\ u = to /\ t = path[Len(path)]
                          THEN amounts[Len(path)] ELSE 0)

\* What trades leaves every path as it was.
LEMMA TradedPath ==
  ASSUME NEW w, NEW v, Traded(w, v), NEW path, PathOk(w, path)
  PROVE  /\ PathOk(v, path)
         /\ \A i : PairFor(v, path, i) = PairFor(w, path, i)
         /\ \A i, to : HopTo(v, path, i, to) = HopTo(w, path, i, to)
BY DEF Traded, PathOk, PairExists, PairFor, GetPair, HopTo

\* The next hop pays into the next pair, the last hop to the recipient.
LEMMA HopRouted ==
  ASSUME NEW w, WorldOk(w), NEW path \in Seq(Tokens), PathOk(w, path),
         NEW amounts, IsAmounts(amounts, path), NEW to \in Address,
         NEW i \in 1 .. Len(path) - 1, NEW v, Routed(w, v, amounts, path, to, i - 1),
         NEW z \in Hop(v, amounts, path, to, i)
  PROVE  Routed(w, z, amounts, path, to, i)
<1>1. WorldOk(v) /\ Traded(w, v) /\ PathOk(v, path)
  BY TradedPath DEF Routed
<1>2. Len(path) \in Nat /\ i \in Nat /\ i + 1 \in 1 .. Len(path) /\ amounts[i + 1] \in Nat
  BY DEF IsAmounts
<1> DEFINE p == PairFor(v, path, i)
           dest == HopTo(v, path, i, to)
<1>3. WorldOk(z) /\ Traded(v, z) /\ PaysOut(v, z, p, dest, path[i + 1], amounts[i + 1])
  BY <1>1, <1>2, HopStep
<1>4. Traded(w, z)
  BY <1>1, <1>3, TradedCompose
<1>5. /\ p \in PairAddresses
      /\ i = Len(path) - 1 => dest = to
      /\ i # Len(path) - 1 => dest \in PairAddresses
  BY <1>1, PathFacts, HopToAddress DEF WorldOk, PoolsOk
<1>6. ASSUME NEW t \in Tokens, NEW u \in Address \ PairAddresses
      PROVE  z.bal[t][u] = w.bal[t][u]
                             + (IF i = Len(path) - 1 /\ u = to /\ t = path[Len(path)]
                                THEN amounts[Len(path)] ELSE 0)
  <2>1. z.bal[t][u] = v.bal[t][u]
                        + (IF t = path[i + 1] /\ u = dest THEN amounts[i + 1] ELSE 0)
    BY <1>3, <1>5 DEF PaysOut
  <2>2. w.bal[t][u] \in Int
    BY DEF WorldOk, LedgersOk
  <2>3. v.bal[t][u] = w.bal[t][u]
    <3>1. i - 1 # Len(path) - 1
      BY <1>2
    <3> QED BY <2>2, <3>1 DEF Routed
  <2> HIDE DEF p, dest
  <2>4. CASE i = Len(path) - 1
    BY <1>2, <1>5, <2>1, <2>3, <2>4
  <2>5. CASE i # Len(path) - 1
    BY <1>5, <2>1, <2>2, <2>3, <2>5
  <2> QED BY <2>4, <2>5
<1> QED BY <1>3, <1>4, <1>6 DEF Routed

\* All hops.
LEMMA ChainRouted ==
  ASSUME NEW w, WorldOk(w), NEW path \in Seq(Tokens), PathOk(w, path),
         NEW amounts, IsAmounts(amounts, path), NEW to \in Address,
         NEW v \in RunSwapChain(w, amounts, path, to)
  PROVE  Routed(w, v, amounts, path, to, Len(path) - 1)
<1> DEFINE chain == ChainOf(w, amounts, path, to)
           n == Len(path) - 1
           T == {k \in Nat : k <= n => \A z \in chain[k] : Routed(w, z, amounts, path, to, k)}
<1> HIDE DEF T, chain
<1>1. Len(path) >= 2 /\ n \in Nat /\ n >= 1
  BY DEF PathOk
<1>2. /\ chain[0] = {w} /\ RunSwapChain(w, amounts, path, to) = chain[n]
      /\ \A i \in 1 .. n : chain[i] = AfterHop(chain[i - 1], amounts, path, to, i)
  <2>1. HopByHop(chain, w, amounts, path, to)
    BY <1>1, ChainFacts DEF chain
  <2> QED BY <2>1 DEF HopByHop
<1> HIDE DEF n
<1>3. 0 \in T
  <2>1. Routed(w, w, amounts, path, to, 0)
    <3>1. 0 # n
      BY <1>1
    <3>2. \A t \in Tokens, u \in Address : w.bal[t][u] \in Int
      BY DEF WorldOk, LedgersOk
    <3> QED BY <3>1, <3>2 DEF Routed, Traded, SameStock, n
  <2> QED BY <1>2, <2>1 DEF T
<1>4. ASSUME NEW k \in Nat, k \in T PROVE k + 1 \in T
  <2> SUFFICES ASSUME k + 1 <= n, NEW z \in chain[k + 1]
               PROVE  Routed(w, z, amounts, path, to, k + 1)
    BY DEF T
  <2>1. k + 1 \in 1 .. n /\ (k + 1) - 1 = k /\ k <= n
    BY <1>1
  <2>2. PICK u \in chain[k] : z \in Hop(u, amounts, path, to, k + 1)
    BY <1>2, <2>1 DEF AfterHop
  <2>3. Routed(w, u, amounts, path, to, (k + 1) - 1)
    BY <1>4, <2>1, <2>2 DEF T
  <2> QED BY <2>1, <2>2, <2>3, HopRouted DEF n
<1>5. n \in T
  BY <1>1, <1>3, <1>4, Induction
<1> QED BY <1>1, <1>2, <1>5 DEF T, n

-----------------------------------------------------------------------------
(* The amounts along a path. *)

(* The amount a hop puts out, from the one it gets; and what it must get   *)
(* for the amount it puts out.                                             *)
OutputFor(w, path, n, i) ==
  LET r == ReservesOf(w, path[i - 1], path[i])
  IN  IF GetAmountOutOk(n, r[1], r[2]) THEN GetAmountOut(n, r[1], r[2]) ELSE 0

InputFor(w, path, n, i) ==
  LET r == ReservesOf(w, path[i], path[i + 1])
  IN  IF GetAmountInOk(n, r[1], r[2]) THEN GetAmountIn(n, r[1], r[2]) ELSE 0

IsOutUpTo(g, w, n, path, k) ==
  g = [i \in 1 .. k |-> IF i = 1 THEN n ELSE OutputFor(w, path, g[i - 1], i)]

IsInFrom(g, w, n, path, len, k) ==
  g = [i \in k .. len |-> IF i = len THEN n ELSE InputFor(w, path, g[i + 1], i)]

\* The recursion over the hops of a path has a solution.
LEMMA AmountsOutExists ==
  ASSUME NEW w, NEW n, NEW path, NEW len \in Nat
  PROVE  \E g : IsOutUpTo(g, w, n, path, len)
<1> DEFINE T == {k \in Nat : \E g : IsOutUpTo(g, w, n, path, k)}
<1>1. 0 \in T
  <2>1. IsOutUpTo([i \in 1 .. 0 |-> n], w, n, path, 0)
    BY DEF IsOutUpTo
  <2> QED BY <2>1
<1>2. ASSUME NEW k \in Nat, k \in T PROVE k + 1 \in T
  <2>1. PICK g : IsOutUpTo(g, w, n, path, k)
    BY <1>2
  <2> DEFINE h == [i \in 1 .. k + 1 |->
                     IF i <= k THEN g[i] ELSE IF i = 1 THEN n ELSE OutputFor(w, path, g[k], i)]
  <2>2. \A i \in 1 .. k + 1 : i # 1 => i - 1 \in 1 .. k /\ h[i - 1] = g[i - 1]
    OBVIOUS
  <2>3. ASSUME NEW i \in 1 .. k + 1
        PROVE  h[i] = IF i = 1 THEN n ELSE OutputFor(w, path, h[i - 1], i)
    <3>1. CASE i <= k
      <4>1. i \in 1 .. k /\ h[i] = g[i]
        BY <3>1
      <4> QED BY <2>1, <2>2, <4>1 DEF IsOutUpTo
    <3>2. CASE ~(i <= k)
      <4>1. i = k + 1 /\ i - 1 = k /\ h[i] = IF i = 1 THEN n ELSE OutputFor(w, path, g[k], i)
        BY <3>2
      <4> QED BY <2>2, <4>1
    <3> QED BY <3>1, <3>2
  <2>4. IsOutUpTo(h, w, n, path, k + 1)
    BY <2>3 DEF IsOutUpTo
  <2> HIDE DEF h
  <2> QED BY <2>4
<1>3. len \in T
  <2> HIDE DEF T
  <2> QED BY <1>1, <1>2, Induction
<1> QED BY <1>3

\* So does the recursion from the last hop to the first.
LEMMA AmountsInExists ==
  ASSUME NEW w, NEW n, NEW path, NEW len \in Nat, len >= 1
  PROVE  \E g : IsInFrom(g, w, n, path, len, 1)
<1> DEFINE T == {k \in Nat : \E g : IsInFrom(g, w, n, path, len, len - k)}
<1>1. 0 \in T
  <2>1. \A i \in len - 0 .. len : i = len
    OBVIOUS
  <2>2. IsInFrom([i \in len - 0 .. len |-> n], w, n, path, len, len - 0)
    BY <2>1 DEF IsInFrom
  <2> QED BY <2>2
<1>2. ASSUME NEW k \in Nat, k \in T PROVE k + 1 \in T
  <2>1. PICK g : IsInFrom(g, w, n, path, len, len - k)
    BY <1>2
  <2> DEFINE first == len - (k + 1)
             h == [i \in first .. len |->
                     IF i = first THEN InputFor(w, path, g[i + 1], i) ELSE g[i]]
  <2>2. \A i \in first .. len : i # len => h[i + 1] = g[i + 1]
    OBVIOUS
  <2>3. ASSUME NEW i \in first .. len
        PROVE  h[i] = IF i = len THEN n ELSE InputFor(w, path, h[i + 1], i)
    <3>1. CASE i = first
      <4>1. i # len /\ h[i] = InputFor(w, path, g[i + 1], i)
        BY <3>1
      <4> QED BY <2>2, <4>1
    <3>2. CASE i # first
      <4>1. i \in len - k .. len /\ h[i] = g[i]
        BY <3>2
      <4>2. g[i] = IF i = len THEN n ELSE InputFor(w, path, g[i + 1], i)
        BY <2>1, <4>1 DEF IsInFrom
      <4> QED BY <2>2, <4>1, <4>2
    <3> QED BY <3>1, <3>2
  <2>4. IsInFrom(h, w, n, path, len, len - (k + 1))
    BY <2>3 DEF IsInFrom
  <2> HIDE DEF h
  <2> QED BY <2>4
<1>3. len - 1 \in T
  <2>1. len - 1 \in Nat
    OBVIOUS
  <2> HIDE DEF T
  <2> QED BY <1>1, <1>2, <2>1, Induction
<1>4. len - (len - 1) = 1
  OBVIOUS
<1> QED BY <1>3, <1>4

\* A hop puts out a natural number, and gets one.
LEMMA HopAmounts ==
  ASSUME NEW w, WorldOk(w), NEW path \in Seq(Tokens), PathOk(w, path),
         NEW i \in 1 .. Len(path) - 1, NEW n \in Nat
  PROVE  OutputFor(w, path, n, i + 1) \in Nat /\ InputFor(w, path, n, i) \in Nat
<1> DEFINE r == ReservesOf(w, path[i], path[i + 1])
<1>1. r[1] \in Int /\ r[2] \in Int /\ i + 1 - 1 = i
  BY PathFacts, ReservesTyped
<1> HIDE DEF r
<1>2. ASSUME GetAmountOutOk(n, r[1], r[2]) PROVE GetAmountOut(n, r[1], r[2]) \in Nat
  <2>1. n \in Nat \ {0} /\ r[1] \in Nat \ {0} /\ r[2] \in Nat \ {0}
    BY <1>1, <1>2 DEF GetAmountOutOk
  <2> QED BY <2>1, OutNumber
<1>3. ASSUME GetAmountInOk(n, r[1], r[2]) PROVE GetAmountIn(n, r[1], r[2]) \in Nat
  <2>1. n \in Nat \ {0} /\ r[1] \in Nat \ {0} /\ r[2] \in Nat /\ n < r[2]
    BY <1>1, <1>3 DEF GetAmountInOk
  <2> QED BY <2>1, InNumber
<1>4. OutputFor(w, path, n, i + 1)
        = IF GetAmountOutOk(n, r[1], r[2]) THEN GetAmountOut(n, r[1], r[2]) ELSE 0
  BY <1>1 DEF OutputFor, r
<1>5. InputFor(w, path, n, i)
        = IF GetAmountInOk(n, r[1], r[2]) THEN GetAmountIn(n, r[1], r[2]) ELSE 0
  BY DEF InputFor, r
<1> QED BY <1>2, <1>3, <1>4, <1>5

\* Where the amounts for an input are positive, they are natural numbers, each
\* from the one before.
LEMMA AmountsOutFacts ==
  ASSUME NEW w, WorldOk(w), NEW path \in Seq(Tokens), PathOk(w, path), NEW n \in Int,
         AllPositive(AmountsOut(w, n, path))
  PROVE  /\ n \in Nat \ {0}
         /\ IsOutUpTo(AmountsOut(w, n, path), w, n, path, Len(path))
         /\ IsAmounts(AmountsOut(w, n, path), path)
<1> DEFINE len == Len(path)
           amounts == AmountsOut(w, n, path)
<1>1. len \in Nat /\ len >= 2
  BY DEF PathOk
<1>2. IsOutUpTo(amounts, w, n, path, len)
  <2> DEFINE f[i \in 1 .. len] == IF i = 1 THEN n ELSE OutputFor(w, path, f[i - 1], i)
  <2>1. amounts = f
    BY DEF AmountsOut, OutputFor
  <2> HIDE DEF amounts, len
  <2>2. \E g : IsOutUpTo(g, w, n, path, len)
    BY <1>1, AmountsOutExists
  <2>3. IsOutUpTo(f, w, n, path, len)
    BY <2>2 DEF IsOutUpTo
  <2> QED BY <2>1, <2>3
<1>0. n \in Nat \ {0}
  <2>1. 1 \in 1 .. len
    BY <1>1
  <2>2. amounts[1] = n
    BY <1>2, <2>1 DEF IsOutUpTo
  <2>3. amounts = [i \in 1 .. len |-> amounts[i]]
    BY <1>2 DEF IsOutUpTo
  <2>4. amounts[1] > 0
    BY <2>1, <2>3 DEF AllPositive
  <2> QED BY <2>2, <2>4
<1> HIDE DEF amounts
<1> DEFINE T == {k \in Nat : k + 1 <= len => amounts[k + 1] \in Nat}
<1>3. 0 \in T
  BY <1>0, <1>1, <1>2 DEF IsOutUpTo
<1>4. ASSUME NEW k \in Nat, k \in T PROVE k + 1 \in T
  <2> SUFFICES ASSUME (k + 1) + 1 <= len PROVE amounts[(k + 1) + 1] \in Nat
    OBVIOUS
  <2>1. k + 1 \in 1 .. len - 1 /\ (k + 1) + 1 \in 1 .. len /\ (k + 1) + 1 # 1
    BY <1>1
  <2>2. amounts[(k + 1) + 1] = OutputFor(w, path, amounts[(k + 1) + 1 - 1], (k + 1) + 1)
    BY <1>2, <2>1 DEF IsOutUpTo
  <2>3. amounts[k + 1] \in Nat /\ (k + 1) + 1 - 1 = k + 1
    BY <1>1, <1>4, <2>1
  <2> QED BY <2>1, <2>2, <2>3, HopAmounts
<1>5. \A k \in Nat : k \in T
  <2> HIDE DEF T
  <2> QED BY <1>3, <1>4, Induction
<1>6. ASSUME NEW i \in 1 .. len PROVE amounts[i] \in Nat
  <2>1. i - 1 \in Nat /\ (i - 1) + 1 = i /\ i <= len
    BY <1>1
  <2>2. i - 1 \in T
    BY <1>5, <2>1
  <2> QED BY <2>1, <2>2
<1>7. amounts = [i \in 1 .. len |-> amounts[i]]
  BY <1>2 DEF IsOutUpTo
<1> QED BY <1>0, <1>2, <1>6, <1>7 DEF amounts, IsAmounts

\* Where the amounts for an output are positive, they are natural numbers, each
\* from the one after.
LEMMA AmountsInFacts ==
  ASSUME NEW w, WorldOk(w), NEW path \in Seq(Tokens), PathOk(w, path), NEW n \in Int,
         AllPositive(AmountsIn(w, n, path))
  PROVE  /\ n \in Nat \ {0}
         /\ IsInFrom(AmountsIn(w, n, path), w, n, path, Len(path), 1)
         /\ IsAmounts(AmountsIn(w, n, path), path)
<1> DEFINE len == Len(path)
           amounts == AmountsIn(w, n, path)
<1>1. len \in Nat /\ len >= 2
  BY DEF PathOk
<1>2. IsInFrom(amounts, w, n, path, len, 1)
  <2> DEFINE f[i \in 1 .. len] == IF i = len THEN n ELSE InputFor(w, path, f[i + 1], i)
  <2>1. amounts = f
    BY DEF AmountsIn, InputFor
  <2> HIDE DEF amounts, len
  <2>2. \E g : IsInFrom(g, w, n, path, len, 1)
    <3>1. len >= 1
      BY <1>1
    <3> QED BY <1>1, <3>1, AmountsInExists
  <2>3. IsInFrom(f, w, n, path, len, 1)
    BY <2>2 DEF IsInFrom
  <2> QED BY <2>1, <2>3
<1>0. n \in Nat \ {0}
  <2>1. len \in 1 .. len
    BY <1>1
  <2>2. amounts[len] = n
    BY <1>2, <2>1 DEF IsInFrom
  <2>3. amounts = [i \in 1 .. len |-> amounts[i]]
    BY <1>2 DEF IsInFrom
  <2>4. amounts[len] > 0
    BY <2>1, <2>3 DEF AllPositive
  <2> QED BY <2>2, <2>4
<1> HIDE DEF amounts
<1> DEFINE T == {k \in Nat : len - k >= 1 => amounts[len - k] \in Nat}
<1>3. 0 \in T
  <2>1. len - 0 = len /\ len \in 1 .. len
    BY <1>1
  <2>2. amounts[len] = n
    BY <1>2, <2>1 DEF IsInFrom
  <2> QED BY <1>0, <2>1, <2>2
<1>4. ASSUME NEW k \in Nat, k \in T PROVE k + 1 \in T
  <2> DEFINE i == len - (k + 1)
  <2> SUFFICES ASSUME i >= 1 PROVE amounts[i] \in Nat
    OBVIOUS
  <2>1. i \in 1 .. len - 1 /\ i \in 1 .. len /\ i # len /\ i + 1 = len - k
    BY <1>1
  <2>2. amounts[i] = InputFor(w, path, amounts[i + 1], i)
    BY <1>2, <2>1 DEF IsInFrom
  <2>3. amounts[i + 1] \in Nat
    <3>1. len - k >= 1 /\ len - k = i + 1
      BY <1>1
    <3>2. amounts[len - k] \in Nat
      BY <1>4, <3>1
    <3> HIDE DEF i
    <3> QED BY <3>1, <3>2
  <2> QED BY <2>1, <2>2, <2>3, HopAmounts
<1>5. \A k \in Nat : k \in T
  <2> HIDE DEF T
  <2> QED BY <1>3, <1>4, Induction
<1>6. ASSUME NEW i \in 1 .. len PROVE amounts[i] \in Nat
  <2>1. len - i \in Nat /\ len - (len - i) = i /\ i >= 1
    BY <1>1
  <2>2. len - i \in T
    BY <1>5, <2>1
  <2> QED BY <2>1, <2>2
<1>7. amounts = [i \in 1 .. len |-> amounts[i]]
  BY <1>2 DEF IsInFrom
<1> QED BY <1>0, <1>2, <1>6, <1>7 DEF amounts, IsAmounts


-----------------------------------------------------------------------------
(* Whole swaps. *)

\* A user who pays anybody leaves every pair as sound as before, unless it is
\* the pair that is paid, and a negative amount.
LEMMA UserPayStep ==
  ASSUME NEW w, WorldOk(w), NEW t \in Tokens, NEW from \in Users, NEW to \in Address,
         NEW n \in Int, NEW v \in Pay(w, t, from, to, n)
  PROVE  /\ WorldOk(v) /\ KeepsPromises(w, v) /\ v.pool = w.pool
         /\ Paid(w, v, t, from, to, n)
         /\ n >= 0 => Traded(w, v)
<1>1. from \in Address /\ PairAddresses \subseteq Address \ {from}
  BY AddressAssumption DEF Address
<1>2. Paid(w, v, t, from, to, n)
  BY <1>1, PayStep DEF WorldOk
<1>3. /\ IsWorld(v) /\ LedgersOk(v) /\ LedgersOk(w) /\ v.pool = w.pool
      /\ v.registry = w.registry /\ v.pairList = w.pairList
      /\ Remembers(w, v) /\ NoLoss(w, v, Address \ {from})
  BY <1>2 DEF Paid, WorldOk
<1>4. PoolsOk(v) /\ RegistryOk(v)
  BY <1>3 DEF WorldOk, PoolsOk, RegistryOk
<1>5. ASSUME NEW r \in DOMAIN v.pool, v.negatives[r] = 0 PROVE Solvent(v, r)
  <2>1. r \in DOMAIN w.pool /\ r \in PairAddresses /\ r \in Address \ {from}
    BY <1>1, <1>3, PairFacts
  <2>2. w.negatives[r] = 0 /\ v.negatives[r] = w.negatives[r]
    BY <1>3, <1>5, <2>1, NothingNoted
  <2>3. Solvent(w, r) /\ \A s \in Tokens : v.bal[s][r] >= w.bal[s][r]
    BY <1>3, <2>1, <2>2 DEF WorldOk, NoLoss
  <2> QED BY <1>3, <2>1, <2>3, SolventKept
<1>6. WorldOk(v)
  BY <1>3, <1>4, <1>5 DEF WorldOk
<1>7. KeepsPromises(w, v)
  BY <1>3 DEF KeepsPromises, Keeps, SameStock, Held
<1>8. n >= 0 => Traded(w, v)
  BY <1>2, <1>3 DEF Paid, Noted, Traded, SameStock
<1> QED BY <1>2, <1>3, <1>6, <1>7, <1>8

(* Between w and v, in of First has been paid by the caller and out of     *)
(* Last to the recipient, as far as users and the router see.              *)
Exchanged(w, v, caller, to, path, in, out) ==
  \A t \in Tokens, u \in Users \cup {Router} :
    v.bal[t][u] = w.bal[t][u]
                    - (IF u = caller /\ t = path[1] THEN in ELSE 0)
                    + (IF u = to /\ t = path[Len(path)] THEN out ELSE 0)

(* A swap: the caller pays the first pair, then the hops are run.          *)
Swap(w, caller, in, amounts, path, to) ==
  After(Pay(w, path[1], caller, PairFor(w, path, 1), in),
        LAMBDA v : RunSwapChain(v, amounts, path, to))

\* A swap exchanges the input for the last amount.
LEMMA SwapStep ==
  ASSUME NEW w, WorldOk(w), NEW path \in Seq(Tokens), PathOk(w, path),
         NEW amounts, IsAmounts(amounts, path), NEW caller \in Users, NEW to \in Address,
         NEW in \in Nat, NEW v \in Swap(w, caller, in, amounts, path, to)
  PROVE  /\ WorldOk(v) /\ Traded(w, v)
         /\ Exchanged(w, v, caller, to, path, in, amounts[Len(path)])
<1>1. /\ 1 \in 1 .. Len(path) - 1 /\ Len(path) \in Nat /\ path[1] \in Tokens
      /\ amounts[Len(path)] \in Nat
  BY DEF PathOk, IsAmounts
<1>2. PairFor(w, path, 1) \in PairAddresses
  BY <1>1, PathFacts DEF WorldOk, PoolsOk
<1>3. PICK u \in Pay(w, path[1], caller, PairFor(w, path, 1), in) :
        v \in RunSwapChain(u, amounts, path, to)
  BY DEF Swap, After
<1>4. /\ WorldOk(u) /\ Traded(w, u) /\ PathOk(u, path)
      /\ Paid(w, u, path[1], caller, PairFor(w, path, 1), in)
  <2>1. PairFor(w, path, 1) \in Address /\ in \in Int /\ in >= 0
    BY <1>2 DEF Address
  <2>2. /\ WorldOk(u) /\ Traded(w, u)
        /\ Paid(w, u, path[1], caller, PairFor(w, path, 1), in)
    BY <1>1, <1>3, <2>1, UserPayStep
  <2> QED BY <2>2, TradedPath
<1>5. Routed(u, v, amounts, path, to, Len(path) - 1)
  BY <1>3, <1>4, ChainRouted
<1>6. WorldOk(v) /\ Traded(w, v)
  BY <1>4, <1>5, TradedCompose DEF Routed
<1>7. Exchanged(w, v, caller, to, path, in, amounts[Len(path)])
  <2> SUFFICES ASSUME NEW t \in Tokens, NEW a \in Users \cup {Router}
               PROVE  v.bal[t][a] = w.bal[t][a]
                        - (IF a = caller /\ t = path[1] THEN in ELSE 0)
                        + (IF a = to /\ t = path[Len(path)] THEN amounts[Len(path)] ELSE 0)
    BY DEF Exchanged
  <2>1. a \in Address \ PairAddresses /\ a \in Address /\ a # PairFor(w, path, 1)
    BY <1>2, AddressAssumption DEF Address
  <2>2. v.bal[t][a] = u.bal[t][a]
                        + (IF a = to /\ t = path[Len(path)] THEN amounts[Len(path)] ELSE 0)
    BY <1>5, <2>1 DEF Routed
  <2>3. w.bal[t][a] \in Int /\ u.bal[t][a] \in Int
    BY <1>4, <2>1 DEF WorldOk, LedgersOk
  <2>4. u.bal[t][a] = w.bal[t][a] - (IF a = caller /\ t = path[1] THEN in ELSE 0)
    <3>1. CASE t = path[1]
      <4>1. u.bal[t][a] = w.bal[t][a] - (IF a = caller THEN in ELSE 0)
                            + (IF a = PairFor(w, path, 1) THEN in ELSE 0)
        BY <1>4, <2>1, <3>1 DEF Paid
      <4> QED BY <2>1, <2>3, <3>1, <4>1
    <3>2. CASE t # path[1]
      <4>1. u.bal[t][a] = w.bal[t][a]
        BY <1>4, <3>2 DEF Paid
      <4> QED BY <2>3, <3>2, <4>1
    <3> QED BY <3>1, <3>2
  <2> QED BY <1>1, <2>2, <2>3, <2>4
<1> QED BY <1>6, <1>7

\* The exact-input swap.
LEMMA SwapExactInStep ==
  ASSUME NEW w, WorldOk(w), NEW caller \in Users, NEW n \in Int, NEW limit,
         NEW path \in Seq(Tokens), NEW to \in Address,
         NEW v \in SwapExactIn(w, caller, n, limit, path, to)
  PROVE  /\ WorldOk(v) /\ Traded(w, v)
         /\ AmountsOut(w, n, path)[Len(path)] >= limit
         /\ Exchanged(w, v, caller, to, path, n, AmountsOut(w, n, path)[Len(path)])
<1> DEFINE amounts == AmountsOut(w, n, path)
<1>1. /\ PathOk(w, path) /\ AllPositive(amounts) /\ amounts[Len(path)] >= limit
      /\ v \in Swap(w, caller, n, amounts, path, to)
  BY DEF SwapExactIn, Swap
<1>2. IsAmounts(amounts, path) /\ n \in Nat
  BY <1>1, AmountsOutFacts
<1> HIDE DEF amounts
<1>3. /\ WorldOk(v) /\ Traded(w, v)
      /\ Exchanged(w, v, caller, to, path, n, amounts[Len(path)])
  BY <1>1, <1>2, SwapStep
<1> QED BY <1>1, <1>3 DEF amounts

\* The exact-output swap.
LEMMA SwapExactOutStep ==
  ASSUME NEW w, WorldOk(w), NEW caller \in Users, NEW n \in Int, NEW limit,
         NEW path \in Seq(Tokens), NEW to \in Address,
         NEW v \in SwapExactOut(w, caller, n, limit, path, to)
  PROVE  /\ WorldOk(v) /\ Traded(w, v)
         /\ AmountsIn(w, n, path)[1] <= limit
         /\ Exchanged(w, v, caller, to, path, AmountsIn(w, n, path)[1], n)
<1> DEFINE amounts == AmountsIn(w, n, path)
<1>1. /\ PathOk(w, path) /\ AllPositive(amounts) /\ amounts[1] <= limit
      /\ v \in Swap(w, caller, amounts[1], amounts, path, to)
  BY DEF SwapExactOut, Swap
<1>2. IsAmounts(amounts, path) /\ IsInFrom(amounts, w, n, path, Len(path), 1)
  BY <1>1, AmountsInFacts
<1> HIDE DEF amounts
<1>3. amounts[1] \in Nat /\ amounts[Len(path)] = n
  BY <1>1, <1>2 DEF PathOk, IsAmounts, IsInFrom
<1>4. /\ WorldOk(v) /\ Traded(w, v)
      /\ Exchanged(w, v, caller, to, path, amounts[1], amounts[Len(path)])
  BY <1>1, <1>2, <1>3, SwapStep
<1> QED BY <1>1, <1>3, <1>4 DEF amounts

-----------------------------------------------------------------------------
(* The specification. *)

Inv == WorldOk(World) /\ now \in 0 .. MaxNow

\* A transaction leaves the world it ends with.
LEMMA BecomeIsWorld ==
  ASSUME NEW w, IsWorld(w), Become(w)
  PROVE  World' = w
<1>1. World' = [bal |-> bal', pool |-> pool', registry |-> registry', pairList |-> pairList',
                  negatives |-> negatives']
  BY DEF World
<1> QED BY <1>1 DEF IsWorld, Become

\* Before any pair is created, the users own the tokens.
LEMMA InitInv ==
  ASSUME Init
  PROVE  Inv
<1> DEFINE w == World
           b == [a \in Address |-> IF a \in Users THEN Endow[a] ELSE 0]
<1>1. /\ w = [bal |-> [t \in Tokens |-> b], pool |-> << >>, registry |-> << >>,
              pairList |-> << >>, negatives |-> [a \in Address |-> 0]]
      /\ now = 0
  BY DEF Init, World
<1>2. b \in [Address -> Nat] /\ IsLedger(b) /\ Total(b) = Total(Endow)
  <2>1. Endow \in [Users -> Nat] /\ IsFiniteSet(Units(Endow)) /\ Users \subseteq Address
    BY TokenAssumption DEF Address
  <2>2. b \in [Address -> Nat]
    BY <2>1
  <2>3. Units(b) = Units(Endow)
    <3>1. \A a \in Address \ Users : 1 .. b[a] = {}
      OBVIOUS
    <3>2. \A a \in Users : b[a] = Endow[a]
      BY <2>1
    <3> HIDE DEF b
    <3> QED BY <2>1, <2>2, <3>1, <3>2 DEF Units
  <2>4. Owed(b) = {} /\ Owed(Endow) = {}
    <3>1. \A a \in Address : 1 .. -b[a] = {}
      BY <2>2
    <3>2. \A a \in Users : 1 .. -Endow[a] = {}
      BY <2>1
    <3>3. DOMAIN b = Address /\ DOMAIN Endow = Users
      BY <2>1
    <3> HIDE DEF b
    <3> QED BY <3>1, <3>2, <3>3 DEF Owed
  <2>5. IsFiniteSet(Owed(b))
    BY <2>4, FS_EmptySet
  <2> HIDE DEF b
  <2> QED BY <2>1, <2>2, <2>3, <2>4, <2>5 DEF IsLedger, Total
<1> HIDE DEF b, w
<1>3. /\ IsWorld(w) /\ w.bal = [t \in Tokens |-> b] /\ w.pool = << >>
      /\ w.registry = << >> /\ w.pairList = << >> /\ w.negatives = [a \in Address |-> 0]
  BY <1>1 DEF IsWorld
<1>4. LedgersOk(w)
  BY <1>2, <1>3 DEF LedgersOk
<1>5. DOMAIN w.pool = {} /\ DOMAIN w.registry = {}
  BY <1>3
<1>6. PoolsOk(w) /\ \A p \in DOMAIN w.pool : w.negatives[p] = 0 => Solvent(w, p)
  BY <1>3, <1>5 DEF PoolsOk
<1>7. RegistryOk(w)
  <2>1. Len(w.pairList) = 0 /\ w.pairList \in Seq(PairAddresses) /\ Len(PairSlots) >= 0
    BY <1>3, AddressAssumption
  <2>2. {w.pairList[i] : i \in 1 .. Len(w.pairList)} = {}
    BY <2>1
  <2>3. IsFiniteSet(DOMAIN w.registry) /\ Cardinality(DOMAIN w.registry) = 0
    BY <1>5, FS_EmptySet
  <2> QED BY <1>3, <1>5, <2>1, <2>2, <2>3 DEF RegistryOk
<1>8. 0 \in 0 .. MaxNow
  BY InputAssumption
<1> QED BY <1>1, <1>3, <1>4, <1>6, <1>7, <1>8 DEF Inv, WorldOk, w

\* Every transaction keeps the invariant, and every pair its promises.
LEMMA NextInv ==
  ASSUME Inv, [Next]_vars
  PROVE  Inv' /\ KeepsPromises(World, World')
<1>0. WorldOk(World) /\ now \in 0 .. MaxNow
  BY DEF Inv
<1>1. ASSUME NEW w, WorldOk(w), KeepsPromises(World, w), Become(w), UNCHANGED now
      PROVE  Inv' /\ KeepsPromises(World, World')
  <2>1. World' = w
    BY <1>1, BecomeIsWorld DEF WorldOk
  <2> QED BY <1>0, <1>1, <2>1 DEF Inv
<1>2. ASSUME NEW a \in Tokens, NEW b \in Tokens, CreatePair(a, b)
      PROVE  Inv' /\ KeepsPromises(World, World')
  <2>1. PICK w \in Created(World, a, b) : Become(w) /\ UNCHANGED now
    BY <1>2 DEF CreatePair
  <2>2. /\ WorldOk(w) /\ w.negatives = World.negatives
        /\ \A p \in PairAddresses : SameStock(Held(World, p), Held(w, p))
    BY <1>0, <2>1, CreatedStep DEF SameStock, Held
  <2>3. Remembers(World, w)
    BY <1>0, <2>2, SameHistory DEF WorldOk
  <2>4. KeepsPromises(World, w)
    BY <2>2, <2>3 DEF KeepsPromises, Keeps
  <2> QED BY <1>1, <2>1, <2>2, <2>4
<1>3. ASSUME NEW caller \in Users, NEW to \in Recipients, NEW a \in Tokens, NEW b \in Tokens,
             NEW aMin \in Mins, NEW bMin \in Mins, NEW deadline \in Deadlines,
             NEW m \in Deposits, NEW n \in Deposits,
             AddLiquidity(caller, a, b, m, n, aMin, bMin, to, deadline)
      PROVE  Inv' /\ KeepsPromises(World, World')
  <2>1. PICK w \in RouterAdd(World, caller, a, b, m, n, aMin, bMin, to) :
          Become(w) /\ UNCHANGED now
    BY <1>3 DEF AddLiquidity
  <2>2. m \in Int /\ n \in Int /\ aMin \in Int /\ bMin \in Int /\ to \in Address
    BY InputAssumption
  <2>3. WorldOk(w) /\ KeepsPromises(World, w)
    BY <1>0, <2>1, <2>2, RouterAddStep
  <2> QED BY <1>1, <2>1, <2>3
<1>4. ASSUME NEW caller \in Users, NEW to \in Recipients, NEW a \in Tokens, NEW b \in Tokens,
             NEW aMin \in Mins, NEW bMin \in Mins, NEW deadline \in Deadlines, NEW n \in Amounts,
             RemoveLiquidity(caller, a, b, n, aMin, bMin, to, deadline)
      PROVE  Inv' /\ KeepsPromises(World, World')
  <2>1. PICK w \in RouterRemove(World, caller, a, b, n, aMin, bMin, to) :
          Become(w) /\ UNCHANGED now
    BY <1>4 DEF RemoveLiquidity
  <2>2. n \in Int /\ to \in Address
    BY InputAssumption
  <2>3. WorldOk(w) /\ KeepsPromises(World, w)
    BY <1>0, <2>1, <2>2, RouterRemoveStep
  <2> QED BY <1>1, <2>1, <2>3
<1>5. ASSUME NEW caller \in Users, NEW to \in Recipients, NEW n \in Amounts, NEW limit \in Mins,
             NEW path \in Paths, NEW deadline \in Deadlines,
             SwapExactTokensForTokens(caller, n, limit, path, to, deadline)
      PROVE  Inv' /\ KeepsPromises(World, World')
  <2>1. PICK w \in SwapExactIn(World, caller, n, limit, path, to) : Become(w) /\ UNCHANGED now
    BY <1>5 DEF SwapExactTokensForTokens
  <2>2. n \in Int /\ to \in Address /\ path \in Seq(Tokens)
    BY InputAssumption
  <2>3. WorldOk(w) /\ KeepsPromises(World, w)
    BY <1>0, <2>1, <2>2, SwapExactInStep, TradedKeeps DEF WorldOk
  <2> QED BY <1>1, <2>1, <2>3
<1>6. ASSUME NEW caller \in Users, NEW to \in Recipients, NEW n \in Amounts, NEW limit \in Mins,
             NEW path \in Paths, NEW deadline \in Deadlines,
             SwapTokensForExactTokens(caller, n, limit, path, to, deadline)
      PROVE  Inv' /\ KeepsPromises(World, World')
  <2>1. PICK w \in SwapExactOut(World, caller, n, limit, path, to) : Become(w) /\ UNCHANGED now
    BY <1>6 DEF SwapTokensForExactTokens
  <2>2. n \in Int /\ to \in Address /\ path \in Seq(Tokens)
    BY InputAssumption
  <2>3. WorldOk(w) /\ KeepsPromises(World, w)
    BY <1>0, <2>1, <2>2, SwapExactOutStep, TradedKeeps DEF WorldOk
  <2> QED BY <1>1, <2>1, <2>3
<1>7. ASSUME NEW t \in Tokens, NEW a \in Transfers, Transfer(t, a[1], a[2], a[3])
      PROVE  Inv' /\ KeepsPromises(World, World')
  <2>1. PICK w \in Pay(World, t, a[1], a[2], a[3]) : Become(w) /\ UNCHANGED now
    BY <1>7 DEF Transfer
  <2>2. a[1] \in Users /\ a[2] \in Address /\ a[3] \in Int
    BY InputAssumption
  <2>3. WorldOk(w) /\ KeepsPromises(World, w)
    BY <1>0, <2>1, <2>2, UserPayStep
  <2> QED BY <1>1, <2>1, <2>3
<1>8. ASSUME NEW p \in DOMAIN pool, Sync(p)
      PROVE  Inv' /\ KeepsPromises(World, World')
  <2>1. p \in DOMAIN World.pool /\ Become(SetReserves(World, p)) /\ UNCHANGED now
    BY <1>8 DEF Sync, World
  <2>2. /\ WorldOk(SetReserves(World, p)) /\ OnlyPool(World, SetReserves(World, p), p)
        /\ SetReserves(World, p).negatives = World.negatives
        /\ SetReserves(World, p).negatives[p] = 0
             => Grows(World.pool[p], SetReserves(World, p).pool[p])
    BY <1>0, <2>1, SyncStep
  <2>4. Remembers(World, SetReserves(World, p))
    BY <1>0, <2>2, SameHistory DEF WorldOk
  <2>3. KeepsPromises(World, SetReserves(World, p))
    BY <2>1, <2>2, <2>4, OnePairKeeps DEF VaultStep
  <2> QED BY <1>1, <2>1, <2>2, <2>3
<1>9. ASSUME World' = World, now' \in 0 .. MaxNow
      PROVE  Inv' /\ KeepsPromises(World, World')
  <2>1. Remembers(World, World')
    BY <1>0, <1>9, SameHistory DEF WorldOk
  <2> QED BY <1>0, <1>9, <2>1 DEF Inv, KeepsPromises, Keeps, SameStock
<1>10. CASE CloseLedger
  <2>1. World' = World /\ now' \in 0 .. MaxNow
    BY <1>0, <1>10, InputAssumption DEF CloseLedger, World
  <2> QED BY <1>9, <2>1
<1>11. CASE UNCHANGED vars
  <2>1. World' = World /\ now' \in 0 .. MaxNow
    BY <1>0, <1>11 DEF vars, World
  <2> QED BY <1>9, <2>1
<1> QED BY <1>2, <1>3, <1>4, <1>5, <1>6, <1>7, <1>8, <1>10, <1>11 DEF Next

\* The invariant holds.
THEOREM InvHolds == Spec => []Inv
<1>1. Init => Inv
  BY InitInv
<1>2. Inv /\ [Next]_vars => Inv'
  BY NextInv
<1> QED BY <1>1, <1>2, PTL DEF Spec

\* Balances, pools, the registry and the clock keep their types; an address
\* that was never paid a negative amount is not in debt, and such a pair records
\* no negative reserve.
THEOREM TypeCorrect == Spec => []TypeOK
<1>1. Inv => TypeOK
  <2> SUFFICES ASSUME Inv PROVE TypeOK
    OBVIOUS
  <2>1. /\ LedgersOk(World) /\ PoolsOk(World) /\ RegistryOk(World) /\ now \in 0 .. MaxNow
        /\ \A p \in DOMAIN World.pool : World.negatives[p] = 0 => Solvent(World, p)
    BY DEF Inv, WorldOk
  <2>2. bal \in [Tokens -> [Address -> Int]] /\ negatives \in [Address -> Nat]
    BY <2>1 DEF LedgersOk, World
  <2>3. ASSUME NEW p \in DOMAIN pool
        PROVE  pool[p] \in [tokenX : Tokens, tokenY : Tokens, reserveX : Int, reserveY : Int,
                            supply : Nat, lp : [Address -> Nat]]
    <3>1. IsPool(pool[p])
      BY <2>1, <2>3 DEF PoolsOk, World
    <3> QED BY <3>1 DEF IsPool
  <2>4. \A k \in DOMAIN registry : registry[k] \in DOMAIN pool
    BY <2>1 DEF RegistryOk, World
  <2>5. pairList \in Seq(DOMAIN pool)
    BY <2>1 DEF RegistryOk, World
  <2>6. \A a \in Address : Clean(a) => \A t \in Tokens : bal[t][a] >= 0
    BY <2>1 DEF LedgersOk, World, Clean
  <2>7. \A p \in DOMAIN pool : Clean(p) => pool[p].reserveX >= 0 /\ pool[p].reserveY >= 0
    BY <2>1 DEF Solvent, World, Clean
  <2> QED BY <2>1, <2>2, <2>3, <2>4, <2>5, <2>6, <2>7 DEF TypeOK
<1> QED BY <1>1, InvHolds, PTL

\* Whatever is routed through them, the pairs that were never paid a negative
\* amount have what they record and have minted no more than the root of the
\* product of their reserves; LP units are accounted for and no token is made,
\* whatever was paid to whom.
THEOREM PoolsAreSound == Spec => []PoolsSound
<1>1. Inv => PoolsSound
  <2> SUFFICES ASSUME Inv PROVE PoolsSound
    OBVIOUS
  <2>1. /\ LedgersOk(World) /\ PoolsOk(World)
        /\ \A p \in DOMAIN World.pool : World.negatives[p] = 0 => Solvent(World, p)
    BY DEF Inv, WorldOk
  <2>2. \A p \in DOMAIN pool :
          pool[p].supply = Total(pool[p].lp) + (IF pool[p].supply = 0 THEN 0 ELSE MinLiquidity)
    BY <2>1 DEF PoolsOk, IsPool, World
  <2>3. \A p \in DOMAIN pool :
          Clean(p) => /\ Backed(p)
                      /\ pool[p].supply * pool[p].supply <= pool[p].reserveX * pool[p].reserveY
    BY <2>1 DEF Solvent, Backed, Clean, World
  <2>4. \A t \in Tokens : Total(bal[t]) = Total(Endow)
    BY <2>1 DEF LedgersOk, World
  <2> QED BY <2>2, <2>3, <2>4 DEF PoolsSound
<1> QED BY <1>1, InvHolds, PTL

\* Every transaction is, for every pair, a step of a vault, which a payment of a
\* negative amount to the pair itself damages and nothing else does.
THEOREM EveryPairIsAVault == Spec => PairsAreVaults
<1>1. Inv /\ [Next]_vars => \A p \in PairAddresses : V(p)!Next \/ UNCHANGED V(p)!vault
  <2> SUFFICES ASSUME Inv, [Next]_vars, NEW p \in PairAddresses
               PROVE  V(p)!Next \/ UNCHANGED V(p)!vault
    OBVIOUS
  <2> DEFINE q == Held(World, p)
             r == Held(World', p)
  <2>1. CASE negatives'[p] # 0
    BY <2>1 DEF V!Next, V!Damage, Clean
  <2>2. CASE negatives'[p] = 0
    <3>1. WorldOk(World) /\ WorldOk(World') /\ KeepsPromises(World, World')
      <4>1. Inv' /\ KeepsPromises(World, World')
        BY NextInv
      <4> QED BY <4>1 DEF Inv
    <3>2. World'.negatives = negatives' /\ World.negatives = negatives
      BY DEF World
    <3>3. negatives[p] = 0
      <4>1. LedgersOk(World) /\ LedgersOk(World') /\ p \in Address
        BY <3>1 DEF WorldOk, Address
      <4>2. World.negatives[p] \in Nat /\ World.negatives[p] <= World'.negatives[p]
        BY <3>1, <4>1 DEF KeepsPromises, Remembers, LedgersOk
      <4> QED BY <2>2, <3>2, <4>2
    <3>4. SameStock(q, r) \/ VaultStep(q, r)
      BY <2>2, <3>1, <3>2 DEF KeepsPromises, Keeps
    <3>5. /\ Stored(p, "reserveX") = q.reserveX /\ Stored(p, "reserveX")' = r.reserveX
          /\ Stored(p, "reserveY") = q.reserveY /\ Stored(p, "reserveY")' = r.reserveY
          /\ Stored(p, "supply") = q.supply /\ Stored(p, "supply")' = r.supply
      <4>1. q = IF p \in DOMAIN pool THEN pool[p]
                ELSE [reserveX |-> 0, reserveY |-> 0, supply |-> 0]
        BY DEF Held, World
      <4>2. r = IF p \in DOMAIN pool' THEN pool'[p]
                ELSE [reserveX |-> 0, reserveY |-> 0, supply |-> 0]
        BY DEF Held, World
      <4> HIDE DEF q, r
      <4> QED BY <4>1, <4>2 DEF Stored
    <3>6. Clean(p) /\ Clean(p)'
      BY <2>2, <3>3 DEF Clean
    <3> HIDE DEF q, r
    <3>7. CASE SameStock(q, r)
      BY <3>5, <3>6, <3>7 DEF SameStock, V!vault
    <3>8. CASE Opens(q, r)
      BY <3>5, <3>6, <3>8 DEF Opens, V!Next, V!Open
    <3>9. CASE Joins(q, r)
      BY <3>5, <3>6, <3>9 DEF Joins, KeepsEachSide, V!Next, V!Join, V!KeepsEachSide
    <3>10. CASE Leaves(q, r)
      BY <3>5, <3>6, <3>10 DEF Leaves, KeepsEachSide, V!Next, V!Leave, V!KeepsEachSide
    <3>11. CASE Grows(q, r)
      BY <3>5, <3>6, <3>11 DEF Grows, V!Next, V!Gift
    <3>12. CASE Trades(q, r)
      BY <3>5, <3>6, <3>12 DEF Trades, V!Next, V!Trade
    <3> QED BY <3>4, <3>7, <3>8, <3>9, <3>10, <3>11, <3>12 DEF VaultStep
  <2> QED BY <2>1, <2>2
<1> QED BY <1>1, InvHolds, PTL DEF Spec, PairsAreVaults

\* The registry, the list and the pairs themselves agree.
THEOREM RegistryIsSound == Spec => []RegistrySound
<1>1. Inv => RegistrySound
  <2> SUFFICES ASSUME Inv PROVE RegistrySound
    OBVIOUS
  <2>1. WorldOk(World) /\ RegistryOk(World)
    BY DEF Inv, WorldOk
  <2>2. ASSUME NEW a \in Tokens, NEW b \in Tokens, PairExists(World, a, b)
        PROVE  /\ PairExists(World, b, a) /\ GetPair(World, a, b) = GetPair(World, b, a)
               /\ {pool[GetPair(World, a, b)].tokenX, pool[GetPair(World, a, b)].tokenY} = {a, b}
    <3>1. World.pool = pool
      BY DEF World
    <3> QED BY <2>1, <2>2, <3>1, PairOfTokens
  <2>3. ASSUME NEW p \in DOMAIN pool, NEW q \in DOMAIN pool,
               {pool[p].tokenX, pool[p].tokenY} = {pool[q].tokenX, pool[q].tokenY}
        PROVE  p = q
    <3>1. /\ p \in DOMAIN World.pool /\ q \in DOMAIN World.pool
          /\ World.pool = pool /\ World.registry = registry
      BY DEF World
    <3>2. /\ registry[TokensOf(pool[p])] = p /\ registry[TokensOf(pool[q])] = q
      BY <2>1, <3>1 DEF RegistryOk
    <3>3. /\ pool[p].tokenX < pool[p].tokenY /\ pool[q].tokenX < pool[q].tokenY
          /\ pool[p].tokenX \in Nat /\ pool[p].tokenY \in Nat
          /\ pool[q].tokenX \in Nat /\ pool[q].tokenY \in Nat
      BY <2>1, <3>1, TokenAssumption DEF WorldOk, PoolsOk, IsPool
    <3>4. pool[p].tokenX = pool[q].tokenX /\ pool[p].tokenY = pool[q].tokenY
      BY <2>3, <3>3
    <3> QED BY <3>2, <3>4 DEF TokensOf
  <2>4. ASSUME NEW p \in DOMAIN pool
        PROVE  Cardinality({i \in DOMAIN pairList : pairList[i] = p}) = 1
    <3>1. /\ pairList \in Seq(PairAddresses) /\ Len(pairList) <= Len(PairSlots)
          /\ \A i \in 1 .. Len(pairList) : pairList[i] = PairSlots[i]
          /\ DOMAIN pool = {pairList[i] : i \in 1 .. Len(pairList)}
      BY <2>1 DEF RegistryOk, World
    <3>2. PICK k \in 1 .. Len(pairList) : pairList[k] = p
      BY <3>1
    <3>3. \A i \in 1 .. Len(pairList) : pairList[i] = p => i = k
      BY <3>1, <3>2, AddressAssumption
    <3>4. {i \in DOMAIN pairList : pairList[i] = p} = {k}
      BY <3>1, <3>2, <3>3
    <3> QED BY <3>4, FS_Singleton
  <2>5. Cardinality(DOMAIN registry) = Len(pairList)
    BY <2>1 DEF RegistryOk, World
  <2> QED BY <2>2, <2>3, <2>4, <2>5 DEF RegistrySound
<1> QED BY <1>1, InvHolds, PTL

\* A swap takes exactly its input and delivers exactly its output, within the
\* limits of the caller, whatever the path, even one that returns to a pair.
THEOREM SwapsDeliver == Spec => []SwapDelivers
<1>1. Inv => SwapDelivers
  <2> SUFFICES ASSUME Inv,
                      NEW caller \in Users, NEW to \in Users, NEW n \in Amounts,
                      NEW limit \in Mins, NEW path \in Paths
               PROVE
      /\ \A v \in SwapExactIn(World, caller, n, limit, path, to) :
           /\ AmountsOut(World, n, path)[Len(path)] >= limit
           /\ Delivers(v, caller, to, path, n, AmountsOut(World, n, path)[Len(path)])
      /\ \A v \in SwapExactOut(World, caller, n, limit, path, to) :
           /\ AmountsIn(World, n, path)[1] <= limit
           /\ Delivers(v, caller, to, path, AmountsIn(World, n, path)[1], n)
    BY DEF SwapDelivers
  <2>1. /\ WorldOk(World) /\ World.bal = bal
        /\ n \in Int /\ path \in Seq(Tokens) /\ to \in Address
    BY InputAssumption DEF Inv, World, Address
  <2>2. ASSUME NEW v, NEW in, NEW out, Exchanged(World, v, caller, to, path, in, out)
        PROVE  Delivers(v, caller, to, path, in, out)
    BY <2>1, <2>2 DEF Exchanged, Delivers
  <2>3. ASSUME NEW v \in SwapExactIn(World, caller, n, limit, path, to)
        PROVE  /\ AmountsOut(World, n, path)[Len(path)] >= limit
               /\ Delivers(v, caller, to, path, n, AmountsOut(World, n, path)[Len(path)])
    BY <2>1, <2>2, <2>3, SwapExactInStep
  <2>4. ASSUME NEW v \in SwapExactOut(World, caller, n, limit, path, to)
        PROVE  /\ AmountsIn(World, n, path)[1] <= limit
               /\ Delivers(v, caller, to, path, AmountsIn(World, n, path)[1], n)
    BY <2>1, <2>2, <2>4, SwapExactOutStep
  <2> QED BY <2>3, <2>4
<1> QED BY <1>1, InvHolds, PTL


-----------------------------------------------------------------------------
(* Quotes execute. *)

(* The tokens of a kind that circulate, that is what all have of it that   *)
(* are not in debt, are at most k; and no product of a pair's check        *)
(* overflows, whatever the pair may come to have of them.                  *)
Circulates(w, k) ==
  /\ k \in Nat /\ (k * FeeDen) * (k * FeeDen) <= MaxInt
  /\ \A t \in Tokens : Cardinality(Units(w.bal[t])) <= k

(* Nobody has come to owe more.                                            *)
NoNewDebt(w, v) == \A t \in Tokens : Owed(v.bal[t]) \subseteq Owed(w.bal[t])

\* The tokens that are there at the start are not in debt.
LEMMA EndowIsNatural == Total(Endow) \in Nat
<1>1. Endow \in [Users -> Nat] /\ IsFiniteSet(Units(Endow))
  BY TokenAssumption
<1>2. DOMAIN Endow = Users /\ \A a \in Users : 1 .. -Endow[a] = {}
  BY <1>1
<1>3. Owed(Endow) = {}
  BY <1>2 DEF Owed
<1>4. Cardinality(Units(Endow)) \in Nat /\ Cardinality({}) = 0
  BY <1>1, FS_CardinalityType, FS_EmptySet
<1> QED BY <1>3, <1>4 DEF Total

\* No balance is further from zero than what circulates, and all are far from
\* the ends of the integers.
LEMMA BalanceCirculates ==
  ASSUME NEW w, LedgersOk(w), NEW k, Circulates(w, k), NEW t \in Tokens, NEW a \in Address
  PROVE  /\ k \in Nat /\ k <= MaxInt
         /\ w.bal[t][a] \in Int /\ w.bal[t][a] <= k /\ -k <= w.bal[t][a]
<1>1. /\ IsLedger(w.bal[t]) /\ DOMAIN w.bal[t] = Address /\ Total(w.bal[t]) = Total(Endow)
      /\ w.bal[t][a] \in Int
  BY DEF LedgersOk
<1>2. k \in Nat /\ Cardinality(Units(w.bal[t])) <= k /\ (k * FeeDen) * (k * FeeDen) <= MaxInt
  BY DEF Circulates
<1>3. k <= MaxInt
  <2> DEFINE s == k * FeeDen
  <2>1. FeeDen \in Nat \ {0} /\ MaxInt \in Nat
    BY FeeAssumption, MaxIntAssumption
  <2>2. s \in Nat /\ k <= s
    BY <1>2, <2>1
  <2> HIDE DEF s
  <2>3. s <= s * s /\ s * s \in Nat
    BY <2>2
  <2>4. s * s <= MaxInt
    BY <1>2 DEF s
  <2> HIDE DEF Circulates
  <2> QED BY <1>2, <2>1, <2>2, <2>3, <2>4
<1>4. /\ Cardinality(Units(w.bal[t])) \in Nat /\ w.bal[t][a] <= Cardinality(Units(w.bal[t]))
      /\ Cardinality(Owed(w.bal[t])) \in Nat /\ -w.bal[t][a] <= Cardinality(Owed(w.bal[t]))
  BY <1>1, BalanceWithinUnits
<1>5. Cardinality(Owed(w.bal[t])) = Cardinality(Units(w.bal[t])) - Total(Endow)
  BY <1>1, <1>4 DEF Total
<1>6. Total(Endow) \in Nat
  BY EndowIsNatural
<1> QED BY <1>1, <1>2, <1>3, <1>4, <1>5, <1>6

\* Where nobody comes to owe more, nothing more comes to circulate.
LEMMA CirculationKept ==
  ASSUME NEW w, LedgersOk(w), NEW v, LedgersOk(v), NoNewDebt(w, v), NEW k, Circulates(w, k)
  PROVE  Circulates(v, k)
<1> SUFFICES ASSUME NEW t \in Tokens PROVE Cardinality(Units(v.bal[t])) <= k
  BY DEF Circulates
<1>1. /\ IsLedger(w.bal[t]) /\ IsLedger(v.bal[t]) /\ Total(w.bal[t]) = Total(v.bal[t])
      /\ Owed(v.bal[t]) \subseteq Owed(w.bal[t])
  BY DEF LedgersOk, NoNewDebt
<1>2. /\ IsFiniteSet(Units(w.bal[t])) /\ IsFiniteSet(Units(v.bal[t]))
      /\ IsFiniteSet(Owed(w.bal[t])) /\ IsFiniteSet(Owed(v.bal[t]))
  BY <1>1 DEF IsLedger
<1>3. /\ Cardinality(Units(w.bal[t])) \in Nat /\ Cardinality(Units(v.bal[t])) \in Nat
      /\ Cardinality(Owed(w.bal[t])) \in Nat /\ Cardinality(Owed(v.bal[t])) \in Nat
  BY <1>2, FS_CardinalityType
<1>4. Cardinality(Owed(v.bal[t])) <= Cardinality(Owed(w.bal[t]))
  BY <1>1, <1>2, FS_Subset
<1>5. Cardinality(Units(w.bal[t])) <= k /\ k \in Nat
  BY DEF Circulates
<1> QED BY <1>1, <1>3, <1>4, <1>5 DEF Total

\* Nobody comes to owe more by a payment out of what the payer has.
LEMMA PaymentCirculates ==
  ASSUME NEW w, LedgersOk(w), NEW t \in Tokens, NEW from \in Address, NEW to \in Address,
         NEW n \in Nat, NEW v, Paid(w, v, t, from, to, n)
  PROVE  NoNewDebt(w, v)
<1> SUFFICES ASSUME NEW s \in Tokens PROVE Owed(v.bal[s]) \subseteq Owed(w.bal[s])
  BY DEF NoNewDebt
<1>1. LedgersOk(v) /\ n <= w.bal[t][from]
  BY DEF Paid
<1>2. CASE s # t
  BY <1>2 DEF Paid
<1>3. CASE s = t
  <2>1. /\ IsLedger(w.bal[t]) /\ IsLedger(v.bal[t])
        /\ DOMAIN w.bal[t] = Address /\ DOMAIN v.bal[t] = Address
    BY <1>1 DEF LedgersOk
  <2>2. ASSUME NEW a \in Address PROVE v.bal[t][a] >= 0 \/ v.bal[t][a] >= w.bal[t][a]
    <3>1. w.bal[t][a] \in Int /\ w.bal[t][from] \in Int
      BY DEF LedgersOk
    <3>2. v.bal[t][a] = w.bal[t][a] - (IF a = from THEN n ELSE 0) + (IF a = to THEN n ELSE 0)
      BY DEF Paid
    <3> QED BY <1>1, <3>1, <3>2
  <2> QED BY <1>3, <2>1, <2>2, OwedShrinks
<1> QED BY <1>2, <1>3

\* Such a payment does not overflow.
LEMMA PaymentFits ==
  ASSUME NEW w, LedgersOk(w), NEW k, Circulates(w, k), NEW t \in Tokens,
         NEW from \in Address, NEW to \in Address, NEW n \in Nat, n <= w.bal[t][from]
  PROVE  CanPay(w.bal[t], from, to, n)
<1> DEFINE b == w.bal[t]
           c == Moved(b, from, to, n)
<1>1. b \in [Address -> Int] /\ IsLedger(b) /\ DOMAIN b = Address /\ Total(b) = Total(Endow)
  BY DEF LedgersOk
<1>2. k \in Nat /\ k <= MaxInt /\ MaxInt \in Nat /\ \A a \in Address : b[a] <= k /\ -k <= b[a]
  BY BalanceCirculates, MaxIntAssumption
<1>3. IsLedger(c) /\ DOMAIN c = Address /\ Total(c) = Total(b)
  BY <1>1, TotalMoved
<1>4. \A a \in Address : c[a] = b[a] - (IF a = from THEN n ELSE 0) + (IF a = to THEN n ELSE 0)
  BY <1>1 DEF Moved, Credited, Debited
<1>5. Cardinality(Units(b)) <= k
  BY DEF Circulates
<1>6. n <= b[from]
  OBVIOUS
<1> HIDE DEF b, c
<1>7. \A a \in Address : c[a] >= 0 \/ c[a] >= b[a]
  BY <1>1, <1>4, <1>6
<1>8. Cardinality(Owed(c)) <= Cardinality(Owed(b))
  BY <1>1, <1>3, <1>7, OwedShrinks
<1>9. /\ Cardinality(Units(c)) \in Nat /\ c[to] <= Cardinality(Units(c))
      /\ Cardinality(Owed(c)) \in Nat
      /\ Cardinality(Units(b)) \in Nat /\ Cardinality(Owed(b)) \in Nat
  BY <1>1, <1>3, BalanceWithinUnits
<1>10. c[to] <= k
  <2>1. c[to] \in Int
    BY <1>3 DEF IsLedger
  <2> QED BY <1>2, <1>3, <1>5, <1>8, <1>9, <2>1 DEF Total
<1>11. c[to] \in Int /\ -k <= c[to]
  BY <1>1, <1>2, <1>4, <1>7
<1>12. Fits(b[from] - n) /\ Fits(c[to])
  BY <1>1, <1>2, <1>6, <1>10, <1>11 DEF Fits
<1> QED BY <1>6, <1>12 DEF CanPay, CanDebit, b, c

(* The pair has the reserves it records.                                   *)
Covered(w, p) ==
  LET q == w.pool[p]
  IN  q.reserveX <= w.bal[q.tokenX][p] /\ q.reserveY <= w.bal[q.tokenY][p]

\* swap accepts an output of the first token that is at most the quote for what
\* the pair has of the second above its reserve.
LEMMA SellsX ==
  ASSUME NEW w, WorldOk(w), NEW k, Circulates(w, k), NEW to \in Address,
         NEW p \in DOMAIN w.pool, Covered(w, p),
         NEW in \in Nat \ {0}, NEW out \in Nat \ {0},
         out < w.pool[p].reserveX, w.pool[p].reserveY > 0,
         out <= GetAmountOut(in, w.pool[p].reserveY, w.pool[p].reserveX),
         w.bal[w.pool[p].tokenY][p] >= w.pool[p].reserveY + in
  PROVE  PairSwap(w, p, out, 0, to) # {}
<1> DEFINE q == w.pool[p]
           v == [w EXCEPT !.bal[q.tokenX] = Moved(@, p, to, out),
                     !.negatives = Noted(@, to, out)]
           bx == v.bal[q.tokenX][p]
           by == v.bal[q.tokenY][p]
<1>1. /\ IsWorld(w) /\ LedgersOk(w)
      /\ q.tokenX \in Tokens /\ q.tokenY \in Tokens /\ q.tokenX # q.tokenY
      /\ q.reserveX \in Int /\ q.reserveY \in Int /\ p \in Address
      /\ w.bal[q.tokenX][p] \in Int /\ w.bal[q.tokenY][p] \in Int
  BY PairFacts
<1>2. /\ q.reserveX \in Nat \ {0} /\ q.reserveY \in Nat \ {0}
      /\ w.bal[q.tokenX][p] \in Nat /\ q.reserveX <= w.bal[q.tokenX][p]
      /\ w.bal[q.tokenY][p] \in Nat
  <2>1. q.reserveX <= w.bal[q.tokenX][p] /\ q.reserveY <= w.bal[q.tokenY][p]
    BY DEF Covered
  <2>2. out < q.reserveX /\ q.reserveY > 0
    OBVIOUS
  <2> HIDE DEF q
  <2> QED BY <1>1, <2>1, <2>2
<1>10. out <= w.bal[q.tokenX][p]
  <2>1. out < q.reserveX
    OBVIOUS
  <2> HIDE DEF q
  <2> QED BY <1>2, <2>1
<1>11. Pay(w, q.tokenX, p, to, out) = {v}
  <2>1. CanPay(w.bal[q.tokenX], p, to, out)
    BY <1>1, <1>10, PaymentFits
  <2>2. Noted(w.negatives, to, out) = w.negatives
    BY DEF Noted
  <2> QED BY <2>1, <2>2 DEF Pay, IsWorld
<1>3. Paid(w, v, q.tokenX, p, to, out)
  <2> HIDE DEF v, q
  <2> QED BY <1>1, <1>11, PayStep
<1> HIDE DEF v
<1>4. /\ bx = w.bal[q.tokenX][p] - out + (IF p = to THEN out ELSE 0)
      /\ by = w.bal[q.tokenY][p] /\ LedgersOk(v)
  BY <1>1, <1>3 DEF Paid
<1>12. Circulates(v, k)
  BY <1>1, <1>3, <1>4, PaymentCirculates, CirculationKept
<1>5. bx \in Int /\ by \in Int /\ k \in Nat /\ k <= MaxInt /\ bx <= k /\ by <= k
  BY <1>1, <1>4, <1>12, BalanceCirculates
<1>6. bx >= q.reserveX - out /\ by >= q.reserveY + in
  <2> HIDE DEF q, bx, by
  <2> QED BY <1>2, <1>4, <1>5, <1>10 DEF q
<1>7. /\ AmountIn(by, q.reserveY, 0) > 0
      /\ KHolds(q.reserveX, q.reserveY, bx, by,
                AmountIn(bx, q.reserveX, out), AmountIn(by, q.reserveY, 0))
  <2>1. q.reserveX \in Nat \ {0} /\ q.reserveY \in Nat \ {0} /\ out \in Nat
    BY <1>2
  <2>2. out < q.reserveX /\ out <= GetAmountOut(in, q.reserveY, q.reserveX)
    OBVIOUS
  <2> HIDE DEF q, bx, by
  <2>3. bx \in Nat /\ by \in Nat
    BY <1>5, <1>6, <2>1, <2>2
  <2>4. (k * FeeDen) * (k * FeeDen) <= MaxInt
    BY DEF Circulates
  <2> QED BY <1>5, <1>6, <2>1, <2>2, <2>3, <2>4, QuoteAccepted
<1>8. to \notin {q.tokenX, q.tokenY}
  BY <1>1, AddressAssumption
<1>13. AmountInOk(bx, q.reserveX, out) /\ AmountInOk(by, q.reserveY, 0)
  <2>1. out < q.reserveX /\ MaxInt \in Nat
    BY MaxIntAssumption
  <2>2. w.bal[q.tokenX][p] <= k /\ w.bal[q.tokenY][p] <= k
    BY <1>1, BalanceCirculates
  <2>3. q.reserveX <= k /\ q.reserveY <= k
    <3>1. q.reserveY <= w.bal[q.tokenY][p]
      BY DEF Covered
    <3> HIDE DEF q
    <3> QED BY <1>1, <1>2, <1>5, <2>2, <3>1
  <2> HIDE DEF q, bx, by
  <2> QED BY <1>2, <1>5, <1>6, <2>1, <2>3 DEF AmountInOk, AmountIn, Fits
<1>9. SetReserves(v, p) \in PairSwap(w, p, out, 0, to)
  <2>1. out > 0 /\ ~(0 > 0) /\ 0 < q.reserveY /\ out < q.reserveX
    OBVIOUS
  <2> QED BY <1>7, <1>8, <1>11, <1>13, <2>1 DEF PairSwap
<1> QED BY <1>9

\* The same for the other side.
LEMMA SellsY ==
  ASSUME NEW w, WorldOk(w), NEW k, Circulates(w, k), NEW to \in Address,
         NEW p \in DOMAIN w.pool, Covered(w, p),
         NEW in \in Nat \ {0}, NEW out \in Nat \ {0},
         out < w.pool[p].reserveY, w.pool[p].reserveX > 0,
         out <= GetAmountOut(in, w.pool[p].reserveX, w.pool[p].reserveY),
         w.bal[w.pool[p].tokenX][p] >= w.pool[p].reserveX + in
  PROVE  PairSwap(w, p, 0, out, to) # {}
<1> DEFINE q == w.pool[p]
           v == [w EXCEPT !.bal[q.tokenY] = Moved(@, p, to, out),
                     !.negatives = Noted(@, to, out)]
           bx == v.bal[q.tokenX][p]
           by == v.bal[q.tokenY][p]
<1>1. /\ IsWorld(w) /\ LedgersOk(w)
      /\ q.tokenX \in Tokens /\ q.tokenY \in Tokens /\ q.tokenX # q.tokenY
      /\ q.reserveX \in Int /\ q.reserveY \in Int /\ p \in Address
      /\ w.bal[q.tokenX][p] \in Int /\ w.bal[q.tokenY][p] \in Int
  BY PairFacts
<1>2. /\ q.reserveY \in Nat \ {0} /\ q.reserveX \in Nat \ {0}
      /\ w.bal[q.tokenY][p] \in Nat /\ q.reserveY <= w.bal[q.tokenY][p]
      /\ w.bal[q.tokenX][p] \in Nat
  <2>1. q.reserveX <= w.bal[q.tokenX][p] /\ q.reserveY <= w.bal[q.tokenY][p]
    BY DEF Covered
  <2>2. out < q.reserveY /\ q.reserveX > 0
    OBVIOUS
  <2> HIDE DEF q
  <2> QED BY <1>1, <2>1, <2>2
<1>10. out <= w.bal[q.tokenY][p]
  <2>1. out < q.reserveY
    OBVIOUS
  <2> HIDE DEF q
  <2> QED BY <1>2, <2>1
<1>11. Pay(w, q.tokenY, p, to, out) = {v}
  <2>1. CanPay(w.bal[q.tokenY], p, to, out)
    BY <1>1, <1>10, PaymentFits
  <2>2. Noted(w.negatives, to, out) = w.negatives
    BY DEF Noted
  <2> QED BY <2>1, <2>2 DEF Pay, IsWorld
<1>3. Paid(w, v, q.tokenY, p, to, out)
  <2> HIDE DEF v, q
  <2> QED BY <1>1, <1>11, PayStep
<1> HIDE DEF v
<1>4. /\ by = w.bal[q.tokenY][p] - out + (IF p = to THEN out ELSE 0)
      /\ bx = w.bal[q.tokenX][p] /\ LedgersOk(v)
  BY <1>1, <1>3 DEF Paid
<1>12. Circulates(v, k)
  BY <1>1, <1>3, <1>4, PaymentCirculates, CirculationKept
<1>5. bx \in Int /\ by \in Int /\ k \in Nat /\ k <= MaxInt /\ bx <= k /\ by <= k
  BY <1>1, <1>4, <1>12, BalanceCirculates
<1>6. by >= q.reserveY - out /\ bx >= q.reserveX + in
  <2> HIDE DEF q, bx, by
  <2> QED BY <1>2, <1>4, <1>5, <1>10 DEF q
<1>7. /\ AmountIn(bx, q.reserveX, 0) > 0
      /\ KHolds(q.reserveX, q.reserveY, bx, by,
                AmountIn(bx, q.reserveX, 0), AmountIn(by, q.reserveY, out))
  <2>1. q.reserveX \in Nat \ {0} /\ q.reserveY \in Nat \ {0} /\ out \in Nat
    BY <1>2
  <2>2. out < q.reserveY /\ out <= GetAmountOut(in, q.reserveX, q.reserveY)
    OBVIOUS
  <2> HIDE DEF q, bx, by
  <2>3. bx \in Nat /\ by \in Nat
    BY <1>5, <1>6, <2>1, <2>2
  <2>4. (k * FeeDen) * (k * FeeDen) <= MaxInt
    BY DEF Circulates
  <2> QED BY <1>5, <1>6, <2>1, <2>2, <2>3, <2>4, QuoteAccepted
<1>8. to \notin {q.tokenX, q.tokenY}
  BY <1>1, AddressAssumption
<1>13. AmountInOk(bx, q.reserveX, 0) /\ AmountInOk(by, q.reserveY, out)
  <2>1. out < q.reserveY /\ MaxInt \in Nat
    BY MaxIntAssumption
  <2>2. w.bal[q.tokenY][p] <= k /\ w.bal[q.tokenX][p] <= k
    BY <1>1, BalanceCirculates
  <2>3. q.reserveY <= k /\ q.reserveX <= k
    <3>1. q.reserveX <= w.bal[q.tokenX][p]
      BY DEF Covered
    <3> HIDE DEF q
    <3> QED BY <1>1, <1>2, <1>5, <2>2, <3>1
  <2> HIDE DEF q, bx, by
  <2> QED BY <1>2, <1>5, <1>6, <2>1, <2>3 DEF AmountInOk, AmountIn, Fits
<1>9. SetReserves(v, p) \in PairSwap(w, p, 0, out, to)
  <2>1. out > 0 /\ ~(0 > 0) /\ 0 < q.reserveX /\ out < q.reserveY
    OBVIOUS
  <2> QED BY <1>7, <1>8, <1>11, <1>13, <2>1 DEF PairSwap
<1> QED BY <1>9

(* The amounts before and after hop i: the second is at most the quote for *)
(* the first, and less than what the pair has.                             *)
Buys(w, amounts, path, i) ==
  LET r == ReservesOf(w, path[i], path[i + 1])
  IN  /\ amounts[i] \in Nat \ {0} /\ amounts[i + 1] \in Nat \ {0}
      /\ r[1] \in Nat \ {0} /\ r[2] \in Nat \ {0} /\ amounts[i + 1] < r[2]
      /\ amounts[i + 1] <= GetAmountOut(amounts[i], r[1], r[2])

(* The input of hop i is with its pair, above the reserve.                 *)
IsPaid(w, amounts, path, i) ==
  w.bal[path[i]][PairFor(w, path, i)]
    >= ReservesOf(w, path[i], path[i + 1])[1] + amounts[i]

\* A hop that asks for no more than the quote of what its pair was paid is
\* accepted.
LEMMA HopAccepted ==
  ASSUME NEW w, WorldOk(w), NEW k, Circulates(w, k),
         NEW path \in Seq(Tokens), PathOk(w, path),
         NEW i \in 1 .. Len(path) - 1, NEW amounts, NEW to \in Address,
         Covered(w, PairFor(w, path, i)), Buys(w, amounts, path, i), IsPaid(w, amounts, path, i)
  PROVE  Hop(w, amounts, path, to, i) # {}
<1> DEFINE p == PairFor(w, path, i)
           q == w.pool[p]
           r == ReservesOf(w, path[i], path[i + 1])
           in == amounts[i]
           out == amounts[i + 1]
           dest == HopTo(w, path, i, to)
<1>1. /\ p \in DOMAIN w.pool /\ Exchanges(q, path[i], path[i + 1]) /\ path[i] # path[i + 1]
      /\ Covered(w, p)
  BY PathFacts
<1>8. dest \in Address
  BY HopToAddress
<1>2. q.tokenX # q.tokenY
  BY <1>1, PairFacts
<1>3. r = IF q.tokenX = path[i] THEN <<q.reserveX, q.reserveY>> ELSE <<q.reserveY, q.reserveX>>
  BY DEF ReservesOf, PairFor
<1>4. /\ in \in Nat \ {0} /\ out \in Nat \ {0}
      /\ r[1] \in Nat \ {0} /\ r[2] \in Nat \ {0} /\ out < r[2]
      /\ out <= GetAmountOut(in, r[1], r[2])
      /\ w.bal[path[i]][p] >= r[1] + in
  BY DEF Buys, IsPaid
<1>5. Hop(w, amounts, path, to, i)
        = IF q.tokenX = path[i + 1] THEN PairSwap(w, p, out, 0, dest)
                                    ELSE PairSwap(w, p, 0, out, dest)
  BY DEF Hop
<1> HIDE DEF p, q, r, in, out, dest
<1>6. CASE q.tokenX = path[i + 1]
  <2>1. q.tokenY = path[i] /\ q.tokenX # path[i]
    BY <1>1, <1>2, <1>6 DEF Exchanges
  <2>2. r[1] = q.reserveY /\ r[2] = q.reserveX
    BY <1>3, <2>1
  <2>3. PairSwap(w, p, out, 0, dest) # {}
    <3>1. /\ out < q.reserveX /\ q.reserveY > 0 /\ out <= GetAmountOut(in, q.reserveY, q.reserveX)
          /\ w.bal[q.tokenY][p] >= q.reserveY + in
      BY <1>4, <2>1, <2>2
    <3> QED BY <1>1, <1>4, <1>8, <3>1, SellsX DEF q
  <2> QED BY <1>5, <1>6, <2>3
<1>7. CASE q.tokenX # path[i + 1]
  <2>1. q.tokenX = path[i] /\ q.tokenY = path[i + 1]
    BY <1>1, <1>7 DEF Exchanges
  <2>2. r[1] = q.reserveX /\ r[2] = q.reserveY
    BY <1>3, <2>1
  <2>3. PairSwap(w, p, 0, out, dest) # {}
    <3>1. /\ out < q.reserveY /\ q.reserveX > 0 /\ out <= GetAmountOut(in, q.reserveX, q.reserveY)
          /\ w.bal[q.tokenX][p] >= q.reserveX + in
      BY <1>4, <2>1, <2>2
    <3> QED BY <1>1, <1>4, <1>8, <3>1, SellsY DEF q
  <2> QED BY <1>5, <1>7, <2>3
<1> QED BY <1>6, <1>7

\* The hops of a simple path use different pairs.
LEMMA SimpleHops ==
  ASSUME NEW w, WorldOk(w), NEW path \in Seq(Tokens), PathOk(w, path), Simple(path),
         NEW i \in 1 .. Len(path) - 1, NEW j \in 1 .. Len(path) - 1, i # j
  PROVE  PairFor(w, path, i) # PairFor(w, path, j)
<1>1. /\ Exchanges(w.pool[PairFor(w, path, i)], path[i], path[i + 1])
      /\ Exchanges(w.pool[PairFor(w, path, j)], path[j], path[j + 1])
  BY PathFacts
<1>2. {path[i], path[i + 1]} # {path[j], path[j + 1]}
  BY DEF Simple
<1> QED BY <1>1, <1>2 DEF Exchanges

(* After k hops from w, where m circulates: the pairs ahead are as they    *)
(* were, and have what they record, and the next has its input.            *)
Ready(w, v, m, amounts, path, k) ==
  /\ WorldOk(v) /\ Traded(w, v) /\ Circulates(v, m)
  /\ \A j \in k + 1 .. Len(path) - 1 :
       /\ v.pool[PairFor(w, path, j)] = w.pool[PairFor(w, path, j)]
       /\ Covered(v, PairFor(w, path, j))
  /\ k + 1 < Len(path) => IsPaid(v, amounts, path, k + 1)

\* What is known of a pair ahead is what was known when the swap began.
LEMMA SameAhead ==
  ASSUME NEW w, NEW v, NEW path, NEW i, PathOk(w, path), Traded(w, v),
         v.pool[PairFor(w, path, i)] = w.pool[PairFor(w, path, i)]
  PROVE  /\ ReservesOf(v, path[i], path[i + 1]) = ReservesOf(w, path[i], path[i + 1])
         /\ \A amounts : Buys(w, amounts, path, i) => Buys(v, amounts, path, i)
<1>1. ReservesOf(v, path[i], path[i + 1]) = ReservesOf(w, path[i], path[i + 1])
  BY DEF Traded, ReservesOf, PairFor, GetPair
<1> QED BY <1>1 DEF Buys

\* A hop takes nobody into debt: what it pays is there, and the check at its end
\* would fail for a pair in debt.
LEMMA HopCirculates ==
  ASSUME NEW w, WorldOk(w), NEW path \in Seq(Tokens), PathOk(w, path),
         NEW i \in 1 .. Len(path) - 1, NEW amounts, amounts[i + 1] \in Nat,
         NEW to \in Address, NEW v \in Hop(w, amounts, path, to, i), NEW m, Circulates(w, m)
  PROVE  Circulates(v, m)
<1> DEFINE p == PairFor(w, path, i)
           t == path[i + 1]
           out == amounts[i + 1]
           dest == HopTo(w, path, i, to)
<1>1. IsHop(w, v, p, dest, t, out) /\ out \in Nat
  BY HopResult
<1>2. t \in Tokens
  BY PathFacts
<1> HIDE DEF p, t, out, dest
<1>3. PICK xOut \in Nat, yOut \in Nat : IsTrade(w, v, p, dest, t, out, xOut, yOut)
  BY <1>1 DEF IsHop
<1>4. /\ LedgersOk(v) /\ v.bal[t][p] >= 0 /\ PaysOut(w, v, p, dest, t, out)
      /\ \A s \in Tokens : s # t => v.bal[s] = w.bal[s]
  BY <1>3 DEF IsTrade
<1>5. ASSUME NEW s \in Tokens PROVE Owed(v.bal[s]) \subseteq Owed(w.bal[s])
  <2>1. CASE s # t
    BY <1>4, <2>1
  <2>2. CASE s = t
    <3>1. /\ IsLedger(w.bal[t]) /\ IsLedger(v.bal[t])
          /\ DOMAIN w.bal[t] = Address /\ DOMAIN v.bal[t] = Address
      BY <1>2, <1>4 DEF WorldOk, LedgersOk
    <3>2. ASSUME NEW a \in Address PROVE v.bal[t][a] >= 0 \/ v.bal[t][a] >= w.bal[t][a]
      <4>1. w.bal[t][a] \in Int
        BY <1>2 DEF WorldOk, LedgersOk
      <4>2. a # p => v.bal[t][a] = w.bal[t][a] + (IF a = dest THEN out ELSE 0)
        BY <1>2, <1>4 DEF PaysOut
      <4> QED BY <1>1, <1>4, <4>1, <4>2
    <3> QED BY <2>2, <3>1, <3>2, OwedShrinks
  <2> QED BY <2>1, <2>2
<1> QED BY <1>4, <1>5, CirculationKept DEF NoNewDebt, WorldOk

\* A hop is accepted and leaves the next one ready.
LEMMA HopReady ==
  ASSUME NEW w, WorldOk(w), NEW path \in Seq(Tokens), PathOk(w, path), Simple(path),
         NEW amounts, IsAmounts(amounts, path),
         \A j \in 1 .. Len(path) - 1 : Buys(w, amounts, path, j),
         NEW to \in Address, NEW i \in 1 .. Len(path) - 1,
         NEW v, NEW m, Ready(w, v, m, amounts, path, i - 1)
  PROVE  /\ Hop(v, amounts, path, to, i) # {}
         /\ \A z \in Hop(v, amounts, path, to, i) : Ready(w, z, m, amounts, path, i)
<1>1. /\ Len(path) \in Nat /\ i \in Nat /\ (i - 1) + 1 = i /\ i < Len(path)
      /\ i + 1 \in 1 .. Len(path) /\ amounts[i + 1] \in Nat
  BY DEF IsAmounts
<1>2. /\ WorldOk(v) /\ Traded(w, v) /\ IsPaid(v, amounts, path, i) /\ Circulates(v, m)
      /\ \A j \in i .. Len(path) - 1 :
           /\ v.pool[PairFor(w, path, j)] = w.pool[PairFor(w, path, j)]
           /\ Covered(v, PairFor(w, path, j))
  BY <1>1 DEF Ready
<1>3. PathOk(v, path) /\ \A j : PairFor(v, path, j) = PairFor(w, path, j)
  BY <1>2, TradedPath
<1>4. Hop(v, amounts, path, to, i) # {}
  <2>1. v.pool[PairFor(w, path, i)] = w.pool[PairFor(w, path, i)]
    BY <1>1, <1>2
  <2>2. Buys(w, amounts, path, i) => Buys(v, amounts, path, i)
    BY <1>2, <2>1, SameAhead
  <2>3. Buys(v, amounts, path, i)
    BY <2>2
  <2>4. Covered(v, PairFor(v, path, i))
    BY <1>1, <1>2, <1>3
  <2> QED BY <1>2, <1>3, <2>3, <2>4, HopAccepted
<1>5. ASSUME NEW z \in Hop(v, amounts, path, to, i)
      PROVE  Ready(w, z, m, amounts, path, i)
  <2> DEFINE p == PairFor(v, path, i)
             dest == HopTo(v, path, i, to)
  <2>1. /\ WorldOk(z) /\ Traded(v, z) /\ OnlyPool(v, z, p)
        /\ PaysOut(v, z, p, dest, path[i + 1], amounts[i + 1])
    BY <1>1, <1>2, <1>3, HopStep
  <2>5. Circulates(z, m)
    BY <1>1, <1>2, <1>3, HopCirculates
  <2>2. Traded(w, z)
    BY <1>2, <2>1, TradedCompose
  <2>3. ASSUME NEW j \in i + 1 .. Len(path) - 1
        PROVE  /\ PairFor(v, path, j) # p /\ PairFor(v, path, j) \in DOMAIN v.pool
               /\ z.pool[PairFor(w, path, j)] = w.pool[PairFor(w, path, j)]
               /\ z.pool[PairFor(v, path, j)] = v.pool[PairFor(v, path, j)]
               /\ Covered(z, PairFor(w, path, j))
    <3>1. j \in 1 .. Len(path) - 1 /\ j # i /\ j \in i .. Len(path) - 1
      BY <1>1
    <3>4. PairFor(v, path, j) # p
      BY <1>2, <1>3, <3>1, SimpleHops
    <3>5. PairFor(v, path, j) \in DOMAIN v.pool
      BY <1>2, <1>3, <3>1, PathFacts
    <3>2. PairFor(v, path, j) # p /\ PairFor(v, path, j) \in DOMAIN v.pool
      BY <3>4, <3>5
    <3>3. z.pool[PairFor(v, path, j)] = v.pool[PairFor(v, path, j)]
      BY <2>1, <3>2 DEF OnlyPool
    <3>6. Covered(z, PairFor(w, path, j))
      <4> DEFINE s == PairFor(v, path, j)
                 q == v.pool[s]
      <4>1. s = PairFor(w, path, j) /\ Covered(v, s) /\ s # p /\ z.pool[s] = q
        BY <1>2, <1>3, <3>1, <3>2, <3>3
      <4>2. /\ q.tokenX \in Tokens /\ q.tokenY \in Tokens /\ s \in Address
            /\ q.reserveX \in Int /\ q.reserveY \in Int
            /\ v.bal[q.tokenX][s] \in Int /\ v.bal[q.tokenY][s] \in Int
        BY <1>2, <3>2, PairFacts
      <4>3. q.reserveX <= v.bal[q.tokenX][s] /\ q.reserveY <= v.bal[q.tokenY][s]
        BY <4>1 DEF Covered
      <4> HIDE DEF s, q, p, dest
      <4>4. /\ z.bal[q.tokenX][s] = v.bal[q.tokenX][s]
                 + (IF q.tokenX = path[i + 1] /\ s = dest THEN amounts[i + 1] ELSE 0)
            /\ z.bal[q.tokenY][s] = v.bal[q.tokenY][s]
                 + (IF q.tokenY = path[i + 1] /\ s = dest THEN amounts[i + 1] ELSE 0)
        BY <2>1, <4>1, <4>2 DEF PaysOut
      <4>5. q.reserveX <= z.bal[q.tokenX][s] /\ q.reserveY <= z.bal[q.tokenY][s]
        BY <1>1, <4>2, <4>3, <4>4
      <4> QED BY <4>1, <4>5 DEF Covered
    <3> QED BY <1>2, <1>3, <3>1, <3>2, <3>3, <3>6
  <2>4. ASSUME i + 1 < Len(path)
        PROVE  IsPaid(z, amounts, path, i + 1)
    <3> DEFINE j == i + 1
               s == PairFor(v, path, j)
               t == path[j]
               r == ReservesOf(v, t, path[j + 1])
    <3>1. j \in i + 1 .. Len(path) - 1 /\ j \in 1 .. Len(path) - 1 /\ i # Len(path) - 1
      BY <1>1, <2>4
    <3>2. s # p /\ s \in DOMAIN v.pool /\ z.pool[s] = v.pool[s] /\ PairFor(z, path, j) = s
      BY <1>3, <2>1, <2>3, <3>1, TradedPath
    <3>3. dest = s
      BY <1>2, <1>3, <3>1, HopToAddress
    <3>9. t \in Tokens /\ Exchanges(v.pool[s], t, path[j + 1])
      BY <1>2, <1>3, <3>1, PathFacts
    <3>4. t \in Tokens /\ Exchanges(v.pool[s], t, path[j + 1]) /\ s \in Address
      BY <1>2, <3>2, <3>9, PairFacts
    <3>5. z.bal[t][s] = v.bal[t][s] + amounts[j]
      BY <2>1, <3>2, <3>3, <3>4 DEF PaysOut
    <3>6. v.bal[t][s] \in Int /\ r[1] \in Int /\ r[1] <= v.bal[t][s]
      <4>5. Covered(v, s)
        <5>1. j \in i .. Len(path) - 1
          BY <1>1, <3>1
        <5> QED BY <1>2, <1>3, <5>1
      <4>6. /\ v.pool[s].reserveX \in Int /\ v.pool[s].reserveY \in Int
            /\ v.bal[v.pool[s].tokenX][s] \in Int /\ v.bal[v.pool[s].tokenY][s] \in Int
        BY <1>2, <3>2, PairFacts
      <4>1. /\ v.pool[s].reserveX \in Int /\ v.pool[s].reserveY \in Int
            /\ v.bal[v.pool[s].tokenX][s] \in Int /\ v.bal[v.pool[s].tokenY][s] \in Int
            /\ v.pool[s].reserveX <= v.bal[v.pool[s].tokenX][s]
            /\ v.pool[s].reserveY <= v.bal[v.pool[s].tokenY][s]
        BY <4>5, <4>6 DEF Covered
      <4>2. r = IF v.pool[s].tokenX = t THEN <<v.pool[s].reserveX, v.pool[s].reserveY>>
                                        ELSE <<v.pool[s].reserveY, v.pool[s].reserveX>>
        BY DEF ReservesOf, PairFor
      <4>3. v.pool[s].tokenX # t => v.pool[s].tokenY = t
        BY <3>4 DEF Exchanges
      <4> HIDE DEF r, s, t
      <4> QED BY <4>1, <4>2, <4>3
    <3>7. ReservesOf(z, t, path[j + 1]) = r
      BY <1>3, <2>1, <3>2, SameAhead
    <3> HIDE DEF j, s, t, r
    <3>8. z.bal[t][s] >= r[1] + amounts[j]
      BY <1>1, <3>5, <3>6 DEF j
    <3> QED BY <3>2, <3>7, <3>8 DEF IsPaid, j, t
  <2> QED BY <2>1, <2>2, <2>3, <2>4, <2>5 DEF Ready
<1> QED BY <1>4, <1>5

\* All hops are accepted, if the first pair has been paid.
LEMMA ChainAccepted ==
  ASSUME NEW w, WorldOk(w), NEW m, Circulates(w, m),
         NEW path \in Seq(Tokens), PathOk(w, path), Simple(path),
         NEW amounts, IsAmounts(amounts, path),
         \A j \in 1 .. Len(path) - 1 :
           Buys(w, amounts, path, j) /\ Covered(w, PairFor(w, path, j)),
         IsPaid(w, amounts, path, 1), NEW to \in Address
  PROVE  RunSwapChain(w, amounts, path, to) # {}
<1> DEFINE chain == ChainOf(w, amounts, path, to)
           n == Len(path) - 1
           T == {k \in Nat : k <= n => /\ chain[k] # {}
                                       /\ \A v \in chain[k] : Ready(w, v, m, amounts, path, k)}
<1> HIDE DEF T, chain
<1>1. Len(path) >= 2 /\ n \in Nat /\ n >= 1
  BY DEF PathOk
<1>2. /\ chain[0] = {w} /\ RunSwapChain(w, amounts, path, to) = chain[n]
      /\ \A i \in 1 .. n : chain[i] = AfterHop(chain[i - 1], amounts, path, to, i)
  <2>1. HopByHop(chain, w, amounts, path, to)
    BY <1>1, ChainFacts DEF chain
  <2> QED BY <2>1 DEF HopByHop
<1>3. 0 \in T
  <2>1. Ready(w, w, m, amounts, path, 0)
    BY DEF Ready, Traded, SameStock
  <2> QED BY <1>2, <2>1 DEF T
<1>4. ASSUME NEW k \in Nat, k \in T PROVE k + 1 \in T
  <2> SUFFICES ASSUME k + 1 <= n
               PROVE  /\ chain[k + 1] # {}
                      /\ \A z \in chain[k + 1] : Ready(w, z, m, amounts, path, k + 1)
    BY DEF T
  <2>1. k + 1 \in 1 .. n /\ (k + 1) - 1 = k /\ k <= n
    BY <1>1
  <2>2. chain[k] # {} /\ \A v \in chain[k] : Ready(w, v, m, amounts, path, (k + 1) - 1)
    BY <1>4, <2>1 DEF T
  <2>3. ASSUME NEW v \in chain[k]
        PROVE  /\ Hop(v, amounts, path, to, k + 1) # {}
               /\ \A z \in Hop(v, amounts, path, to, k + 1) : Ready(w, z, m, amounts, path, k + 1)
    BY <2>1, <2>2, HopReady DEF n
  <2>4. chain[k + 1] = UNION {Hop(v, amounts, path, to, k + 1) : v \in chain[k]}
    BY <1>2, <2>1 DEF AfterHop
  <2> QED BY <2>2, <2>3, <2>4
<1>5. n \in T
  <2> HIDE DEF n
  <2> QED BY <1>1, <1>3, <1>4, Induction
<1> QED BY <1>1, <1>2, <1>5 DEF T

\* A hop of a route for an input buys what it puts out.
LEMMA OutBuys ==
  ASSUME NEW w, WorldOk(w), NEW path \in Seq(Tokens), PathOk(w, path), NEW n \in Int,
         AllPositive(AmountsOut(w, n, path)), NEW i \in 1 .. Len(path) - 1
  PROVE  Buys(w, AmountsOut(w, n, path), path, i)
<1> DEFINE amounts == AmountsOut(w, n, path)
           r == ReservesOf(w, path[i], path[i + 1])
<1>1. IsOutUpTo(amounts, w, n, path, Len(path)) /\ IsAmounts(amounts, path)
  BY AmountsOutFacts
<1>2. AllPositive(amounts)
  OBVIOUS
<1> HIDE DEF amounts
<1>3. /\ i \in 1 .. Len(path) /\ i + 1 \in 1 .. Len(path) /\ i + 1 # 1 /\ i + 1 - 1 = i
  OBVIOUS
<1>4. amounts[i] \in Nat \ {0} /\ amounts[i + 1] \in Nat \ {0}
  BY <1>1, <1>2, <1>3 DEF IsAmounts, AllPositive
<1>5. amounts[i + 1] = OutputFor(w, path, amounts[i], i + 1)
  BY <1>1, <1>3 DEF IsOutUpTo
<1>6. OutputFor(w, path, amounts[i], i + 1)
        = IF GetAmountOutOk(amounts[i], r[1], r[2]) THEN GetAmountOut(amounts[i], r[1], r[2]) ELSE 0
  BY <1>3 DEF OutputFor
<1>7. r[1] \in Int /\ r[2] \in Int
  BY PathFacts, ReservesTyped
<1> HIDE DEF r
<1>8. /\ GetAmountOutOk(amounts[i], r[1], r[2])
      /\ amounts[i + 1] = GetAmountOut(amounts[i], r[1], r[2])
  BY <1>4, <1>5, <1>6
<1>9. r[1] \in Nat \ {0} /\ r[2] \in Nat \ {0}
  BY <1>7, <1>8 DEF GetAmountOutOk
<1>10. amounts[i + 1] < r[2] /\ amounts[i + 1] <= GetAmountOut(amounts[i], r[1], r[2])
  <2>1. /\ GetAmountOut(amounts[i], r[1], r[2]) \in Nat
        /\ GetAmountOut(amounts[i], r[1], r[2]) < r[2]
    BY <1>4, <1>9, OutNumber
  <2> QED BY <1>8, <2>1
<1> QED BY <1>4, <1>9, <1>10 DEF Buys, amounts, r

\* So does a hop of a route for an output.
LEMMA InBuys ==
  ASSUME NEW w, WorldOk(w), NEW path \in Seq(Tokens), PathOk(w, path), NEW n \in Int,
         AllPositive(AmountsIn(w, n, path)), NEW i \in 1 .. Len(path) - 1
  PROVE  Buys(w, AmountsIn(w, n, path), path, i)
<1> DEFINE amounts == AmountsIn(w, n, path)
           r == ReservesOf(w, path[i], path[i + 1])
<1>1. IsInFrom(amounts, w, n, path, Len(path), 1) /\ IsAmounts(amounts, path)
  BY AmountsInFacts
<1>2. AllPositive(amounts)
  OBVIOUS
<1> HIDE DEF amounts
<1>3. /\ i \in 1 .. Len(path) /\ i + 1 \in 1 .. Len(path) /\ i # Len(path)
  OBVIOUS
<1>4. amounts[i] \in Nat \ {0} /\ amounts[i + 1] \in Nat \ {0}
  BY <1>1, <1>2, <1>3 DEF IsAmounts, AllPositive
<1>5. amounts[i] = InputFor(w, path, amounts[i + 1], i)
  BY <1>1, <1>3 DEF IsInFrom
<1>6. InputFor(w, path, amounts[i + 1], i)
        = IF GetAmountInOk(amounts[i + 1], r[1], r[2])
          THEN GetAmountIn(amounts[i + 1], r[1], r[2]) ELSE 0
  BY DEF InputFor
<1>7. r[1] \in Int /\ r[2] \in Int
  BY PathFacts, ReservesTyped
<1> HIDE DEF r
<1>8. /\ GetAmountInOk(amounts[i + 1], r[1], r[2])
      /\ amounts[i] = GetAmountIn(amounts[i + 1], r[1], r[2])
  BY <1>4, <1>5, <1>6
<1>9. r[1] \in Nat \ {0} /\ r[2] \in Nat \ {0} /\ amounts[i + 1] < r[2]
  BY <1>7, <1>8 DEF GetAmountInOk
<1>10. amounts[i + 1] <= GetAmountOut(amounts[i], r[1], r[2])
  BY <1>4, <1>8, <1>9, InNumber
<1> QED BY <1>4, <1>9, <1>10 DEF Buys, amounts, r

\* A caller who has the first amount can have the last.
LEMMA SwapAccepted ==
  ASSUME NEW w, WorldOk(w), NEW m, Circulates(w, m),
         NEW path \in Seq(Tokens), PathOk(w, path), Simple(path),
         NEW amounts, IsAmounts(amounts, path),
         \A j \in 1 .. Len(path) - 1 :
           Buys(w, amounts, path, j) /\ Covered(w, PairFor(w, path, j)),
         NEW caller \in Users, NEW to \in Address,
         CanPay(w.bal[path[1]], caller, PairFor(w, path, 1), amounts[1])
  PROVE  Swap(w, caller, amounts[1], amounts, path, to) # {}
<1> DEFINE p == PairFor(w, path, 1)
           t == path[1]
           r == ReservesOf(w, t, path[2])
           u == [w EXCEPT !.bal[t] = Moved(@, caller, p, amounts[1]),
                     !.negatives = Noted(@, p, amounts[1])]
<1>1. /\ 1 \in 1 .. Len(path) - 1 /\ 1 + 1 = 2 /\ amounts[1] \in Nat /\ 1 \in 1 .. Len(path)
  BY DEF PathOk, IsAmounts
<1>9. p \in DOMAIN w.pool /\ t \in Tokens /\ Exchanges(w.pool[p], t, path[2])
  BY <1>1, PathFacts
<1>2. /\ p \in DOMAIN w.pool /\ p \in PairAddresses /\ t \in Tokens /\ p \in Address /\ caller # p
      /\ Exchanges(w.pool[p], t, path[2]) /\ caller \in Address
  BY <1>9, AddressAssumption DEF WorldOk, PoolsOk, Address
<1>3. Pay(w, t, caller, p, amounts[1]) = {u}
  BY DEF Pay
<1> HIDE DEF u
<1>4. /\ WorldOk(u) /\ Traded(w, u) /\ u.pool = w.pool /\ Paid(w, u, t, caller, p, amounts[1])
  <2>1. u \in Pay(w, t, caller, p, amounts[1]) /\ amounts[1] \in Int /\ amounts[1] >= 0
    BY <1>1, <1>3
  <2> HIDE DEF p, t
  <2> QED BY <1>2, <2>1, UserPayStep
<1>5. PathOk(u, path) /\ \A j : PairFor(u, path, j) = PairFor(w, path, j)
  BY <1>4, TradedPath
<1>10. Circulates(u, m)
  <2>1. LedgersOk(w) /\ LedgersOk(u)
    BY <1>4 DEF WorldOk
  <2>2. NoNewDebt(w, u)
    <3> HIDE DEF p, t
    <3> QED BY <1>1, <1>2, <1>4, <2>1, PaymentCirculates
  <2> QED BY <2>1, <2>2, CirculationKept
<1>6. ASSUME NEW j \in 1 .. Len(path) - 1
      PROVE  Buys(u, amounts, path, j) /\ Covered(u, PairFor(u, path, j))
  <2>1. Buys(u, amounts, path, j)
    BY <1>4, SameAhead
  <2> DEFINE s == PairFor(w, path, j)
             q == w.pool[s]
  <2>2. s \in DOMAIN w.pool /\ Covered(w, s) /\ PairFor(u, path, j) = s
    BY <1>5, PathFacts
  <2> HIDE DEF s
  <2>3. /\ q.tokenX \in Tokens /\ q.tokenY \in Tokens /\ s \in Address /\ s # caller
        /\ q.reserveX \in Int /\ q.reserveY \in Int
        /\ w.bal[q.tokenX][s] \in Int /\ w.bal[q.tokenY][s] \in Int
    BY <2>2, PairFacts
  <2>4. /\ NoLoss(w, u, Address \ {caller}) /\ u.negatives = w.negatives
        /\ LedgersOk(u) /\ u.pool = w.pool
    BY <1>4 DEF Paid, Traded, WorldOk
  <2>5. /\ u.bal[q.tokenX][s] >= w.bal[q.tokenX][s] /\ u.bal[q.tokenX][s] \in Int
        /\ u.bal[q.tokenY][s] >= w.bal[q.tokenY][s] /\ u.bal[q.tokenY][s] \in Int
    BY <2>3, <2>4 DEF NoLoss, LedgersOk
  <2>6. q.reserveX <= w.bal[q.tokenX][s] /\ q.reserveY <= w.bal[q.tokenY][s]
    BY <2>2 DEF Covered
  <2> HIDE DEF q
  <2>7. q.reserveX <= u.bal[q.tokenX][s] /\ q.reserveY <= u.bal[q.tokenY][s]
    BY <2>3, <2>5, <2>6
  <2>8. Covered(u, s)
    BY <2>4, <2>7 DEF Covered, q
  <2> QED BY <2>1, <2>2, <2>8
<1>7. IsPaid(u, amounts, path, 1)
  <2>1. u.bal[t][p] = w.bal[t][p] + amounts[1]
    <3>1. w.bal[t][p] \in Int
      BY <1>2 DEF WorldOk, LedgersOk
    <3> QED BY <1>1, <1>2, <1>4, <3>1 DEF Paid
  <2>2. w.bal[t][p] \in Int /\ r[1] \in Int /\ r[1] <= w.bal[t][p]
    <3>4. Covered(w, p)
      BY <1>1
    <3>5. /\ w.pool[p].reserveX \in Int /\ w.pool[p].reserveY \in Int
          /\ w.bal[w.pool[p].tokenX][p] \in Int /\ w.bal[w.pool[p].tokenY][p] \in Int
      BY <1>2, PairFacts
    <3>1. /\ w.pool[p].reserveX \in Int /\ w.pool[p].reserveY \in Int
          /\ w.bal[w.pool[p].tokenX][p] \in Int /\ w.bal[w.pool[p].tokenY][p] \in Int
          /\ w.pool[p].reserveX <= w.bal[w.pool[p].tokenX][p]
          /\ w.pool[p].reserveY <= w.bal[w.pool[p].tokenY][p]
      BY <3>4, <3>5 DEF Covered
    <3>2. r = IF w.pool[p].tokenX = t THEN <<w.pool[p].reserveX, w.pool[p].reserveY>>
                                      ELSE <<w.pool[p].reserveY, w.pool[p].reserveX>>
      BY <1>1 DEF ReservesOf, PairFor
    <3>3. w.pool[p].tokenX # t => w.pool[p].tokenY = t
      BY <1>2 DEF Exchanges
    <3> HIDE DEF r, p, t
    <3> QED BY <3>1, <3>2, <3>3
  <2>3. ReservesOf(u, t, path[2]) = r
    BY <1>4 DEF Traded, ReservesOf, GetPair
  <2> HIDE DEF r, p, t
  <2>4. u.bal[t][p] >= r[1] + amounts[1]
    BY <1>1, <2>1, <2>2
  <2> QED BY <1>1, <1>5, <2>3, <2>4 DEF IsPaid, p, t
<1>8. RunSwapChain(u, amounts, path, to) # {}
  BY <1>4, <1>5, <1>6, <1>7, <1>10, ChainAccepted
<1> QED BY <1>3, <1>8 DEF Swap, After

(* What circulates is bounded, whatever anybody owes.                      *)
SmallCirculation == \E m \in Nat : Circulates(World, m)

\* What the router quotes for an input, every pair of a route accepts, whatever
\* was donated to them or taken from them before, as long as the pairs have what
\* they record and no more circulates of any token than their check can square.
THEOREM QuotesAreExecuted == Spec => [](SmallCirculation => QuotesExecute)
<1>1. Inv => (SmallCirculation => QuotesExecute)
  <2> SUFFICES ASSUME Inv, NEW m \in Nat, Circulates(World, m),
                      NEW caller \in Users, NEW to \in Users, NEW n \in Amounts,
                      NEW path \in Routes,
                      AllPositive(AmountsOut(World, n, path)), CanStart(caller, path, n)
               PROVE  SwapExactIn(World, caller, n, 0, path, to) # {}
    BY DEF QuotesExecute, SmallCirculation
  <2> DEFINE amounts == AmountsOut(World, n, path)
  <2>1. /\ WorldOk(World) /\ World.bal = bal /\ n \in Int /\ to \in Address
        /\ path \in Seq(Tokens) /\ PathOk(World, path) /\ Simple(path)
        /\ \A j \in 1 .. Len(path) - 1 : Backed(PairFor(World, path, j))
    BY InputAssumption DEF Inv, World, Address, Routes
  <2>7. \A j \in 1 .. Len(path) - 1 : Covered(World, PairFor(World, path, j))
    BY <2>1 DEF Backed, Covered, World
  <2>2. /\ IsAmounts(amounts, path) /\ IsOutUpTo(amounts, World, n, path, Len(path))
        /\ n \in Nat
    BY <2>1, AmountsOutFacts
  <2>8. \A j \in 1 .. Len(path) - 1 : Buys(World, amounts, path, j)
    BY <2>1, OutBuys
  <2>3. AllPositive(amounts)
    OBVIOUS
  <2>4. SwapExactIn(World, caller, n, 0, path, to)
          = IF PathOk(World, path) /\ AllPositive(amounts) /\ amounts[Len(path)] >= 0
            THEN Swap(World, caller, n, amounts, path, to) ELSE {}
    BY DEF SwapExactIn, Swap
  <2> HIDE DEF amounts
  <2>5. amounts[1] = n /\ amounts[Len(path)] \in Nat
    <3>1. 1 \in 1 .. Len(path) /\ Len(path) \in 1 .. Len(path)
      BY <2>1 DEF PathOk
    <3>2. amounts[1] = n
      BY <2>2, <3>1 DEF IsOutUpTo
    <3> QED BY <2>2, <3>1, <3>2 DEF IsAmounts
  <2>9. CanPay(World.bal[path[1]], caller, PairFor(World, path, 1), amounts[1])
    BY <2>1, <2>5 DEF CanStart
  <2>6. Swap(World, caller, amounts[1], amounts, path, to) # {}
    BY <2>1, <2>2, <2>7, <2>8, <2>9, SwapAccepted
  <2> QED BY <2>1, <2>3, <2>4, <2>5, <2>6
<1> QED BY <1>1, InvHolds, PTL

\* The input the router computes for an output is enough for every hop of such a
\* route.
THEOREM InputsAreEnough == Spec => [](SmallCirculation => InputsSuffice)
<1>1. Inv => (SmallCirculation => InputsSuffice)
  <2> SUFFICES ASSUME Inv, NEW m \in Nat, Circulates(World, m),
                      NEW caller \in Users, NEW to \in Users, NEW n \in Amounts,
                      NEW path \in Routes,
                      AllPositive(AmountsIn(World, n, path)),
                      CanStart(caller, path, AmountsIn(World, n, path)[1])
               PROVE  SwapExactOut(World, caller, n, AmountsIn(World, n, path)[1], path, to) # {}
    BY DEF InputsSuffice, SmallCirculation
  <2> DEFINE amounts == AmountsIn(World, n, path)
  <2>1. /\ WorldOk(World) /\ World.bal = bal /\ n \in Int /\ to \in Address
        /\ path \in Seq(Tokens) /\ PathOk(World, path) /\ Simple(path)
        /\ \A j \in 1 .. Len(path) - 1 : Backed(PairFor(World, path, j))
    BY InputAssumption DEF Inv, World, Address, Routes
  <2>7. \A j \in 1 .. Len(path) - 1 : Covered(World, PairFor(World, path, j))
    BY <2>1 DEF Backed, Covered, World
  <2>2. /\ IsAmounts(amounts, path)
    BY <2>1, AmountsInFacts
  <2>8. \A j \in 1 .. Len(path) - 1 : Buys(World, amounts, path, j)
    BY <2>1, InBuys
  <2>3. /\ AllPositive(amounts)
        /\ CanPay(World.bal[path[1]], caller, PairFor(World, path, 1), amounts[1])
    BY <2>1 DEF CanStart
  <2>4. SwapExactOut(World, caller, n, amounts[1], path, to)
          = IF PathOk(World, path) /\ AllPositive(amounts) /\ amounts[1] <= amounts[1]
            THEN Swap(World, caller, amounts[1], amounts, path, to) ELSE {}
    BY DEF SwapExactOut, Swap
  <2> HIDE DEF amounts
  <2>5. amounts[1] \in Nat
    BY <2>1, <2>2 DEF PathOk, IsAmounts
  <2>6. Swap(World, caller, amounts[1], amounts, path, to) # {}
    BY <2>1, <2>2, <2>3, <2>7, <2>8, SwapAccepted
  <2> QED BY <2>1, <2>3, <2>4, <2>5, <2>6 DEF amounts
<1> QED BY <1>1, InvHolds, PTL

-----------------------------------------------------------------------------
(* Deposits do not pay. *)

\* The pair of two tokens in its own order.
LEMMA PairOfPool ==
  ASSUME NEW w, WorldOk(w), NEW p \in DOMAIN w.pool
  PROVE  /\ PairExists(w, w.pool[p].tokenX, w.pool[p].tokenY)
         /\ GetPair(w, w.pool[p].tokenX, w.pool[p].tokenY) = p
<1> DEFINE q == w.pool[p]
<1>1. q.tokenX < q.tokenY
  BY DEF WorldOk, PoolsOk, IsPool
<1>2. Sort(q.tokenX, q.tokenY) = TokensOf(q)
  BY <1>1 DEF Sort, TokensOf
<1>3. TokensOf(q) \in DOMAIN w.registry /\ w.registry[TokensOf(q)] = p
  BY DEF WorldOk, RegistryOk
<1> QED BY <1>2, <1>3 DEF PairExists, GetPair

\* A deposit that is withdrawn at once returns at most what it took, from a pair
\* whose reserves are its balances.
LEMMA RoundTrip ==
  ASSUME NEW w, WorldOk(w), NEW p \in DOMAIN w.pool, NEW caller \in Users,
         w.pool[p].supply = 0 => w.pool[p].reserveX = 0 /\ w.pool[p].reserveY = 0,
         w.pool[p].reserveX = w.bal[w.pool[p].tokenX][p],
         w.pool[p].reserveY = w.bal[w.pool[p].tokenY][p],
         NEW m \in Int, NEW n \in Int, NEW v \in PairAdd(w, p, caller, m, n, caller),
         NEW u \in PairRemove(v, p, caller, v.pool[p].lp[caller] - w.pool[p].lp[caller],
                              0, 0, caller)
  PROVE  /\ u.bal[w.pool[p].tokenX][caller] <= w.bal[w.pool[p].tokenX][caller]
         /\ u.bal[w.pool[p].tokenY][caller] <= w.bal[w.pool[p].tokenY][caller]
<1> DEFINE q == w.pool[p]
           s == v.pool[p]
           locked == IF q.supply = 0 THEN MinLiquidity ELSE 0
<1>1. PICK x \in Int, y \in Int, lp \in Nat :
        /\ <<x, y>> \in Settled(m, n, 0, 0, q.reserveX, q.reserveY)
        /\ IsDeposit(w, v, p, caller, caller, x, y, lp)
  BY PairAddResult DEF Address
<1>2. /\ lp > 0 /\ lp = Minted(x, y, q.reserveX, q.reserveY, q.supply)
      /\ PaidBoth(w, v, q, caller, p, x, y)
      /\ v.pool = [w.pool EXCEPT ![p] =
            [q EXCEPT !.supply = q.supply + locked + lp,
                      !.lp = Credited(q.lp, caller, lp),
                      !.reserveX = v.bal[q.tokenX][p],
                      !.reserveY = v.bal[q.tokenY][p]]]
  BY <1>1 DEF IsDeposit
<1>3. /\ IsPool(q) /\ q.tokenX \in Tokens /\ q.tokenY \in Tokens
      /\ q.reserveX \in Int /\ q.reserveY \in Int /\ q.supply \in Nat
      /\ p \in Address /\ caller # p /\ caller \in Address
  BY PairFacts DEF Address
<1>4. /\ s.supply = q.supply + locked + lp /\ s.lp = Credited(q.lp, caller, lp)
      /\ s.reserveX = v.bal[q.tokenX][p] /\ s.reserveY = v.bal[q.tokenY][p]
      /\ s.tokenX = q.tokenX /\ s.tokenY = q.tokenY
  <2> HIDE DEF locked, q
  <2>1. s = [q EXCEPT !.supply = q.supply + locked + lp, !.lp = Credited(q.lp, caller, lp),
                      !.reserveX = v.bal[q.tokenX][p], !.reserveY = v.bal[q.tokenY][p]]
    BY <1>2
  <2> HIDE DEF s
  <2> QED BY <1>3, <2>1 DEF IsPool
<1>5. s.lp[caller] - q.lp[caller] = lp
  <2>1. q.lp \in [Address -> Nat]
    BY <1>3 DEF IsPool
  <2> HIDE DEF q, s
  <2> QED BY <1>3, <1>4, <2>1 DEF Credited
<1>6. WorldOk(v) /\ p \in DOMAIN v.pool
  <2>1. WorldOk(v) /\ OnlyPool(w, v, p)
    BY <1>3, PairAddStep
  <2> QED BY <2>1 DEF OnlyPool
<1>7. IsWithdrawal(v, u, p, caller, caller, lp)
  <2>1. u \in PairRemove(v, p, caller, lp, 0, 0, caller) /\ lp \in Int
    BY <1>5
  <2> HIDE DEF q, s
  <2> QED BY <1>3, <1>6, <2>1, PairRemoveResult
<1> DEFINE xs == ShareOf(lp, s.reserveX, s.supply)
           ys == ShareOf(lp, s.reserveY, s.supply)
<1>8. PaidBoth(v, u, s, p, caller, xs, ys) /\ xs > 0 /\ ys > 0
  BY <1>7 DEF IsWithdrawal
<1>9. /\ w.bal[q.tokenX][caller] \in Int /\ w.bal[q.tokenY][caller] \in Int
      /\ w.bal[q.tokenX][p] = q.reserveX /\ w.bal[q.tokenY][p] = q.reserveY
      /\ q.supply = 0 => q.reserveX = 0 /\ q.reserveY = 0
  BY <1>3 DEF WorldOk, LedgersOk
<1> HIDE DEF q, s
<1>10. /\ v.bal[q.tokenX][caller] = w.bal[q.tokenX][caller] - x
       /\ v.bal[q.tokenY][caller] = w.bal[q.tokenY][caller] - y
       /\ s.reserveX = q.reserveX + x /\ s.reserveY = q.reserveY + y
  BY <1>2, <1>3, <1>4, <1>9 DEF PaidBoth
<1>a. s.supply \in Nat \ {0} /\ s.reserveX \in Int /\ s.reserveY \in Int
  <2>1. IsPool(s)
    BY <1>6, PairFacts DEF s
  <2>2. locked \in Nat
    BY MinLiquidityAssumption
  <2> HIDE DEF locked
  <2> QED BY <1>2, <1>3, <1>4, <2>1, <2>2 DEF IsPool
<1>b. s.reserveX > 0 /\ s.reserveY > 0
  <2>1. xs > 0 => s.reserveX > 0
    BY <1>a, ShareNumber
  <2>2. ys > 0 => s.reserveY > 0
    BY <1>a, ShareNumber
  <2> QED BY <1>8, <2>1, <2>2
<1>c. /\ x \in Nat /\ y \in Nat /\ q.reserveX \in Nat /\ q.reserveY \in Nat
      /\ q.reserveX = 0 <=> q.reserveY = 0
  <2>1. CASE q.reserveX = 0 /\ q.reserveY = 0
    BY <1>10, <1>b, <2>1
  <2>2. CASE q.reserveX # 0 \/ q.reserveY # 0
    <3> DEFINE a == <<x, y>>
    <3>1. a \in Settled(m, n, 0, 0, q.reserveX, q.reserveY)
      BY <1>1
    <3>2. a[1] = x /\ a[2] = y
      OBVIOUS
    <3> HIDE DEF a
    <3>3. q.reserveX # 0 \/ q.reserveY # 0
            => a[1] >= 0 /\ a[2] >= 0 /\ q.reserveX > 0 /\ q.reserveY > 0
      <4>1. q.reserveX \in Int /\ q.reserveY \in Int /\ m \in Int /\ n \in Int /\ 0 \in Int
        BY <1>3
      <4> QED BY <3>1, <4>1, SettledNumber
    <3> QED BY <1>3, <2>2, <3>2, <3>3
  <2> QED BY <2>1, <2>2
<1>11. xs \in Nat /\ xs <= x /\ ys \in Nat /\ ys <= y
  <2>1. lp * q.reserveX <= x * q.supply /\ lp * q.reserveY <= y * q.supply
    BY <1>2, <1>3, <1>9, <1>c, MintedWithinShares
  <2>2. s.supply \in Nat /\ s.supply >= q.supply + lp /\ lp \in Nat \ {0}
    <3>1. locked \in Nat /\ lp > 0
      BY <1>2, MinLiquidityAssumption
    <3>2. s.supply = q.supply + locked + lp /\ q.supply \in Nat
      BY <1>3, <1>4
    <3> HIDE DEF locked
    <3> QED BY <3>1, <3>2
  <2>3. /\ ShareOf(lp, q.reserveX + x, s.supply) \in Nat
        /\ ShareOf(lp, q.reserveX + x, s.supply) <= x
    BY <1>3, <1>c, <2>1, <2>2, RoundTripSide
  <2>4. /\ ShareOf(lp, q.reserveY + y, s.supply) \in Nat
        /\ ShareOf(lp, q.reserveY + y, s.supply) <= y
    BY <1>3, <1>c, <2>1, <2>2, RoundTripSide
  <2> QED BY <1>10, <2>3, <2>4
<1>12. /\ u.bal[q.tokenX][caller] = v.bal[q.tokenX][caller] + xs
       /\ u.bal[q.tokenY][caller] = v.bal[q.tokenY][caller] + ys
  <2> HIDE DEF xs, ys
  <2>1. v.bal[q.tokenX][caller] \in Int /\ v.bal[q.tokenY][caller] \in Int
    BY <1>3, <1>6 DEF WorldOk, LedgersOk
  <2> HIDE DEF locked
  <2>2. /\ u.bal[s.tokenX][caller] = v.bal[s.tokenX][caller] - (IF caller = p THEN xs ELSE 0)
                                       + (IF caller = caller THEN xs ELSE 0)
        /\ u.bal[s.tokenY][caller] = v.bal[s.tokenY][caller] - (IF caller = p THEN ys ELSE 0)
                                       + (IF caller = caller THEN ys ELSE 0)
    BY <1>3, <1>8 DEF PaidBoth
  <2>3. caller # p /\ s.tokenX = q.tokenX /\ s.tokenY = q.tokenY
    BY <1>3, <1>4
  <2>4. xs \in Nat /\ ys \in Nat
    BY <1>11
  <2> QED BY <2>1, <2>2, <2>3, <2>4
<1> HIDE DEF xs, ys
<1> QED BY <1>9, <1>10, <1>11, <1>12 DEF q

\* Depositing through the router and withdrawing at once does not pay.
THEOREM DepositsNeverPay == Spec => []DepositsDoNotPay
<1>1. Inv => DepositsDoNotPay
  <2> SUFFICES ASSUME Inv, NEW caller \in Users, NEW m \in Deposits, NEW n \in Deposits,
                      NEW p \in {q \in DOMAIN pool : Undonated(q)},
                      NEW v \in RouterAdd(World, caller, pool[p].tokenX, pool[p].tokenY,
                                          m, n, 0, 0, caller),
                      NEW u \in RouterRemove(v, caller, pool[p].tokenX, pool[p].tokenY,
                                             v.pool[p].lp[caller] - pool[p].lp[caller],
                                             0, 0, caller)
               PROVE  /\ u.bal[pool[p].tokenX][caller] <= bal[pool[p].tokenX][caller]
                      /\ u.bal[pool[p].tokenY][caller] <= bal[pool[p].tokenY][caller]
    BY DEF DepositsDoNotPay
  <2> DEFINE a == pool[p].tokenX
             b == pool[p].tokenY
             w == World
  <2>1. /\ WorldOk(w) /\ w.pool = pool /\ w.bal = bal /\ p \in DOMAIN w.pool
        /\ a \in Tokens /\ b \in Tokens /\ m \in Int /\ n \in Int /\ caller \in Address
        /\ Undonated(p)
    <3>1. WorldOk(w) /\ w.pool = pool /\ w.bal = bal /\ p \in DOMAIN w.pool
      BY DEF Inv, World
    <3>2. a \in Tokens /\ b \in Tokens
      BY <3>1, PairFacts
    <3> QED BY <3>1, <3>2, InputAssumption DEF Address
  <2>2. PairExists(w, a, b) /\ GetPair(w, a, b) = p /\ w.pool[p].tokenX = a
    BY <2>1, PairOfPool
  <2> HIDE DEF w
  <2>3. PICK s \in Settled(m, n, 0, 0, ReservesOf(w, a, b)[1], ReservesOf(w, a, b)[2]) :
          v \in PairAdd(w, p, caller, s[1], s[2], caller)
    BY <2>2 DEF RouterAdd, After, w
  <2>4. PICK x \in Int, y \in Int : s = <<x, y>>
    <3>1. ReservesOf(w, a, b)[1] \in Int /\ ReservesOf(w, a, b)[2] \in Int
      BY <2>1, <2>2, ReservesTyped
    <3> QED BY <2>1, <2>3, <3>1, SettledAmounts
  <2>5. v \in PairAdd(w, p, caller, x, y, caller)
    BY <2>3, <2>4
  <2>6. /\ v.registry = w.registry /\ v.pool[p].tokenX = a
        /\ PairExists(v, a, b) /\ GetPair(v, a, b) = p
    <3>1. OnlyPool(w, v, p)
      BY <2>1, <2>5, PairAddStep
    <3> QED BY <2>2, <3>1 DEF OnlyPool, TokensOf, PairExists, GetPair
  <2>7. u \in PairRemove(v, p, caller, v.pool[p].lp[caller] - w.pool[p].lp[caller], 0, 0, caller)
    BY <2>1, <2>6 DEF RouterRemove
  <2>8. /\ w.pool[p].supply = 0 => w.pool[p].reserveX = 0 /\ w.pool[p].reserveY = 0
        /\ w.pool[p].reserveX = w.bal[w.pool[p].tokenX][p]
        /\ w.pool[p].reserveY = w.bal[w.pool[p].tokenY][p]
    BY <2>1 DEF Undonated
  <2> QED BY <2>1, <2>5, <2>7, <2>8, RoundTrip
<1> QED BY <1>1, InvHolds, PTL

-----------------------------------------------------------------------------
(* The dialogs of the client. *)

\* A withdrawal pays the caller the share of each reserve that its units are.
LEMMA WithdrawalPays ==
  ASSUME NEW w, WorldOk(w), NEW p \in DOMAIN w.pool, NEW caller \in Users, NEW n \in Nat,
         NEW v \in RouterRemove(w, caller, w.pool[p].tokenX, w.pool[p].tokenY, n, 0, 0, caller)
  PROVE  LET q == w.pool[p]
             x == ShareOf(n, q.reserveX, q.supply)
             y == ShareOf(n, q.reserveY, q.supply)
         IN  /\ q.supply # 0 /\ x \in Nat /\ y \in Nat
             /\ q.reserveX \in Nat /\ q.reserveY \in Nat
             /\ v.bal[q.tokenX][caller] - w.bal[q.tokenX][caller] = x
             /\ v.bal[q.tokenY][caller] - w.bal[q.tokenY][caller] = y
<1> DEFINE q == w.pool[p]
           x == ShareOf(n, q.reserveX, q.supply)
           y == ShareOf(n, q.reserveY, q.supply)
<1>1. v \in PairRemove(w, p, caller, n, 0, 0, caller)
  BY PairOfPool DEF RouterRemove
<1>2. /\ q.tokenX \in Tokens /\ q.tokenY \in Tokens /\ q.supply \in Nat
      /\ q.reserveX \in Int /\ q.reserveY \in Int
      /\ p \in Address /\ caller # p /\ caller \in Address
  BY PairFacts DEF Address
<1>3. IsWithdrawal(w, v, p, caller, caller, n)
  BY <1>1, <1>2, PairRemoveResult
<1>4. q.supply # 0 /\ x > 0 /\ y > 0 /\ PaidBoth(w, v, q, p, caller, x, y)
  BY <1>3 DEF IsWithdrawal
<1>5. x \in Nat /\ y \in Nat /\ q.reserveX \in Nat /\ q.reserveY \in Nat
  <2>1. q.supply \in Nat \ {0}
    BY <1>2, <1>4
  <2> HIDE DEF q
  <2>2. x \in Int /\ (x > 0 => q.reserveX > 0)
    BY <1>2, <2>1, ShareNumber
  <2>3. y \in Int /\ (y > 0 => q.reserveY > 0)
    BY <1>2, <2>1, ShareNumber
  <2> HIDE DEF x, y
  <2> QED BY <1>2, <1>4, <2>2, <2>3
<1>6. w.bal[q.tokenX][caller] \in Int /\ w.bal[q.tokenY][caller] \in Int
  BY <1>2 DEF WorldOk, LedgersOk
<1> HIDE DEF q, x, y
<1>7. /\ v.bal[q.tokenX][caller] = w.bal[q.tokenX][caller] + x
      /\ v.bal[q.tokenY][caller] = w.bal[q.tokenY][caller] + y
  BY <1>2, <1>4, <1>5, <1>6 DEF PaidBoth
<1>8. /\ v.bal[q.tokenX][caller] - w.bal[q.tokenX][caller] = x
      /\ v.bal[q.tokenY][caller] - w.bal[q.tokenY][caller] = y
  BY <1>5, <1>6, <1>7
<1> QED BY <1>4, <1>5, <1>8 DEF q, x, y

\* After a trade, a withdrawal of the same units is worth what it was.
LEMMA WithdrawalWorth ==
  ASSUME NEW w, WorldOk(w), NEW z, WorldOk(z), Traded(w, z), NEW p \in DOMAIN w.pool,
         NEW caller \in Users, NEW n \in Nat,
         NEW v \in RouterRemove(z, caller, w.pool[p].tokenX, w.pool[p].tokenY, n, 0, 0, caller)
  PROVE  LET q == w.pool[p]
         IN  (v.bal[q.tokenX][caller] - z.bal[q.tokenX][caller] + 1)
               * (v.bal[q.tokenY][caller] - z.bal[q.tokenY][caller] + 1)
               >= ShareOf(n, q.reserveX, q.supply) * ShareOf(n, q.reserveY, q.supply)
<1> DEFINE q == w.pool[p]
           r == z.pool[p]
           x == ShareOf(n, r.reserveX, r.supply)
           y == ShareOf(n, r.reserveY, r.supply)
<1>1. /\ p \in DOMAIN z.pool /\ TokensOf(r) = TokensOf(q)
      /\ SameStock(q, r) \/ Trades(q, r)
  BY DEF Traded
<1>2. r.tokenX = q.tokenX /\ r.tokenY = q.tokenY
  BY <1>1 DEF TokensOf
<1>3. v \in RouterRemove(z, caller, r.tokenX, r.tokenY, n, 0, 0, caller)
  BY <1>2
<1>4. /\ r.supply # 0 /\ x \in Nat /\ y \in Nat
      /\ r.reserveX \in Nat /\ r.reserveY \in Nat
      /\ v.bal[r.tokenX][caller] - z.bal[r.tokenX][caller] = x
      /\ v.bal[r.tokenY][caller] - z.bal[r.tokenY][caller] = y
  <2> HIDE DEF q
  <2> QED BY <1>1, <1>3, WithdrawalPays
<1>5. /\ q.reserveX \in Int /\ q.reserveY \in Int /\ q.supply \in Nat
      /\ r.reserveX \in Int /\ r.reserveY \in Int /\ r.supply \in Nat
  BY <1>1, PairFacts
<1>6. r.supply = q.supply /\ r.reserveX * r.reserveY >= q.reserveX * q.reserveY
  <2> HIDE DEF q, r
  <2>1. q.reserveX * q.reserveY \in Int
    BY <1>5
  <2> QED BY <1>1, <2>1 DEF SameStock, Trades
<1>7. (x + 1) * (y + 1) >= ShareOf(n, q.reserveX, q.supply) * ShareOf(n, q.reserveY, q.supply)
  <2>1. q.supply \in Nat \ {0} /\ r.supply = q.supply
    BY <1>4, <1>5, <1>6
  <2> HIDE DEF q, r
  <2> QED BY <1>4, <1>5, <1>6, <2>1, WorthKeptFromAny
<1> HIDE DEF x, y
<1> QED BY <1>2, <1>4, <1>7

\* A withdrawal pays what was shown; after a trade, what that was worth.
THEOREM WithdrawalsAreWorthWhatIsShown == Spec => []WithdrawalsKeepWorth
<1>1. Inv => WithdrawalsKeepWorth
  <2> SUFFICES ASSUME Inv, NEW caller \in Users, NEW pct \in Percents, NEW p \in DOMAIN pool
               PROVE  LET liquidity == Position(caller, pct, p)
                          shown     == ShownOut(liquidity, p)
                          a         == pool[p].tokenX
                          b         == pool[p].tokenY
                          trades    == UNION {SwapExactIn(World, trader, n, 0, path, trader) :
                                                trader \in Users, n \in Amounts,
                                                path \in {<<a, b>>, <<b, a>>}}
                      IN  /\ \A v \in DialogWithdrawal(World, caller, liquidity, p) :
                               /\ v.bal[a][caller] - bal[a][caller] = shown[1]
                               /\ v.bal[b][caller] - bal[b][caller] = shown[2]
                          /\ \A w \in trades : \A v \in DialogWithdrawal(w, caller, liquidity, p) :
                               (v.bal[a][caller] - w.bal[a][caller] + 1)
                                 * (v.bal[b][caller] - w.bal[b][caller] + 1)
                                 >= shown[1] * shown[2]
    BY DEF WithdrawalsKeepWorth
  <2> DEFINE n == Position(caller, pct, p)
             q == pool[p]
             x == ShareOf(n, q.reserveX, q.supply)
             y == ShareOf(n, q.reserveY, q.supply)
             w == World
  <2>1. /\ WorldOk(w) /\ w.pool = pool /\ w.bal = bal /\ p \in DOMAIN w.pool
        /\ q = w.pool[p] /\ q.tokenX \in Tokens /\ q.tokenY \in Tokens
    <3>1. WorldOk(w) /\ w.pool = pool /\ w.bal = bal /\ p \in DOMAIN w.pool
      BY DEF Inv, World
    <3> QED BY <3>1, PairFacts
  <2>2. n \in Nat
    <3>1. q.lp[caller] \in Nat /\ pct \in Nat
      <4>1. q.lp \in [Address -> Nat]
        BY <2>1 DEF WorldOk, PoolsOk, IsPool
      <4> QED BY <4>1, ClientAssumption DEF Address
    <3>2. q.lp[caller] * pct \in Nat
      BY <3>1
    <3> QED BY <3>2, DivFloor DEF Position
  <2>3. q.supply # 0 => ShownOut(n, p) = <<x, y>>
    BY DEF ShownOut, ShareOf
  <2>4. q.supply = 0 => ShownOut(n, p) = <<0, 0>>
    BY DEF ShownOut
  <2>5. \A z, v : v \in DialogWithdrawal(z, caller, n, p) =>
          v \in RouterRemove(z, caller, q.tokenX, q.tokenY, n, 0, 0, caller)
    BY DEF DialogWithdrawal
  <2> HIDE DEF n, w
  <2>6. ASSUME NEW v \in DialogWithdrawal(w, caller, n, p)
        PROVE  /\ v.bal[q.tokenX][caller] - w.bal[q.tokenX][caller] = ShownOut(n, p)[1]
               /\ v.bal[q.tokenY][caller] - w.bal[q.tokenY][caller] = ShownOut(n, p)[2]
    <3>1. /\ q.supply # 0
          /\ v.bal[q.tokenX][caller] - w.bal[q.tokenX][caller] = x
          /\ v.bal[q.tokenY][caller] - w.bal[q.tokenY][caller] = y
      BY <2>1, <2>2, <2>5, <2>6, WithdrawalPays
    <3> QED BY <2>3, <3>1
  <2>7. ASSUME NEW trader \in Users, NEW m \in Amounts,
               NEW path \in {<<q.tokenX, q.tokenY>>, <<q.tokenY, q.tokenX>>},
               NEW z \in SwapExactIn(w, trader, m, 0, path, trader),
               NEW v \in DialogWithdrawal(z, caller, n, p)
        PROVE  (v.bal[q.tokenX][caller] - z.bal[q.tokenX][caller] + 1)
                 * (v.bal[q.tokenY][caller] - z.bal[q.tokenY][caller] + 1)
                 >= ShownOut(n, p)[1] * ShownOut(n, p)[2]
    <3>1. path \in Seq(Tokens) /\ m \in Int /\ trader \in Address
      <4>1. q.tokenX \in Tokens /\ q.tokenY \in Tokens
        BY <2>1
      <4> HIDE DEF q
      <4>2. <<q.tokenX, q.tokenY>> \in Seq(Tokens) /\ <<q.tokenY, q.tokenX>> \in Seq(Tokens)
        BY <4>1
      <4>3. m \in Int /\ trader \in Address
        BY InputAssumption DEF Address
      <4> QED BY <4>2, <4>3
    <3>2. WorldOk(z) /\ Traded(w, z)
      BY <2>1, <3>1, SwapExactInStep
    <3>3. v \in RouterRemove(z, caller, q.tokenX, q.tokenY, n, 0, 0, caller)
      BY <2>5, <2>7
    <3>4. (v.bal[q.tokenX][caller] - z.bal[q.tokenX][caller] + 1)
            * (v.bal[q.tokenY][caller] - z.bal[q.tokenY][caller] + 1) >= x * y
      BY <2>1, <2>2, <3>2, <3>3, WithdrawalWorth
    <3>5. q.supply # 0
      <4>1. z.pool[p].supply # 0 /\ z.pool[p].supply = q.supply
        <5>1. p \in DOMAIN z.pool /\ TokensOf(z.pool[p]) = TokensOf(q) /\ z.pool[p].supply = q.supply
          BY <2>1, <3>2 DEF Traded, SameStock, Trades
        <5>2. v \in RouterRemove(z, caller, z.pool[p].tokenX, z.pool[p].tokenY, n, 0, 0, caller)
          BY <3>3, <5>1 DEF TokensOf
        <5> QED BY <2>2, <3>2, <5>1, <5>2, WithdrawalPays
      <4> QED BY <4>1
    <3> QED BY <2>3, <3>4, <3>5
  <2> HIDE DEF q, x, y
  <2> QED BY <2>1, <2>6, <2>7 DEF n, w, q
<1> QED BY <1>1, InvHolds, PTL

-----------------------------------------------------------------------------
(* The quotes of the client. *)

(* What is asked for and what the pairs record is at most k, and with k no *)
(* product of a pair's check overflows.                                    *)
Recorded(k) ==
  /\ k \in Nat /\ (k * FeeDen) * (k * FeeDen) <= MaxInt
  /\ \A n \in Amounts : n <= k
  /\ \A p \in DOMAIN pool : pool[p].reserveX <= k /\ pool[p].reserveY <= k

\* A BigInt does not overflow, an i128 does: up to such a bound the router's
\* formulas do not.
LEMMA OutputFits ==
  ASSUME NEW T \in Nat, (T * FeeDen) * (T * FeeDen) <= MaxInt, FeeDen > 1,
         NEW in \in Nat \ {0}, NEW rIn \in Nat \ {0}, NEW rOut \in Nat \ {0},
         in <= T, rIn <= T, rOut <= T
  PROVE  GetAmountOutOk(in, rIn, rOut)
<1> DEFINE M == T * FeeDen
<1>1. /\ FeeNum \in Nat \ {0} /\ FeeDen \in Nat \ {0} /\ FeeNum <= FeeDen /\ FeeDen > 1
      /\ T \in Nat \ {0} /\ M * M <= MaxInt /\ MaxInt \in Nat
  BY FeeAssumption, MaxIntAssumption
<1>2. in <= T /\ rIn <= T /\ rOut <= T
  OBVIOUS
<1>3. M \in Nat /\ M >= 2 /\ T <= M
  <2>1. 1 * 2 <= T * FeeDen /\ T * 1 <= T * FeeDen
    BY <1>1, ProductMonotone
  <2> QED BY <1>1, <2>1
<1>4. in * FeeNum \in Nat /\ in * FeeNum <= M /\ rIn * FeeDen \in Nat /\ rIn * FeeDen <= M
  BY <1>1, <1>2, ProductMonotone
<1> HIDE DEF M
<1>5. in * FeeNum * rOut <= M * M
  <2>1. rOut <= M
    BY <1>1, <1>2, <1>3
  <2> QED BY <1>3, <1>4, <2>1, ProductMonotone
<1>6. rIn * FeeDen + in * FeeNum <= M * M
  <2>1. 2 * M <= M * M
    BY <1>3, ProductMonotone
  <2>2. M * M \in Nat
    BY <1>3
  <2> QED BY <1>3, <1>4, <2>1, <2>2
<1>7. in * FeeNum * rOut \in Nat /\ M * M \in Nat /\ rIn * FeeDen + in * FeeNum \in Nat
  BY <1>3, <1>4
<1> DEFINE e == in * FeeNum * rOut
           f == rIn * FeeDen + in * FeeNum
<1>8. e \in Nat /\ f \in Nat /\ e <= MaxInt /\ f <= MaxInt
  BY <1>1, <1>5, <1>6, <1>7
<1> HIDE DEF e, f
<1>9. Fits(e) /\ Fits(f)
  BY <1>1, <1>8 DEF Fits
<1> QED BY <1>9 DEF GetAmountOutOk, e, f

\* The same for the other direction.
LEMMA InputFits ==
  ASSUME NEW T \in Nat, (T * FeeDen) * (T * FeeDen) <= MaxInt, FeeDen > 1,
         NEW out \in Nat \ {0}, NEW rIn \in Nat \ {0}, NEW rOut \in Nat \ {0},
         out < rOut, rIn <= T, rOut <= T
  PROVE  GetAmountInOk(out, rIn, rOut)
<1> DEFINE M == T * FeeDen
<1>1. /\ FeeNum \in Nat \ {0} /\ FeeDen \in Nat \ {0} /\ FeeNum <= FeeDen
      /\ T \in Nat \ {0} /\ M * M <= MaxInt /\ MaxInt \in Nat
  BY FeeAssumption, MaxIntAssumption
<1>2. out <= T /\ rIn <= T /\ rOut - out <= T /\ rOut - out \in Nat
  BY <1>1
<1>3. M \in Nat /\ M >= 1 /\ T <= M
  <2>1. 1 * 1 <= T * FeeDen /\ T * 1 <= T * FeeDen
    BY <1>1, ProductMonotone
  <2> QED BY <1>1, <2>1
<1>4. /\ out * FeeDen \in Nat /\ out * FeeDen <= M
      /\ (rOut - out) * FeeNum \in Nat /\ (rOut - out) * FeeNum <= M
  <2> DEFINE d == rOut - out
  <2>1. d \in Nat /\ d <= T
    BY <1>2
  <2> HIDE DEF d
  <2>2. out * FeeDen <= T * FeeDen /\ d * FeeNum <= T * FeeDen
    BY <1>1, <1>2, <2>1, ProductMonotone
  <2>3. out * FeeDen \in Nat /\ d * FeeNum \in Nat
    BY <1>1, <2>1
  <2> QED BY <2>2, <2>3 DEF d
<1> HIDE DEF M
<1>5. rIn * out * FeeDen <= M * M
  <2>1. rIn <= M
    BY <1>1, <1>2, <1>3
  <2>2. rIn * (out * FeeDen) <= M * M
    BY <1>3, <1>4, <2>1, ProductMonotone
  <2>3. rIn * (out * FeeDen) = rIn * out * FeeDen
    BY <1>1
  <2> QED BY <2>2, <2>3
<1>6. (rOut - out) * FeeNum <= M * M
  <2>1. M * 1 <= M * M
    BY <1>3, ProductMonotone
  <2> DEFINE e == (rOut - out) * FeeNum
             f == M * M
  <2>2. e \in Nat /\ e <= M /\ M <= f /\ f \in Nat
    BY <1>3, <1>4, <2>1
  <2> HIDE DEF e, f
  <2>3. e <= f
    BY <1>3, <2>2
  <2> QED BY <2>3 DEF e, f
<1> DEFINE e == (rOut - out) * FeeNum
           f == M * M
           g == rIn * out * FeeDen
<1>7. e \in Nat /\ e <= f /\ f \in Nat /\ g \in Nat /\ g <= f /\ f <= MaxInt
  BY <1>1, <1>3, <1>4, <1>5, <1>6
<1> HIDE DEF e, f, g
<1>8. e <= MaxInt /\ g <= MaxInt
  BY <1>1, <1>7
<1>9. Fits(e) /\ Fits(g)
  BY <1>1, <1>7, <1>8 DEF Fits
<1> QED BY <1>9 DEF GetAmountInOk, e, g

\* A row of the client's list is what the registry names.
LEMMA RowIsPair ==
  ASSUME WorldOk(World), NEW a \in Tokens, NEW b \in Tokens
  PROVE  /\ PairExists(World, a, b) <=> HasRow(a, b)
         /\ PairExists(World, a, b) => Row(a, b) = GetPair(World, a, b)
         /\ PairExists(World, a, b) => ReservesFor(a, b) = ReservesOf(World, a, b)
<1> DEFINE w == World
<1>1. WorldOk(w) /\ w.pool = pool
  BY DEF World
<1>2. ASSUME NEW p \in DOMAIN pool, {pool[p].tokenX, pool[p].tokenY} = {a, b}
      PROVE  PairExists(w, a, b) /\ p = GetPair(w, a, b)
  <2> DEFINE q == w.pool[p]
  <2> HIDE DEF w
  <2>1. /\ PairExists(w, q.tokenX, q.tokenY) /\ GetPair(w, q.tokenX, q.tokenY) = p
        /\ q.tokenX \in Tokens /\ q.tokenY \in Tokens
    BY <1>1, <1>2, PairOfPool, PairFacts
  <2>2. \/ q.tokenX = a /\ q.tokenY = b
        \/ q.tokenX = b /\ q.tokenY = a
    BY <1>1, <1>2
  <2> HIDE DEF q
  <2> QED BY <1>1, <2>1, <2>2, PairOfTokens
<1>3. ASSUME PairExists(w, a, b)
      PROVE  /\ GetPair(w, a, b) \in DOMAIN pool
             /\ {pool[GetPair(w, a, b)].tokenX, pool[GetPair(w, a, b)].tokenY} = {a, b}
  <2> HIDE DEF w
  <2> QED BY <1>1, <1>3, PairOfTokens
<1> HIDE DEF w
<1>4. PairExists(w, a, b) <=> HasRow(a, b)
  BY <1>2, <1>3 DEF HasRow
<1>5. PairExists(w, a, b) => Row(a, b) = GetPair(w, a, b)
  BY <1>2, <1>3 DEF Row
<1>6. PairExists(w, a, b) => ReservesFor(a, b) = ReservesOf(w, a, b)
  BY <1>1, <1>5 DEF ReservesFor, ReservesOf
<1> QED BY <1>4, <1>5, <1>6 DEF w

\* The reserves a pair answers with are those it records.
LEMMA ReservesRecorded ==
  ASSUME WorldOk(World), NEW a \in Tokens, NEW b \in Tokens, PairExists(World, a, b),
         NEW k, Recorded(k)
  PROVE  LET r == ReservesOf(World, a, b)
         IN  r[1] \in Int /\ r[2] \in Int /\ r[1] <= k /\ r[2] <= k
<1> DEFINE w == World
           p == GetPair(w, a, b)
           q == w.pool[p]
<1>1. WorldOk(w) /\ w.pool = pool /\ PairExists(w, a, b)
  BY DEF World
<1> HIDE DEF w
<1>2. p \in DOMAIN w.pool
  BY <1>1, PairOfTokens
<1>3. q.reserveX \in Int /\ q.reserveY \in Int
  BY <1>1, <1>2, PairFacts
<1>4. q.reserveX <= k /\ q.reserveY <= k
  BY <1>1, <1>2 DEF Recorded
<1> HIDE DEF p, q
<1>5. ReservesOf(w, a, b) = <<q.reserveX, q.reserveY>> \/ ReservesOf(w, a, b) = <<q.reserveY, q.reserveX>>
  BY DEF ReservesOf, p, q
<1> QED BY <1>3, <1>4, <1>5 DEF w

\* For every hop the client computes what the router computes, and what comes out
\* is again within the bound.
LEMMA ClientHop ==
  ASSUME NEW T, Recorded(T), FeeDen > 1, WorldOk(World), NEW path \in Seq(Tokens),
         PathOk(World, path), NEW i \in 1 .. Len(path) - 1, NEW n \in Int
  PROVE  /\ n <= T =>
              OutputFor(World, path, n, i + 1) = OutFor(n, ReservesFor(path[i], path[i + 1]))
         /\ OutputFor(World, path, n, i + 1) \in Int /\ OutputFor(World, path, n, i + 1) <= T
         /\ InputFor(World, path, n, i) = InFor(n, ReservesFor(path[i], path[i + 1]))
         /\ InputFor(World, path, n, i) \in Int
<1> DEFINE w == World
           r == ReservesOf(w, path[i], path[i + 1])
<1>1. WorldOk(w) /\ PathOk(w, path) /\ i + 1 - 1 = i
  OBVIOUS
<1>2. /\ r = ReservesFor(path[i], path[i + 1]) /\ r[1] \in Int /\ r[2] \in Int /\ T \in Nat
      /\ r[1] <= T /\ r[2] <= T /\ (T * FeeDen) * (T * FeeDen) <= MaxInt
  <2>1. PairExists(w, path[i], path[i + 1]) /\ path[i] \in Tokens /\ path[i + 1] \in Tokens
    <3> HIDE DEF w
    <3> QED BY <1>1, PathFacts
  <2>2. r = ReservesFor(path[i], path[i + 1])
    BY <2>1, RowIsPair
  <2>3. r[1] \in Int /\ r[2] \in Int /\ r[1] <= T /\ r[2] <= T
    BY <1>1, <2>1, ReservesRecorded
  <2>4. T \in Nat /\ (T * FeeDen) * (T * FeeDen) <= MaxInt
    BY DEF Recorded
  <2> HIDE DEF w, r
  <2> QED BY <2>2, <2>3, <2>4
<1>3. OutputFor(w, path, n, i + 1)
        = IF GetAmountOutOk(n, r[1], r[2]) THEN GetAmountOut(n, r[1], r[2]) ELSE 0
  BY <1>1 DEF OutputFor
<1>4. InputFor(w, path, n, i)
        = IF GetAmountInOk(n, r[1], r[2]) THEN GetAmountIn(n, r[1], r[2]) ELSE 0
  BY DEF InputFor
<1> HIDE DEF w, r
<1>5. ASSUME n <= T PROVE OutputFor(w, path, n, i + 1) = OutFor(n, r)
  <2>1. n > 0 /\ r[1] > 0 /\ r[2] > 0 => GetAmountOutOk(n, r[1], r[2])
    <3> SUFFICES ASSUME n > 0, r[1] > 0, r[2] > 0 PROVE GetAmountOutOk(n, r[1], r[2])
      OBVIOUS
    <3>1. n \in Nat \ {0} /\ r[1] \in Nat \ {0} /\ r[2] \in Nat \ {0}
      BY <1>2
    <3> QED BY <1>2, <1>5, <3>1, OutputFits
  <2>2. GetAmountOutOk(n, r[1], r[2]) => n > 0 /\ r[1] > 0 /\ r[2] > 0
    BY DEF GetAmountOutOk
  <2> QED BY <1>3, <2>1, <2>2 DEF OutFor, GetAmountOut
<1>6. OutputFor(w, path, n, i + 1) \in Int /\ OutputFor(w, path, n, i + 1) <= T
  <2>1. CASE GetAmountOutOk(n, r[1], r[2])
    <3>1. n \in Nat \ {0} /\ r[1] \in Nat \ {0} /\ r[2] \in Nat \ {0}
      BY <1>2, <2>1 DEF GetAmountOutOk
    <3>2. GetAmountOut(n, r[1], r[2]) \in Nat /\ GetAmountOut(n, r[1], r[2]) < r[2]
      BY <3>1, OutNumber
    <3> QED BY <1>2, <1>3, <2>1, <3>2
  <2>2. CASE ~GetAmountOutOk(n, r[1], r[2])
    BY <1>2, <1>3, <2>2
  <2> QED BY <2>1, <2>2
<1>7. InputFor(w, path, n, i) = InFor(n, r) /\ InputFor(w, path, n, i) \in Int
  <2>1. 0 < n /\ n < r[2] /\ r[1] > 0 => GetAmountInOk(n, r[1], r[2])
    <3> SUFFICES ASSUME 0 < n, n < r[2], r[1] > 0 PROVE GetAmountInOk(n, r[1], r[2])
      OBVIOUS
    <3>1. n \in Nat \ {0} /\ r[1] \in Nat \ {0} /\ r[2] \in Nat \ {0}
      BY <1>2
    <3> QED BY <1>2, <3>1, InputFits
  <2>2. GetAmountInOk(n, r[1], r[2]) => 0 < n /\ n < r[2] /\ r[1] > 0
    BY DEF GetAmountInOk
  <2>3. GetAmountInOk(n, r[1], r[2]) => GetAmountIn(n, r[1], r[2]) \in Nat
    <3> SUFFICES ASSUME GetAmountInOk(n, r[1], r[2]) PROVE GetAmountIn(n, r[1], r[2]) \in Nat
      OBVIOUS
    <3>1. n \in Nat \ {0} /\ r[1] \in Nat \ {0} /\ r[2] \in Nat /\ n < r[2]
      BY <1>2 DEF GetAmountInOk
    <3> QED BY <3>1, InNumber
  <2>4. InputFor(w, path, n, i) \in Int
    BY <1>4, <2>3
  <2> QED BY <1>4, <2>1, <2>2, <2>4 DEF InFor, GetAmountIn
<1> QED BY <1>2, <1>5, <1>6, <1>7 DEF w

(* The two recursions of the client.                                       *)
IsClientOut(g, n, path) ==
  g = [i \in 1 .. Len(path) |->
         IF i = 1 THEN n ELSE OutFor(g[i - 1], ReservesFor(path[i - 1], path[i]))]

IsClientIn(g, n, path) ==
  g = [i \in 1 .. Len(path) |->
         IF i = Len(path) THEN n ELSE InFor(g[i + 1], ReservesFor(path[i], path[i + 1]))]

\* Each has one solution at most.
LEMMA ClientOutUnique ==
  ASSUME NEW path \in Seq(Tokens), NEW n, NEW g, NEW h,
         IsClientOut(g, n, path), IsClientOut(h, n, path)
  PROVE  g = h
<1> DEFINE len == Len(path)
           T == {k \in Nat : k + 1 <= len => g[k + 1] = h[k + 1]}
<1>1. len \in Nat
  OBVIOUS
<1>2. \A i \in 1 .. len :
        /\ g[i] = IF i = 1 THEN n ELSE OutFor(g[i - 1], ReservesFor(path[i - 1], path[i]))
        /\ h[i] = IF i = 1 THEN n ELSE OutFor(h[i - 1], ReservesFor(path[i - 1], path[i]))
  BY DEF IsClientOut
<1>3. 0 \in T
  BY <1>1, <1>2
<1>4. ASSUME NEW k \in Nat, k \in T PROVE k + 1 \in T
  <2> SUFFICES ASSUME (k + 1) + 1 <= len PROVE g[(k + 1) + 1] = h[(k + 1) + 1]
    OBVIOUS
  <2>1. (k + 1) + 1 \in 1 .. len /\ (k + 1) + 1 # 1 /\ (k + 1) + 1 - 1 = k + 1 /\ k + 1 <= len
    BY <1>1
  <2>2. g[k + 1] = h[k + 1]
    BY <1>4, <2>1
  <2> QED BY <1>2, <2>1, <2>2
<1>5. \A k \in Nat : k \in T
  <2> HIDE DEF T
  <2> QED BY <1>3, <1>4, Induction
<1>6. \A i \in 1 .. len : g[i] = h[i]
  <2> SUFFICES ASSUME NEW i \in 1 .. len PROVE g[i] = h[i]
    OBVIOUS
  <2>1. i - 1 \in Nat /\ (i - 1) + 1 = i /\ i <= len
    BY <1>1
  <2>2. i - 1 \in T
    BY <1>5, <2>1
  <2> QED BY <2>1, <2>2
<1>7. g = [i \in 1 .. len |-> g[i]] /\ h = [i \in 1 .. len |-> h[i]]
  BY DEF IsClientOut
<1> HIDE DEF len
<1> QED BY <1>6, <1>7

\* The same from the last hop to the first.
LEMMA ClientInUnique ==
  ASSUME NEW path \in Seq(Tokens), NEW n, NEW g, NEW h,
         IsClientIn(g, n, path), IsClientIn(h, n, path)
  PROVE  g = h
<1> DEFINE len == Len(path)
           T == {k \in Nat : len - k >= 1 => g[len - k] = h[len - k]}
<1>1. len \in Nat
  OBVIOUS
<1>2. \A i \in 1 .. len :
        /\ g[i] = IF i = len THEN n ELSE InFor(g[i + 1], ReservesFor(path[i], path[i + 1]))
        /\ h[i] = IF i = len THEN n ELSE InFor(h[i + 1], ReservesFor(path[i], path[i + 1]))
  BY DEF IsClientIn
<1>3. 0 \in T
  BY <1>1, <1>2
<1>4. ASSUME NEW k \in Nat, k \in T PROVE k + 1 \in T
  <2> DEFINE i == len - (k + 1)
  <2> SUFFICES ASSUME i >= 1 PROVE g[i] = h[i]
    OBVIOUS
  <2>1. i \in 1 .. len /\ i # len /\ i + 1 = len - k /\ len - k >= 1
    BY <1>1
  <2>2. g[len - k] = h[len - k]
    BY <1>4, <2>1
  <2> HIDE DEF i
  <2> QED BY <1>2, <2>1, <2>2
<1>5. \A k \in Nat : k \in T
  <2> HIDE DEF T
  <2> QED BY <1>3, <1>4, Induction
<1>6. \A i \in 1 .. len : g[i] = h[i]
  <2> SUFFICES ASSUME NEW i \in 1 .. len PROVE g[i] = h[i]
    OBVIOUS
  <2>1. len - i \in Nat /\ len - (len - i) = i /\ i >= 1
    BY <1>1
  <2>2. len - i \in T
    BY <1>5, <2>1
  <2> QED BY <2>1, <2>2
<1>7. g = [i \in 1 .. len |-> g[i]] /\ h = [i \in 1 .. len |-> h[i]]
  BY DEF IsClientIn
<1> HIDE DEF len
<1> QED BY <1>6, <1>7

\* The amounts along a path follow from each other.
LEMMA AmountsFollow ==
  ASSUME NEW w, NEW n, NEW path, NEW len \in Nat, len = Len(path), len >= 1
  PROVE  /\ IsOutUpTo(AmountsOut(w, n, path), w, n, path, len)
         /\ IsInFrom(AmountsIn(w, n, path), w, n, path, len, 1)
<1>1. IsOutUpTo(AmountsOut(w, n, path), w, n, path, len)
  <2> DEFINE f[i \in 1 .. len] == IF i = 1 THEN n ELSE OutputFor(w, path, f[i - 1], i)
  <2>1. AmountsOut(w, n, path) = f
    BY DEF AmountsOut, OutputFor
  <2>2. \E g : IsOutUpTo(g, w, n, path, len)
    BY AmountsOutExists
  <2>3. IsOutUpTo(f, w, n, path, len)
    BY <2>2 DEF IsOutUpTo
  <2> QED BY <2>1, <2>3
<1>2. IsInFrom(AmountsIn(w, n, path), w, n, path, len, 1)
  <2> DEFINE f[i \in 1 .. len] == IF i = len THEN n ELSE InputFor(w, path, f[i + 1], i)
  <2>1. AmountsIn(w, n, path) = f
    BY DEF AmountsIn, InputFor
  <2>2. \E g : IsInFrom(g, w, n, path, len, 1)
    BY AmountsInExists
  <2>3. IsInFrom(f, w, n, path, len, 1)
    BY <2>2 DEF IsInFrom
  <2> QED BY <2>1, <2>3
<1> QED BY <1>1, <1>2

\* The router's amounts solve the client's recursions.
LEMMA ClientAmounts ==
  ASSUME NEW T, Recorded(T), FeeDen > 1, WorldOk(World), NEW path \in Seq(Tokens),
         PathOk(World, path), NEW n \in Int, n <= T
  PROVE  /\ IsClientOut(AmountsOut(World, n, path), n, path)
         /\ IsClientIn(AmountsIn(World, n, path), n, path)
<1> DEFINE w == World
           len == Len(path)
           g == AmountsOut(w, n, path)
           h == AmountsIn(w, n, path)
<1>0. WorldOk(w) /\ PathOk(w, path)
  OBVIOUS
<1>1. /\ IsOutUpTo(g, w, n, path, len) /\ IsInFrom(h, w, n, path, len, 1)
      /\ len \in Nat /\ len >= 2
  <2> HIDE DEF w
  <2>1. len \in Nat /\ len >= 2
    BY <1>0 DEF PathOk
  <2> QED BY <1>0, <2>1, AmountsFollow
<1> HIDE DEF g, h
<1> DEFINE P == {k \in Nat : k + 1 <= len => g[k + 1] \in Int /\ g[k + 1] <= T}
<1>2. 0 \in P
  <2>1. g[1] = n
    BY <1>1 DEF IsOutUpTo
  <2> QED BY <2>1
<1>3. ASSUME NEW k \in Nat, k \in P PROVE k + 1 \in P
  <2> SUFFICES ASSUME (k + 1) + 1 <= len PROVE g[(k + 1) + 1] \in Int /\ g[(k + 1) + 1] <= T
    OBVIOUS
  <2>1. /\ k + 1 \in 1 .. len - 1 /\ (k + 1) + 1 \in 1 .. len /\ (k + 1) + 1 # 1
        /\ (k + 1) + 1 - 1 = k + 1 /\ k + 1 <= len
    BY <1>1
  <2>2. g[k + 1] \in Int
    BY <1>3, <2>1
  <2>3. g[(k + 1) + 1] = OutputFor(w, path, g[k + 1], (k + 1) + 1)
    BY <1>1, <2>1 DEF IsOutUpTo
  <2> DEFINE j == k + 1
  <2>4. j \in 1 .. len - 1 /\ g[j] \in Int
    BY <2>1, <2>2
  <2> HIDE DEF j, P
  <2>5. OutputFor(w, path, g[j], j + 1) \in Int /\ OutputFor(w, path, g[j], j + 1) <= T
    BY <1>0, <2>4, ClientHop
  <2> QED BY <2>3, <2>5 DEF j
<1>4. ASSUME NEW j \in 1 .. len PROVE g[j] \in Int /\ g[j] <= T
  <2>1. j - 1 \in Nat /\ (j - 1) + 1 = j /\ j <= len
    BY <1>1
  <2>2. j - 1 \in P
    <3> HIDE DEF P
    <3>1. \A k \in Nat : k \in P
      BY <1>2, <1>3, Induction
    <3> QED BY <2>1, <3>1
  <2> QED BY <2>1, <2>2
<1> HIDE DEF P
<1>5. ASSUME NEW i \in 1 .. len
      PROVE  g[i] = IF i = 1 THEN n ELSE OutFor(g[i - 1], ReservesFor(path[i - 1], path[i]))
  <2>1. CASE i = 1
    BY <1>1, <2>1 DEF IsOutUpTo
  <2>2. CASE i # 1
    <3> DEFINE j == i - 1
    <3>1. j \in 1 .. len - 1 /\ j + 1 = i /\ j \in 1 .. len /\ j + 1 - 1 = j
      BY <1>1, <2>2
    <3>2. g[i] = OutputFor(w, path, g[j], i)
      BY <1>1, <2>2 DEF IsOutUpTo
    <3> HIDE DEF j
    <3>3. g[j] \in Int /\ g[j] <= T
      BY <1>4, <3>1
    <3>4. OutputFor(w, path, g[j], j + 1) = OutFor(g[j], ReservesFor(path[j], path[j + 1]))
      BY <1>0, <3>1, <3>3, ClientHop
    <3>5. g[i] = OutFor(g[j], ReservesFor(path[j], path[i]))
      BY <3>1, <3>2, <3>4
    <3> QED BY <2>2, <3>5 DEF j
  <2> QED BY <2>1, <2>2
<1> DEFINE Q == {k \in Nat : len - k >= 1 => h[len - k] \in Int}
<1>6. 0 \in Q
  <2>1. len - 0 = len /\ len \in 1 .. len
    BY <1>1
  <2>2. h[len] = n
    BY <1>1, <2>1 DEF IsInFrom
  <2> QED BY <2>1, <2>2
<1>7. ASSUME NEW k \in Nat, k \in Q PROVE k + 1 \in Q
  <2> DEFINE i == len - (k + 1)
  <2> SUFFICES ASSUME i >= 1 PROVE h[i] \in Int
    OBVIOUS
  <2>1. i \in 1 .. len - 1 /\ i \in 1 .. len /\ i # len /\ i + 1 = len - k /\ len - k >= 1
    BY <1>1
  <2>2. h[len - k] \in Int
    BY <1>7, <2>1
  <2> HIDE DEF i
  <2>3. h[i] = InputFor(w, path, h[i + 1], i)
    BY <1>1, <2>1 DEF IsInFrom
  <2>4. h[i + 1] \in Int
    BY <2>1, <2>2
  <2> QED BY <1>0, <2>1, <2>3, <2>4, ClientHop
<1>8. ASSUME NEW j \in 1 .. len PROVE h[j] \in Int
  <2>1. len - j \in Nat /\ len - (len - j) = j /\ j >= 1
    BY <1>1
  <2>2. len - j \in Q
    <3> HIDE DEF Q
    <3>1. \A k \in Nat : k \in Q
      BY <1>6, <1>7, Induction
    <3> QED BY <2>1, <3>1
  <2> QED BY <2>1, <2>2
<1> HIDE DEF Q
<1>9. ASSUME NEW i \in 1 .. len
      PROVE  h[i] = IF i = len THEN n ELSE InFor(h[i + 1], ReservesFor(path[i], path[i + 1]))
  <2>1. h[i] = IF i = len THEN n ELSE InputFor(w, path, h[i + 1], i)
    BY <1>1 DEF IsInFrom
  <2>2. ASSUME i # len
        PROVE  InputFor(w, path, h[i + 1], i) = InFor(h[i + 1], ReservesFor(path[i], path[i + 1]))
    <3>1. i \in 1 .. len - 1 /\ i + 1 \in 1 .. len
      BY <1>1, <2>2
    <3>2. h[i + 1] \in Int
      BY <1>8, <3>1
    <3> QED BY <1>0, <3>1, <3>2, ClientHop
  <2> QED BY <2>1, <2>2
<1>10. g = [i \in 1 .. len |-> g[i]] /\ h = [i \in 1 .. len |-> h[i]]
  BY <1>1 DEF IsOutUpTo, IsInFrom
<1>11. IsClientOut(g, n, path)
  BY <1>5, <1>10 DEF IsClientOut
<1>12. IsClientIn(h, n, path)
  BY <1>9, <1>10 DEF IsClientIn
<1> QED BY <1>11, <1>12 DEF g, h

(* What is asked for and what the pairs record is far from overflowing.    *)
SmallNumbers == \E k \in Nat : Recorded(k)

\* What the clients show along a route is what the router computes, where what is
\* asked for and what the pairs record is far from overflowing.
THEOREM ClientsQuoteWhatTheRouterComputes ==
  ASSUME FeeDen > 1
  PROVE  Spec => [](SmallNumbers => ClientsQuoteTheRouter)
<1>1. Inv => (SmallNumbers => ClientsQuoteTheRouter)
  <2> SUFFICES ASSUME Inv, NEW k \in Nat, Recorded(k),
                      NEW n \in Amounts, NEW path \in {q \in Paths : Len(q) > 1}
               PROVE  /\ PathOk(World, path) <=>
                           \A i \in 1 .. Len(path) - 1 : HasRow(path[i], path[i + 1])
                      /\ PathOk(World, path) =>
                           /\ GetAmountsOut(n, path) = AmountsOut(World, n, path)
                           /\ GetAmountsIn(n, path) = AmountsIn(World, n, path)
    BY DEF SmallNumbers, ClientsQuoteTheRouter
  <2>1. /\ WorldOk(World) /\ n \in Int /\ n <= k
        /\ path \in Seq(Tokens) /\ Len(path) \in Nat /\ Len(path) >= 2
    BY InputAssumption DEF Inv, Recorded
  <2>2. \A i \in 1 .. Len(path) - 1 :
          PairExists(World, path[i], path[i + 1]) <=> HasRow(path[i], path[i + 1])
    <3> SUFFICES ASSUME NEW i \in 1 .. Len(path) - 1
                 PROVE  PairExists(World, path[i], path[i + 1]) <=> HasRow(path[i], path[i + 1])
      OBVIOUS
    <3>1. path[i] \in Tokens /\ path[i + 1] \in Tokens
      BY <2>1
    <3> QED BY <2>1, <3>1, RowIsPair
  <2>3. PathOk(World, path) <=> \A i \in 1 .. Len(path) - 1 : HasRow(path[i], path[i + 1])
    BY <2>1, <2>2 DEF PathOk
  <2>4. ASSUME PathOk(World, path)
        PROVE  GetAmountsOut(n, path) = AmountsOut(World, n, path)
    <3> DEFINE f[i \in 1 .. Len(path)] ==
                 IF i = 1 THEN n ELSE OutFor(f[i - 1], ReservesFor(path[i - 1], path[i]))
               g == AmountsOut(World, n, path)
    <3>1. GetAmountsOut(n, path) = f
      BY DEF GetAmountsOut
    <3>2. IsClientOut(g, n, path)
      BY <2>1, <2>4, ClientAmounts
    <3> HIDE DEF g
    <3>3. IsClientOut(f, n, path)
      BY <3>2 DEF IsClientOut
    <3> HIDE DEF f
    <3>4. f = g
      BY <2>1, <3>2, <3>3, ClientOutUnique
    <3> QED BY <3>1, <3>4 DEF g
  <2>5. ASSUME PathOk(World, path)
        PROVE  GetAmountsIn(n, path) = AmountsIn(World, n, path)
    <3> DEFINE f[i \in 1 .. Len(path)] ==
                 IF i = Len(path) THEN n ELSE InFor(f[i + 1], ReservesFor(path[i], path[i + 1]))
               g == AmountsIn(World, n, path)
    <3>1. GetAmountsIn(n, path) = f
      BY DEF GetAmountsIn
    <3>2. IsClientIn(g, n, path)
      BY <2>1, <2>5, ClientAmounts
    <3> HIDE DEF g
    <3>3. IsClientIn(f, n, path)
      BY <3>2 DEF IsClientIn
    <3> HIDE DEF f
    <3>4. f = g
      BY <2>1, <3>2, <3>3, ClientInUnique
    <3> QED BY <3>1, <3>4 DEF g
  <2> QED BY <2>3, <2>4, <2>5
<1> QED BY <1>1, InvHolds, PTL

-----------------------------------------------------------------------------
(* The estimate of a deposit: the square root. *)

IsDescent(g, y) ==
  g = [z \in 1 .. y |-> IF (y \div z + z) \div 2 < z THEN g[(y \div z + z) \div 2] ELSE z]

(* Where the descent ends that starts at z, r being the root.              *)
Descended(z, r) == IF z < r THEN z ELSE r

\* The next iterate of Newton's method is positive; it is not smaller at or below
\* the root, and above the root it is smaller and not below the root.
LEMMA NextIterate ==
  ASSUME NEW y \in Nat, NEW r \in Nat, r * r <= y, y < (r + 1) * (r + 1), NEW z \in 1 .. y
  PROVE  LET x == (y \div z + z) \div 2
         IN  /\ x \in Nat /\ x >= 1
             /\ z <= r => ~(x < z)
             /\ z > r => x < z /\ x >= r
<1> DEFINE q == y \div z
           x == (q + z) \div 2
<1>1. z \in Nat \ {0} /\ 1 * z <= y
  OBVIOUS
<1>2. q \in Nat /\ q * z <= y /\ y < q * z + z /\ (1 <= q <=> 1 * z <= y) /\ (z <= q <=> z * z <= y)
  BY <1>1, DivFloor, DivIsLargest
<1> HIDE DEF q
<1>3. x \in Nat /\ 2 * x <= q + z /\ q + z <= 2 * x + 1 /\ q >= 1
  BY <1>1, <1>2
<1>4. x >= 1
  <2> HIDE DEF x
  <2> QED BY <1>1, <1>2, <1>3
<1>5. ASSUME z <= r PROVE ~(x < z)
  <2>1. z * z <= r * r /\ r * r \in Nat /\ z * z \in Nat
    BY <1>1, <1>5, ProductMonotone
  <2>2. z <= q
    BY <1>2, <2>1
  <2> HIDE DEF x
  <2> QED BY <1>1, <1>2, <1>3, <2>2
<1>6. ASSUME z > r PROVE x < z /\ x >= r
  <2>1. x < z
    <3>1. (r + 1) * (r + 1) <= z * z /\ (r + 1) * (r + 1) \in Nat /\ z * z \in Nat
      BY <1>1, <1>6, ProductMonotone
    <3>2. q < z
      BY <1>1, <1>2, <3>1
    <3> HIDE DEF x
    <3> QED BY <1>1, <1>2, <1>3, <3>2
  <2>2. ASSUME x < r PROVE FALSE
    <3>1. q + 1 + z <= 2 * r
      <4> HIDE DEF x
      <4> QED BY <1>1, <1>2, <1>3, <2>2
    <3>2. r * r < (q + 1) * z
      <4>1. (q + 1) * z = q * z + z /\ q * z \in Nat /\ r * r \in Nat
        BY <1>1, <1>2
      <4> QED BY <1>1, <1>2, <4>1
    <3> DEFINE d == z - r
    <3>3. d \in Nat /\ z = r + d /\ q + 1 <= r - d
      BY <1>1, <1>2, <1>6, <3>1
    <3>4. r - d \in Nat
      BY <1>2, <3>3
    <3>5. (q + 1) * z <= (r - d) * (r + d)
      <4>1. q + 1 \in Nat
        BY <1>2
      <4> HIDE DEF d
      <4> QED BY <1>1, <3>3, <3>4, <4>1, ProductMonotone
    <3>6. (r - d) * (r + d) = r * r - d * d /\ d * d \in Nat
      <4> HIDE DEF d
      <4> QED BY <3>3
    <3>7. (q + 1) * z \in Nat /\ r * r \in Nat
      BY <1>1, <1>2
    <3> HIDE DEF d
    <3> QED BY <3>2, <3>5, <3>6, <3>7
  <2> HIDE DEF x
  <2> QED BY <1>3, <2>1, <2>2
<1> QED BY <1>3, <1>4, <1>5, <1>6 DEF q

\* The recursion of Newton's method has this solution,
LEMMA DescentExists ==
  ASSUME NEW y \in Nat, NEW r \in Nat, r * r <= y, y < (r + 1) * (r + 1)
  PROVE  IsDescent([z \in 1 .. y |-> Descended(z, r)], y)
<1> DEFINE g == [z \in 1 .. y |-> Descended(z, r)]
           Iterate(z) == (y \div z + z) \div 2
<1>1. ASSUME NEW z \in 1 .. y
      PROVE  g[z] = IF Iterate(z) < z THEN g[Iterate(z)] ELSE z
  <2>1. /\ Iterate(z) \in Nat /\ Iterate(z) >= 1
        /\ z <= r => ~(Iterate(z) < z)
        /\ z > r => Iterate(z) < z /\ Iterate(z) >= r
    BY NextIterate
  <2> HIDE DEF Iterate
  <2>2. CASE z <= r
    BY <2>1, <2>2 DEF Descended
  <2>3. CASE z > r
    <3>1. Iterate(z) \in 1 .. y
      BY <2>1, <2>3
    <3> QED BY <2>1, <2>3, <3>1 DEF Descended
  <2> QED BY <2>2, <2>3
<1> HIDE DEF Iterate
<1>2. g = [z \in 1 .. y |-> IF Iterate(z) < z THEN g[Iterate(z)] ELSE z]
  <2>1. \A z \in 1 .. y : g[z] = IF Iterate(z) < z THEN g[Iterate(z)] ELSE z
    BY <1>1
  <2>2. g = [z \in 1 .. y |-> g[z]]
    OBVIOUS
  <2> HIDE DEF g
  <2> QED BY <2>1, <2>2
<1> QED BY <1>2 DEF IsDescent, Iterate

\* and no other.
LEMMA DescentEnds ==
  ASSUME NEW y \in Nat, NEW r \in Nat, r * r <= y, y < (r + 1) * (r + 1),
         NEW f, IsDescent(f, y), NEW start \in 1 .. y
  PROVE  f[start] = Descended(start, r)
<1> DEFINE Iterate(z) == (y \div z + z) \div 2
           T == {k \in Nat : \A z \in 1 .. y : z <= k => f[z] = Descended(z, r)}
<1>1. 0 \in T
  OBVIOUS
<1>2. ASSUME NEW k \in Nat, k \in T PROVE k + 1 \in T
  <2> SUFFICES ASSUME NEW z \in 1 .. y, z <= k + 1 PROVE f[z] = Descended(z, r)
    OBVIOUS
  <2>1. /\ Iterate(z) \in Nat /\ Iterate(z) >= 1
        /\ z <= r => ~(Iterate(z) < z)
        /\ z > r => Iterate(z) < z /\ Iterate(z) >= r
    BY NextIterate
  <2>2. f[z] = IF Iterate(z) < z THEN f[Iterate(z)] ELSE z
    BY DEF IsDescent
  <2> HIDE DEF Iterate
  <2>3. CASE z <= r
    BY <2>1, <2>2, <2>3 DEF Descended
  <2>4. CASE z > r
    <3>1. Iterate(z) \in 1 .. y /\ Iterate(z) <= k
      BY <2>1, <2>4
    <3>2. f[Iterate(z)] = Descended(Iterate(z), r)
      BY <1>2, <3>1
    <3> QED BY <2>1, <2>2, <2>4, <3>2 DEF Descended
  <2> QED BY <2>3, <2>4
<1>3. start \in T
  <2>1. start \in Nat
    OBVIOUS
  <2> HIDE DEF T
  <2> QED BY <1>1, <1>2, <2>1, Induction
<1> QED BY <1>3

\* Newton's method, as the contracts and the clients write it, returns the floor of
\* the square root, of every number.
THEOREM NewtonFindsTheRoot == \A y \in Nat : Newton(y) = Sqrt(y)
<1> SUFFICES ASSUME NEW y \in Nat PROVE Newton(y) = Sqrt(y)
  OBVIOUS
<1> DEFINE r == Sqrt(y)
<1>1. r \in Nat /\ r * r <= y /\ y < (r + 1) * (r + 1)
  BY SqrtIsRoot
<1> HIDE DEF r
<1>2. CASE y = 0
  <2>1. r = 0
    BY <1>1, <1>2
  <2> QED BY <1>2, <2>1 DEF Newton, r
<1>3. CASE y \in 1 .. 3
  <2>1. r < 2
    <3>1. r >= 2 => 2 * 2 <= r * r
      BY <1>1, ProductMonotone
    <3> QED BY <1>1, <1>3, <3>1
  <2>2. r # 0
    BY <1>1, <1>3
  <2>3. r = 1
    BY <1>1, <2>1, <2>2
  <2> QED BY <1>3, <2>3 DEF Newton, r
<1>4. CASE y > 3
  <2> DEFINE start == y \div 2 + 1
             f[z \in 1 .. y] == LET x == (y \div z + z) \div 2 IN IF x < z THEN f[x] ELSE z
  <2>1. Newton(y) = f[start]
    BY <1>4 DEF Newton
  <2>2. IsDescent(f, y)
    <3>1. IsDescent([z \in 1 .. y |-> Descended(z, r)], y)
      BY <1>1, DescentExists
    <3> QED BY <3>1 DEF IsDescent
  <2> HIDE DEF f
  <2>3. start \in 1 .. y /\ y <= 2 * start
    BY <1>4
  <2> HIDE DEF start
  <2>4. start >= r
    <3>1. ASSUME start < r PROVE FALSE
      <4>1. (start + 1) * (start + 1) <= r * r
        BY <1>1, <2>3, <3>1, ProductMonotone
      <4>2. (start + 1) * (start + 1) = start * start + 2 * start + 1 /\ start * start \in Nat
        BY <2>3
      <4>3. r * r \in Nat
        BY <1>1
      <4> QED BY <1>1, <2>3, <4>1, <4>2, <4>3
    <3> QED BY <1>1, <2>3, <3>1
  <2>5. f[start] = Descended(start, r)
    BY <1>1, <2>2, <2>3, DescentEnds
  <2> QED BY <1>1, <2>1, <2>3, <2>4, <2>5 DEF Descended, r
<1> QED BY <1>2, <1>3, <1>4

-----------------------------------------------------------------------------
(* The estimate of a deposit: what the router and the pair settle on. *)

\* The pair settles on the first amount the router chose, which is what the caller
\* offers or the quote for the other, and on the quote for that amount.
LEMMA TwiceSettled ==
  ASSUME NEW x \in Nat, NEW y \in Nat, NEW rx \in Nat \ {0}, NEW ry \in Nat \ {0},
         NEW xm, NEW ym, NEW a \in Settled(x, y, xm, ym, rx, ry),
         NEW b \in Settled(a[1], a[2], 0, 0, rx, ry)
  PROVE  \E x2, y2 \in Nat :
           /\ b = <<x2, y2>> /\ y2 = (x2 * ry) \div rx /\ x2 <= x /\ y2 <= y
           /\ x2 = x \/ x2 = (y * rx) \div ry
<1>1. CASE a = <<x, Quote(x, rx, ry)>> /\ Quote(x, rx, ry) <= y
  <2> DEFINE c == (x * ry) \div rx
  <2>1. c \in Nat
    <3>1. x * ry \in Nat
      OBVIOUS
    <3> QED BY <3>1, DivFloor
  <2>2. Quote(x, rx, ry) = c
    BY DEF Quote
  <2> HIDE DEF c
  <2>3. a = <<x, c>> /\ c <= y
    BY <1>1, <2>2
  <2>4. b \in Settled(x, c, 0, 0, rx, ry)
    BY <2>3
  <2>5. b = <<x, c>>
    BY <2>1, <2>2, <2>4 DEF Settled
  <2> QED BY <2>1, <2>3, <2>5 DEF c
<1>2. CASE a = <<Quote(y, ry, rx), y>> /\ Quote(y, ry, rx) <= x
  <2> DEFINE c == (y * rx) \div ry
             d == (c * ry) \div rx
  <2>1. c \in Nat /\ c * ry <= y * rx
    <3>1. y * rx \in Nat
      OBVIOUS
    <3> QED BY <3>1, DivFloor
  <2>2. Quote(y, ry, rx) = c /\ Quote(c, rx, ry) = d
    BY DEF Quote
  <2> HIDE DEF c
  <2>3. d \in Nat /\ d * rx <= c * ry
    <3>1. c * ry \in Nat
      BY <2>1
    <3> QED BY <3>1, DivFloor
  <2> HIDE DEF d
  <2>4. d <= y
    <3>1. c * ry \in Nat /\ y * rx \in Nat /\ d * rx \in Nat
      BY <2>1, <2>3
    <3>2. d * rx <= y * rx
      BY <2>1, <2>3, <3>1
    <3> QED BY <2>3, <3>2, ProductCancels
  <2>5. a = <<c, y>> /\ c <= x
    BY <1>2, <2>2
  <2>6. b \in Settled(c, y, 0, 0, rx, ry)
    BY <2>5
  <2>7. b = <<c, d>>
    BY <2>1, <2>2, <2>3, <2>4, <2>6 DEF Settled
  <2> QED BY <2>1, <2>3, <2>4, <2>5, <2>7 DEF c, d
<1> QED BY <1>1, <1>2 DEF Settled

\* What the two settlings cost is at most two units more than a unit of each token
\* is worth.
LEMMA EstimateNumbers ==
  ASSUME NEW x \in Nat, NEW y \in Nat, NEW x2 \in Nat, NEW y2 \in Nat,
         NEW rx \in Nat \ {0}, NEW ry \in Nat \ {0}, NEW L \in Nat \ {0},
         y2 = (x2 * ry) \div rx, x2 <= x, y2 <= y, x2 = x \/ x2 = (y * rx) \div ry
  PROVE  /\ Minted(x2, y2, rx, ry, L) \in Nat /\ Minted(x, y, rx, ry, L) \in Nat
         /\ Minted(x2, y2, rx, ry, L) <= Minted(x, y, rx, ry, L)
         /\ Minted(x, y, rx, ry, L) <= Minted(x2, y2, rx, ry, L) + 2 + L \div rx + L \div ry
<1> DEFINE e == Least((x * L) \div rx, (y * L) \div ry)
           m == Least((x2 * L) \div rx, (y2 * L) \div ry)
           kx == L \div rx
           ky == L \div ry
           k == kx + ky
<1>1. Minted(x, y, rx, ry, L) = e /\ Minted(x2, y2, rx, ry, L) = m
  BY DEF Minted
<1>2. x * L \in Nat /\ y * L \in Nat /\ x2 * L \in Nat /\ y2 * L \in Nat
  OBVIOUS
<1>3. /\ e \in Nat /\ e <= (x * L) \div rx /\ e <= (y * L) \div ry
      /\ \A n \in Nat : n <= (x * L) \div rx /\ n <= (y * L) \div ry => n <= e
      /\ m \in Nat /\ m <= (x2 * L) \div rx /\ m <= (y2 * L) \div ry
      /\ \A n \in Nat : n <= (x2 * L) \div rx /\ n <= (y2 * L) \div ry => n <= m
  <2>1. /\ (x * L) \div rx \in Nat /\ (y * L) \div ry \in Nat
        /\ (x2 * L) \div rx \in Nat /\ (y2 * L) \div ry \in Nat
    BY <1>2, DivFloor
  <2> QED BY <2>1 DEF Least
<1> HIDE DEF e, m
<1>4. /\ e * rx <= x * L /\ e * ry <= y * L
      /\ m * rx <= x2 * L /\ m * ry <= y2 * L
  BY <1>2, <1>3, DivIsLargest
<1>5. \A n \in Nat : n * rx <= x * L /\ n * ry <= y * L => n <= e
  BY <1>2, <1>3, DivIsLargest
<1>6. \A n \in Nat : n * rx <= x2 * L /\ n * ry <= y2 * L => n <= m
  BY <1>2, <1>3, DivIsLargest
<1>7. m <= e
  <2>1. x2 * L <= x * L /\ y2 * L <= y * L
    BY ProductMonotone
  <2>2. m * rx \in Nat /\ m * ry \in Nat
    BY <1>3
  <2>3. m * rx <= x * L /\ m * ry <= y * L
    BY <1>2, <1>4, <2>1, <2>2
  <2> QED BY <1>3, <1>5, <2>3
<1>8a. /\ kx \in Nat /\ L <= (kx + 1) * rx
       /\ ky \in Nat /\ L <= (ky + 1) * ry
  <2>1. ASSUME NEW r \in Nat \ {0} PROVE L \div r \in Nat /\ L <= (L \div r + 1) * r
    <3> DEFINE d == L \div r
    <3>1. d \in Nat /\ L < d * r + r
      BY DivFloor
    <3> HIDE DEF d
    <3>2. d * r \in Nat /\ (d + 1) * r = d * r + r
      BY <3>1
    <3>3. L <= (d + 1) * r
      BY <3>1, <3>2
    <3> QED BY <3>1, <3>3 DEF d
  <2> QED BY <2>1
<1> HIDE DEF kx, ky
<1>8. k \in Nat /\ L <= (k + 1) * rx /\ L <= (k + 1) * ry
  <2>1. k \in Nat /\ kx <= k /\ ky <= k
    BY <1>8a
  <2> HIDE DEF k
  <2>2. (kx + 1) * rx <= (k + 1) * rx /\ (ky + 1) * ry <= (k + 1) * ry
    BY <1>8a, <2>1, ProductMonotone
  <2>3. (kx + 1) * rx \in Nat /\ (ky + 1) * ry \in Nat /\ (k + 1) * rx \in Nat /\ (k + 1) * ry \in Nat
    BY <1>8a, <2>1
  <2> QED BY <1>8a, <2>1, <2>2, <2>3
<1> HIDE DEF k
<1>9. e * rx <= x2 * L + L
  <2>1. CASE x2 = x
    BY <1>2, <1>3, <1>4, <2>1
  <2>2. CASE x2 = (y * rx) \div ry
    <3>1. y * rx <= (x2 + 1) * ry
      <4>1. y * rx \in Nat
        OBVIOUS
      <4>2. y * rx < x2 * ry + ry
        BY <2>2, <4>1, DivFloor
      <4>3. x2 * ry + ry = (x2 + 1) * ry /\ x2 * ry \in Nat
        OBVIOUS
      <4> QED BY <4>1, <4>2, <4>3
    <3>2. (e * ry) * rx <= (y * L) * rx
      BY <1>2, <1>3, <1>4, ProductMonotone
    <3>3. (y * rx) * L <= ((x2 + 1) * ry) * L
      <4>1. y * rx \in Nat /\ (x2 + 1) * ry \in Nat
        OBVIOUS
      <4> QED BY <3>1, <4>1, ProductMonotone
    <3>4. (e * rx) * ry <= (x2 * L + L) * ry
      <4>1. /\ (e * ry) * rx = (e * rx) * ry /\ (y * L) * rx = (y * rx) * L
            /\ ((x2 + 1) * ry) * L = (x2 * L + L) * ry
        BY <1>3
      <4>2. (e * ry) * rx \in Nat /\ (y * L) * rx \in Nat /\ ((x2 + 1) * ry) * L \in Nat
        BY <1>3
      <4> QED BY <3>2, <3>3, <4>1, <4>2
    <3>5. e * rx \in Nat /\ x2 * L + L \in Nat
      BY <1>3
    <3> QED BY <3>4, <3>5, ProductCancels
  <2> QED BY <2>1, <2>2
<1>10. L * (rx + ry) <= (k + 2) * (rx * ry)
  <2>1. L * ry <= ((kx + 1) * rx) * ry /\ L * rx <= ((ky + 1) * ry) * rx
    <3>1. (kx + 1) * rx \in Nat /\ (ky + 1) * ry \in Nat
      BY <1>8a
    <3> QED BY <1>8a, <3>1, ProductMonotone
  <2> DEFINE c == rx * ry
  <2>2. c \in Nat
    OBVIOUS
  <2>3. ((kx + 1) * rx) * ry = (kx + 1) * c /\ ((ky + 1) * ry) * rx = (ky + 1) * c
    BY <1>8a
  <2>4. L * (rx + ry) = L * ry + L * rx /\ L * rx \in Nat /\ L * ry \in Nat
    OBVIOUS
  <2> HIDE DEF c
  <2>5. (k + 2) * c = (kx + 1) * c + (ky + 1) * c
    BY <1>8a, <2>2 DEF k
  <2>6. (kx + 1) * c \in Nat /\ (ky + 1) * c \in Nat
    BY <1>8a, <2>2
  <2>7. L * (rx + ry) <= (k + 2) * c
    BY <2>1, <2>3, <2>4, <2>5, <2>6
  <2> QED BY <2>7 DEF c
<1>11. e * ry <= y2 * L + (k + 2) * ry
  <2>1. x2 * ry <= y2 * rx + rx
    <3>1. x2 * ry \in Nat
      OBVIOUS
    <3>2. x2 * ry < y2 * rx + rx
      BY <3>1, DivFloor
    <3>3. y2 * rx + rx \in Nat
      OBVIOUS
    <3> QED BY <3>1, <3>2, <3>3
  <2>2. (e * rx) * ry <= (x2 * L + L) * ry
    <3>1. e * rx \in Nat /\ x2 * L + L \in Nat
      BY <1>3
    <3> QED BY <1>9, <3>1, ProductMonotone
  <2>3. (x2 * ry) * L <= (y2 * rx + rx) * L
    <3>1. x2 * ry \in Nat /\ y2 * rx + rx \in Nat
      OBVIOUS
    <3> QED BY <2>1, <3>1, ProductMonotone
  <2> DEFINE f == (e * rx) * ry
             g == (x2 * ry) * L
             h == (y2 * L) * rx
             i == (k + 2) * (rx * ry)
  <2>4. f \in Nat /\ g \in Nat /\ h \in Nat /\ i \in Nat /\ rx * L \in Nat /\ ry * L \in Nat
    BY <1>3, <1>8
  <2>5. /\ (x2 * L + L) * ry = g + ry * L
        /\ (y2 * rx + rx) * L = h + rx * L
        /\ L * (rx + ry) = rx * L + ry * L
    OBVIOUS
  <2>6. f <= g + ry * L /\ g <= h + rx * L /\ rx * L + ry * L <= i
    BY <1>10, <2>2, <2>3, <2>5
  <2>7. f <= h + i
    <3> HIDE DEF f, g, h, i
    <3> QED BY <2>4, <2>6
  <2>8. f = (e * ry) * rx /\ h + i = (y2 * L + (k + 2) * ry) * rx
    BY <1>3, <1>8
  <2>9. e * ry \in Nat /\ y2 * L + (k + 2) * ry \in Nat
    BY <1>3, <1>8
  <2> HIDE DEF f, g, h, i
  <2>10. (e * ry) * rx <= (y2 * L + (k + 2) * ry) * rx
    BY <2>7, <2>8
  <2> QED BY <2>9, <2>10, ProductCancels
<1>12. e <= m + 2 + k
  <2>1. CASE e <= k + 2
    BY <1>3, <1>8, <2>1
  <2>2. CASE e > k + 2
    <3> DEFINE n == e - (k + 2)
    <3>1. n \in Nat
      BY <1>3, <1>8, <2>2
    <3>2. n * ry = e * ry - (k + 2) * ry /\ e * ry \in Nat /\ (k + 2) * ry \in Nat
      BY <1>3, <1>8
    <3>3. n * ry <= y2 * L
      <4> DEFINE s == e * ry
                 t == (k + 2) * ry
                 u == y2 * L
      <4>1. s \in Nat /\ t \in Nat /\ u \in Nat /\ s <= u + t /\ n * ry = s - t
        BY <1>2, <1>11, <3>2
      <4>2. s - t <= u
        <5> HIDE DEF s, t, u
        <5> QED BY <4>1
      <4> QED BY <4>1, <4>2
    <3>4. n * rx <= x2 * L
      <4>1. n * rx = e * rx - (k + 2) * rx /\ (k + 2) * rx = (k + 1) * rx + rx
        BY <1>3, <1>8
      <4> DEFINE s == e * rx
                 t == (k + 1) * rx
                 u == x2 * L
      <4>2. s \in Nat /\ t \in Nat /\ u \in Nat /\ s <= u + L /\ L <= t /\ n * rx = s - (t + rx)
        BY <1>2, <1>3, <1>8, <1>9, <4>1
      <4>3. s - (t + rx) <= u
        <5> HIDE DEF s, t, u
        <5> QED BY <4>2
      <4> QED BY <4>2, <4>3
    <3>5. n <= m
      BY <1>6, <3>1, <3>3, <3>4
    <3> QED BY <1>3, <1>8, <3>5
  <2> QED BY <1>3, <1>8, <2>1, <2>2
<1>13. e <= m + 2 + kx + ky
  BY <1>3, <1>8a, <1>12 DEF k
<1> QED BY <1>1, <1>3, <1>7, <1>13 DEF kx, ky

(* minted is what pool q mints for what the router and the pair settle on. *)
MintsFor(minted, x, y, xm, ym, q) ==
  \E a \in Settled(x, y, xm, ym, q.reserveX, q.reserveY) :
    \E b \in Settled(a[1], a[2], 0, 0, q.reserveX, q.reserveY) :
      /\ minted = Minted(b[1], b[2], q.reserveX, q.reserveY, q.supply)
      /\ q.supply # 0 => q.reserveX > 0 /\ q.reserveY > 0

\* A deposit through the router mints for what the pair settles on in the end.
LEMMA RouterDeposit ==
  ASSUME NEW w, WorldOk(w), NEW p \in DOMAIN w.pool, NEW caller \in Users,
         NEW x \in Nat, NEW y \in Nat, NEW xm \in Int, NEW ym \in Int,
         NEW v \in RouterAdd(w, caller, w.pool[p].tokenX, w.pool[p].tokenY, x, y, xm, ym, caller)
  PROVE  MintsFor(v.pool[p].lp[caller] - w.pool[p].lp[caller], x, y, xm, ym, w.pool[p])
<1> DEFINE q == w.pool[p]
<1>1. /\ IsPool(q) /\ q.tokenX \in Tokens /\ q.tokenY \in Tokens
      /\ q.reserveX \in Int /\ q.reserveY \in Int /\ caller \in Address
  BY PairFacts DEF Address
<1>2. PairExists(w, q.tokenX, q.tokenY) /\ GetPair(w, q.tokenX, q.tokenY) = p
  BY PairOfPool
<1>3. ReservesOf(w, q.tokenX, q.tokenY) = <<q.reserveX, q.reserveY>>
  BY <1>2 DEF ReservesOf
<1>4. PICK a \in Settled(x, y, xm, ym, q.reserveX, q.reserveY) :
        v \in PairAdd(w, p, caller, a[1], a[2], caller)
  BY <1>2, <1>3 DEF RouterAdd, After
<1>5. a[1] \in Int /\ a[2] \in Int
  <2>1. q.reserveX \in Int /\ q.reserveY \in Int /\ x \in Int /\ y \in Int
    BY <1>1
  <2> HIDE DEF q
  <2> QED BY <1>4, <2>1, SettledNumber
<1>6. PICK c \in Int, d \in Int, lp \in Nat :
        /\ <<c, d>> \in Settled(a[1], a[2], 0, 0, q.reserveX, q.reserveY)
        /\ IsDeposit(w, v, p, caller, caller, c, d, lp)
  BY <1>1, <1>4, <1>5, PairAddResult
<1> DEFINE locked == IF q.supply = 0 THEN MinLiquidity ELSE 0
<1>7. /\ lp = Minted(c, d, q.reserveX, q.reserveY, q.supply)
      /\ MintedOk(c, d, q.reserveX, q.reserveY, q.supply)
      /\ v.pool = [w.pool EXCEPT ![p] =
            [q EXCEPT !.supply = q.supply + locked + lp,
                      !.lp = Credited(q.lp, caller, lp),
                      !.reserveX = v.bal[q.tokenX][p],
                      !.reserveY = v.bal[q.tokenY][p]]]
  BY <1>6 DEF IsDeposit
<1>8. v.pool[p].lp = Credited(q.lp, caller, lp)
  <2> HIDE DEF locked, q
  <2>1. v.pool[p] = [q EXCEPT !.supply = q.supply + locked + lp, !.lp = Credited(q.lp, caller, lp),
                              !.reserveX = v.bal[q.tokenX][p], !.reserveY = v.bal[q.tokenY][p]]
    BY <1>7
  <2> QED BY <1>1, <2>1 DEF IsPool
<1>9. v.pool[p].lp[caller] - q.lp[caller] = lp
  <2>1. q.lp \in [Address -> Nat]
    BY <1>1 DEF IsPool
  <2> HIDE DEF q
  <2> QED BY <1>1, <1>8, <2>1 DEF Credited
<1> DEFINE b == <<c, d>>
<1>10. /\ b \in Settled(a[1], a[2], 0, 0, q.reserveX, q.reserveY)
       /\ v.pool[p].lp[caller] - q.lp[caller] = Minted(b[1], b[2], q.reserveX, q.reserveY, q.supply)
       /\ q.supply # 0 => q.reserveX > 0 /\ q.reserveY > 0
  BY <1>6, <1>7, <1>9 DEF MintedOk
<1> HIDE DEF b
<1> QED BY <1>10 DEF q, MintsFor

\* The amounts of the form are natural numbers.
LEMMA FormNumbers ==
  ASSUME NEW n \in Typable, NEW p, pool[p].reserveX \in Int, pool[p].reserveY \in Int,
         NEW a \in FormAmounts(n, p)
  PROVE  a[1] \in Nat /\ a[2] \in Nat
<1>1. n \in Nat /\ Unit \in Nat \ {0} /\ Typable \subseteq Nat
  <2>1. Unit \in Nat \ {0}
    BY ClientAssumption
  <2>2. Deposits \subseteq Int
    BY InputAssumption
  <2>3. ASSUME NEW k \in Typable PROVE k \in Nat
    <3>1. k \in Deposits /\ k > 0
      BY DEF Typable
    <3>2. k \in Int
      BY <2>2, <3>1
    <3> QED BY <3>1, <3>2
  <2> QED BY <2>1, <2>3
<1>2. ASSUME NEW m \in Nat PROVE Typed(m) \in Nat
  <2>1. m - (m % Unit) \in Nat
    BY <1>1
  <2> QED BY <1>1, <2>1 DEF Typed
<1>3. CASE HasReserves(p)
  <2> DEFINE c == (n * pool[p].reserveY) \div pool[p].reserveX
             d == (n * pool[p].reserveX) \div pool[p].reserveY
  <2>1. c \in Nat /\ d \in Nat
    <3>1. /\ pool[p].reserveX \in Nat \ {0} /\ pool[p].reserveY \in Nat \ {0}
          /\ n * pool[p].reserveY \in Nat /\ n * pool[p].reserveX \in Nat
      BY <1>1, <1>3 DEF HasReserves
    <3> QED BY <3>1, DivFloor
  <2>2. a = <<n, Typed(c)>> \/ a = <<Typed(d), n>>
    BY <1>3 DEF FormAmounts
  <2> HIDE DEF c, d
  <2> QED BY <1>1, <1>2, <2>1, <2>2
<1>4. CASE ~HasReserves(p)
  BY <1>1, <1>4 DEF FormAmounts
<1> QED BY <1>3, <1>4

\* The minimum the dialog sends for an amount is a number.
LEMMA MinimumNumber ==
  ASSUME NEW n \in Nat, NEW p
  PROVE  Minimum(n, p) \in Int
<1>1. 10000 - Slippage \in Nat
  BY ClientAssumption
<1>2. n * (10000 - Slippage) \in Nat
  BY <1>1
<1> HIDE DEF Minimum
<1>3. (n * (10000 - Slippage)) \div 10000 \in Nat
  <2> DEFINE m == n * (10000 - Slippage)
  <2>1. m \in Nat
    BY <1>2
  <2> HIDE DEF m
  <2>2. m \div 10000 \in Nat
    BY <2>1, DivFloor
  <2> QED BY <2>2 DEF m
<1> QED BY <1>3 DEF Minimum

\* What the dialog announces is at least what is minted, by how much at most, and
\* for a first deposit exactly that.
THEOREM EstimatesAreClose == Spec => []EstimatesHold
<1>1. Inv => EstimatesHold
  <2> SUFFICES ASSUME Inv, NEW caller \in Users, NEW n \in Typable,
                      NEW p \in {q \in DOMAIN pool : pool[q].supply = 0 => ~HasReserves(q)},
                      NEW a \in FormAmounts(n, p), NEW v \in DialogDeposit(caller, a[1], a[2], p)
               PROVE  LET estimate == EstimatedLp(a[1], a[2], p)
                          minted == v.pool[p].lp[caller] - pool[p].lp[caller]
                      IN  /\ minted <= estimate
                          /\ IF HasReserves(p)
                             THEN estimate <= minted + 2 + pool[p].supply \div pool[p].reserveX
                                                         + pool[p].supply \div pool[p].reserveY
                             ELSE estimate = minted
    BY DEF EstimatesHold
  <2> DEFINE w == World
             q == pool[p]
             x == a[1]
             y == a[2]
             rx == q.reserveX
             ry == q.reserveY
             L == q.supply
             minted == v.pool[p].lp[caller] - q.lp[caller]
  <2>1. /\ WorldOk(w) /\ w.pool = pool /\ p \in DOMAIN w.pool /\ q = w.pool[p]
        /\ rx \in Int /\ ry \in Int /\ L \in Nat
    <3>1. WorldOk(w) /\ w.pool = pool /\ p \in DOMAIN w.pool
      BY DEF Inv, World
    <3> QED BY <3>1, PairFacts
  <2>2. x \in Nat /\ y \in Nat
    BY <2>1, FormNumbers
  <2>3. v \in RouterAdd(w, caller, q.tokenX, q.tokenY, x, y, Minimum(x, p), Minimum(y, p), caller)
    BY DEF DialogDeposit
  <2> HIDE DEF x, y, w
  <2>4. PICK s \in Settled(x, y, Minimum(x, p), Minimum(y, p), rx, ry) :
          \E b \in Settled(s[1], s[2], 0, 0, rx, ry) :
            minted = Minted(b[1], b[2], rx, ry, L) /\ (L # 0 => rx > 0 /\ ry > 0)
    <3> DEFINE xm == Minimum(x, p)
               ym == Minimum(y, p)
    <3>1. v \in RouterAdd(w, caller, w.pool[p].tokenX, w.pool[p].tokenY, x, y, xm, ym, caller)
      BY <2>1, <2>3
    <3>2. MintsFor(v.pool[p].lp[caller] - w.pool[p].lp[caller], x, y, xm, ym, w.pool[p])
      <4>1. xm \in Int /\ ym \in Int
        BY <2>2, MinimumNumber
      <4> HIDE DEF q, xm, ym
      <4> QED BY <2>1, <2>2, <3>1, <4>1, RouterDeposit
    <3>3. MintsFor(minted, x, y, xm, ym, q)
      BY <2>1, <3>2
    <3> HIDE DEF minted
    <3> QED BY <3>3 DEF MintsFor
  <2>5. PICK b \in Settled(s[1], s[2], 0, 0, rx, ry) :
          minted = Minted(b[1], b[2], rx, ry, L) /\ (L # 0 => rx > 0 /\ ry > 0)
    BY <2>4
  <2>6. HasReserves(p) <=> rx > 0 /\ ry > 0
    BY DEF HasReserves
  <2>7. L = 0 => ~HasReserves(p)
    OBVIOUS
  <2>8. EstimatedLp(x, y, p) = IF HasReserves(p) THEN Least((x * L) \div rx, (y * L) \div ry)
                                                  ELSE Newton(x * y) - MinLiquidity
    BY DEF EstimatedLp
  <2> HIDE DEF minted, q, rx, ry, L
  <2>9. CASE HasReserves(p)
    <3>1. rx \in Nat \ {0} /\ ry \in Nat \ {0} /\ L \in Nat \ {0}
      BY <2>1, <2>6, <2>7, <2>9
    <3>2. \E x2, y2 \in Nat :
            /\ b = <<x2, y2>> /\ y2 = (x2 * ry) \div rx /\ x2 <= x /\ y2 <= y
            /\ x2 = x \/ x2 = (y * rx) \div ry
      BY <2>2, <3>1, TwiceSettled
    <3>3. PICK x2 \in Nat, y2 \in Nat :
            /\ b = <<x2, y2>> /\ y2 = (x2 * ry) \div rx /\ x2 <= x /\ y2 <= y
            /\ x2 = x \/ x2 = (y * rx) \div ry
      BY <3>2
    <3>4. EstimatedLp(x, y, p) = Minted(x, y, rx, ry, L) /\ minted = Minted(x2, y2, rx, ry, L)
      BY <2>5, <2>8, <2>9, <3>1, <3>3 DEF Minted
    <3>5. /\ Minted(x2, y2, rx, ry, L) <= Minted(x, y, rx, ry, L)
          /\ Minted(x, y, rx, ry, L) <= Minted(x2, y2, rx, ry, L) + 2 + L \div rx + L \div ry
      BY <2>1, <2>2, <3>1, <3>3, EstimateNumbers
    <3>6. /\ minted <= EstimatedLp(x, y, p)
          /\ EstimatedLp(x, y, p) <= minted + 2 + L \div rx + L \div ry
      BY <3>4, <3>5
    <3> QED BY <2>9, <3>6 DEF minted, q, rx, ry, L, x, y
  <2>10. CASE ~HasReserves(p)
    <3>1. L = 0
      BY <2>5, <2>6, <2>10
    <3>2. rx = 0 /\ ry = 0
      <4> DEFINE xm == Minimum(x, p)
                 ym == Minimum(y, p)
      <4>1. xm \in Int /\ ym \in Int
        BY <2>2, MinimumNumber
      <4> HIDE DEF xm, ym
      <4>2. s \in Settled(x, y, xm, ym, rx, ry)
        BY DEF xm, ym
      <4>3. rx # 0 \/ ry # 0 => rx > 0 /\ ry > 0
        <5>1. x \in Int /\ y \in Int /\ rx \in Int /\ ry \in Int
          BY <2>1, <2>2
        <5>2. rx # 0 \/ ry # 0 => s[1] >= 0 /\ s[2] >= 0 /\ rx > 0 /\ ry > 0
          <6> DEFINE i == rx
                     j == ry
                     c == x
                     d == y
          <6>1. s \in Settled(c, d, xm, ym, i, j) /\ c \in Int /\ d \in Int /\ i \in Int /\ j \in Int
            BY <4>2, <5>1
          <6>2. i # 0 \/ j # 0 => s[1] >= 0 /\ s[2] >= 0 /\ i > 0 /\ j > 0
            <7> HIDE DEF i, j, c, d
            <7> QED BY <4>1, <6>1, SettledNumber
          <6> QED BY <6>2
        <5> QED BY <5>2
      <4> QED BY <2>6, <2>10, <4>3
    <3>3. s = <<x, y>> /\ b = <<x, y>>
      <4>1. s = <<x, y>>
        BY <3>2 DEF Settled
      <4> QED BY <3>2, <4>1 DEF Settled
    <3>4. minted = Sqrt(x * y) - MinLiquidity
      BY <2>5, <3>1, <3>3 DEF Minted
    <3>5. x * y \in Nat /\ Newton(x * y) = Sqrt(x * y)
      <4>1. x * y \in Nat
        BY <2>2
      <4> QED BY <4>1, NewtonFindsTheRoot
    <3>6. EstimatedLp(x, y, p) = minted
      BY <2>8, <2>10, <3>4, <3>5
    <3>7. minted \in Int
      BY <3>4, <3>5, SqrtIsRoot, MinLiquidityAssumption
    <3>8. minted <= EstimatedLp(x, y, p) /\ EstimatedLp(x, y, p) = minted
      BY <3>6, <3>7
    <3> QED BY <2>10, <3>8 DEF minted, q, x, y
  <2> QED BY <2>9, <2>10
<1> QED BY <1>1, InvHolds, PTL
=============================================================================
