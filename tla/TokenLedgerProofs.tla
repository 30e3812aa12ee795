-------------------------- MODULE TokenLedgerProofs --------------------------
(***************************************************************************)
(* What a transfer, a credit and a debit do to the sum of all balances,    *)
(* for balances and amounts of either sign.                                *)
(***************************************************************************)
EXTENDS TokenLedger, FiniteSetTheorems, TLAPS

(* A function of balances whose sum is defined.                            *)
IsLedger(b) ==
  b \in [DOMAIN b -> Int] /\ IsFiniteSet(Units(b)) /\ IsFiniteSet(Owed(b))

(* What the accounts other than a hold and owe.                            *)
UnitsOfOthers(b, a) == {u \in Units(b) : u[1] # a}
OwedByOthers(b, a) == {u \in Owed(b) : u[1] # a}
TotalOfOthers(b, a) == Cardinality(UnitsOfOthers(b, a)) - Cardinality(OwedByOthers(b, a))

Floor(n) == IF n > 0 THEN n ELSE 0

\* An interval up to an integer has as many elements, or none.
LEMMA IntervalUnits ==
  ASSUME NEW a, NEW n \in Int
  PROVE  /\ IsFiniteSet({a} \X (1 .. n))
         /\ Cardinality({a} \X (1 .. n)) = Floor(n)
<1>1. IsFiniteSet(1 .. n) /\ Cardinality(1 .. n) = Floor(n)
  BY FS_Interval DEF Floor
<1>2. IsFiniteSet({a}) /\ Cardinality({a}) = 1
  BY FS_Singleton
<1>3. /\ IsFiniteSet({a} \X (1 .. n))
      /\ Cardinality({a} \X (1 .. n)) = Cardinality({a}) * Cardinality(1 .. n)
  BY <1>1, <1>2, FS_Product
<1>4. Floor(n) \in Nat
  BY DEF Floor
<1> QED BY <1>1, <1>2, <1>3, <1>4

\* A ledger's total is what one account holds plus what the others hold.
LEMMA TotalSplits ==
  ASSUME NEW b, b \in [DOMAIN b -> Int], NEW a \in DOMAIN b,
         IsFiniteSet(UnitsOfOthers(b, a)), IsFiniteSet(OwedByOthers(b, a))
  PROVE  /\ IsLedger(b)
         /\ TotalOfOthers(b, a) \in Int
         /\ Total(b) = TotalOfOthers(b, a) + b[a]
<1>1. b[a] \in Int /\ -b[a] \in Int
  OBVIOUS
<1> DEFINE held == {a} \X (1 .. b[a])
           owed == {a} \X (1 .. -b[a])
<1>2. IsFiniteSet(held) /\ Cardinality(held) = Floor(b[a])
  BY <1>1, IntervalUnits
<1>3. IsFiniteSet(owed) /\ Cardinality(owed) = Floor(-b[a])
  BY <1>1, IntervalUnits
<1>4. Units(b) = UnitsOfOthers(b, a) \cup held /\ UnitsOfOthers(b, a) \cap held = {}
  BY <1>1 DEF Units, UnitsOfOthers
<1>5. Owed(b) = OwedByOthers(b, a) \cup owed /\ OwedByOthers(b, a) \cap owed = {}
  BY <1>1 DEF Owed, OwedByOthers
<1>6. /\ Cardinality({}) = 0 /\ Cardinality(UnitsOfOthers(b, a)) \in Nat
      /\ Cardinality(OwedByOthers(b, a)) \in Nat
  BY FS_EmptySet, FS_CardinalityType
<1> HIDE DEF held, owed
<1>7. /\ IsFiniteSet(Units(b))
      /\ Cardinality(Units(b)) = Cardinality(UnitsOfOthers(b, a)) + Cardinality(held)
                                  - Cardinality({})
  BY <1>2, <1>4, FS_Union
<1>8. /\ IsFiniteSet(Owed(b))
      /\ Cardinality(Owed(b)) = Cardinality(OwedByOthers(b, a)) + Cardinality(owed)
                                  - Cardinality({})
  BY <1>3, <1>5, FS_Union
<1> QED BY <1>1, <1>2, <1>3, <1>6, <1>7, <1>8 DEF Total, TotalOfOthers, IsLedger, Floor

\* In a ledger, the units of the others are finitely many.
LEMMA OthersFinite ==
  ASSUME NEW b, IsLedger(b), NEW a \in DOMAIN b
  PROVE  IsFiniteSet(UnitsOfOthers(b, a)) /\ IsFiniteSet(OwedByOthers(b, a))
BY FS_Subset DEF IsLedger, UnitsOfOthers, OwedByOthers

\* A total is an integer.
LEMMA TotalType ==
  ASSUME NEW b, IsLedger(b)
  PROVE  Total(b) \in Int
<1>1. Cardinality(Units(b)) \in Nat /\ Cardinality(Owed(b)) \in Nat
  BY FS_CardinalityType DEF IsLedger
<1> QED BY <1>1 DEF Total

\* If nobody owes anything, no account holds more than the total.
LEMMA BalanceWithinTotal ==
  ASSUME NEW b, IsLedger(b), \A a \in DOMAIN b : b[a] >= 0
  PROVE  /\ Total(b) \in Nat
         /\ \A a \in DOMAIN b : b[a] \in Nat /\ b[a] <= Total(b)
<1>1. b \in [DOMAIN b -> Int]
  BY DEF IsLedger
<1>2. Owed(b) = {}
  BY <1>1 DEF Owed
<1>3. Cardinality({}) = 0 /\ Cardinality(Units(b)) \in Nat
  BY FS_EmptySet, FS_CardinalityType DEF IsLedger
<1>4. Total(b) \in Nat
  BY <1>2, <1>3 DEF Total
<1>5. ASSUME NEW a \in DOMAIN b
      PROVE  b[a] \in Nat /\ b[a] <= Total(b)
  <2>1. IsFiniteSet(UnitsOfOthers(b, a)) /\ IsFiniteSet(OwedByOthers(b, a))
    BY OthersFinite
  <2>2. Cardinality(UnitsOfOthers(b, a)) \in Nat
    BY <2>1, FS_CardinalityType
  <2>3. OwedByOthers(b, a) = {}
    BY <1>2 DEF OwedByOthers
  <2>4. Total(b) = TotalOfOthers(b, a) + b[a]
    BY <1>1, <2>1, TotalSplits
  <2> QED BY <1>1, <1>3, <2>2, <2>3, <2>4 DEF TotalOfOthers
<1> QED BY <1>4, <1>5

\* Changing one balance changes the total by as much.
LEMMA TotalAfterUpdate ==
  ASSUME NEW b, IsLedger(b), NEW a \in DOMAIN b,
         NEW c \in [DOMAIN b -> Int], \A z \in DOMAIN b : z # a => c[z] = b[z]
  PROVE  IsLedger(c) /\ Total(c) = Total(b) - b[a] + c[a]
<1>1. UnitsOfOthers(c, a) = UnitsOfOthers(b, a) /\ OwedByOthers(c, a) = OwedByOthers(b, a)
  BY DEF UnitsOfOthers, Units, OwedByOthers, Owed
<1>2. IsFiniteSet(UnitsOfOthers(b, a)) /\ IsFiniteSet(OwedByOthers(b, a))
  BY OthersFinite
<1>3. b \in [DOMAIN b -> Int]
  BY DEF IsLedger
<1>4. TotalOfOthers(b, a) \in Int /\ Total(b) = TotalOfOthers(b, a) + b[a]
  BY <1>2, <1>3, TotalSplits
<1>5. TotalOfOthers(c, a) = TotalOfOthers(b, a)
  BY <1>1 DEF TotalOfOthers
<1>6. IsLedger(c) /\ Total(c) = TotalOfOthers(c, a) + c[a]
  BY <1>1, <1>2, TotalSplits
<1>7. b[a] \in Int /\ c[a] \in Int
  BY <1>3
<1> QED BY <1>4, <1>5, <1>6, <1>7

\* A credit raises the total by its amount.
LEMMA TotalCredited ==
  ASSUME NEW b, IsLedger(b), NEW to \in DOMAIN b, NEW n \in Int
  PROVE  /\ IsLedger(Credited(b, to, n))
         /\ DOMAIN Credited(b, to, n) = DOMAIN b
         /\ Total(Credited(b, to, n)) = Total(b) + n
<1> DEFINE c == Credited(b, to, n)
<1>1. /\ c \in [DOMAIN b -> Int] /\ c[to] = b[to] + n /\ b[to] \in Int
      /\ \A z \in DOMAIN b : z # to => c[z] = b[z]
  BY DEF Credited, IsLedger
<1> HIDE DEF c
<1>2. IsLedger(c) /\ Total(c) = Total(b) - b[to] + c[to]
  BY <1>1, TotalAfterUpdate
<1>3. Total(b) \in Int
  BY TotalType
<1>4. Total(c) = Total(b) + n
  BY <1>1, <1>2, <1>3
<1> QED BY <1>1, <1>2, <1>4 DEF c

\* A debit lowers the total by its amount, into debt if need be.
LEMMA TotalDebited ==
  ASSUME NEW b, IsLedger(b), NEW from \in DOMAIN b, NEW n \in Int
  PROVE  /\ IsLedger(Debited(b, from, n))
         /\ DOMAIN Debited(b, from, n) = DOMAIN b
         /\ Total(Debited(b, from, n)) = Total(b) - n
<1> DEFINE c == Debited(b, from, n)
<1>1. /\ c \in [DOMAIN b -> Int] /\ c[from] = b[from] - n /\ b[from] \in Int
      /\ \A z \in DOMAIN b : z # from => c[z] = b[z]
  BY DEF Debited, IsLedger
<1> HIDE DEF c
<1>2. IsLedger(c) /\ Total(c) = Total(b) - b[from] + c[from]
  BY <1>1, TotalAfterUpdate
<1>3. Total(b) \in Int
  BY TotalType
<1>4. Total(c) = Total(b) - n
  BY <1>1, <1>2, <1>3
<1> QED BY <1>1, <1>2, <1>4 DEF c

\* A transfer, to oneself too and of whatever sign, keeps the total: no
\* handler that only moves tokens creates or destroys any.
LEMMA TotalMoved ==
  ASSUME NEW b, IsLedger(b), NEW from \in DOMAIN b, NEW to \in DOMAIN b, NEW n \in Int
  PROVE  /\ IsLedger(Moved(b, from, to, n))
         /\ DOMAIN Moved(b, from, to, n) = DOMAIN b
         /\ Total(Moved(b, from, to, n)) = Total(b)
<1> DEFINE d == Debited(b, from, n)
<1>1. IsLedger(d) /\ DOMAIN d = DOMAIN b /\ Total(d) = Total(b) - n
  BY TotalDebited
<1>2. Moved(b, from, to, n) = Credited(d, to, n)
  BY DEF Moved
<1> HIDE DEF d
<1>3. /\ IsLedger(Credited(d, to, n))
      /\ DOMAIN Credited(d, to, n) = DOMAIN d
      /\ Total(Credited(d, to, n)) = Total(d) + n
  BY <1>1, TotalCredited
<1>4. Total(b) \in Int
  BY TotalType
<1>5. Total(Credited(d, to, n)) = Total(b)
  BY <1>1, <1>3, <1>4
<1> QED BY <1>1, <1>2, <1>3, <1>5

\* A transfer that the sender can pay leaves the sender no debt, and if its
\* amount is not negative, nobody has less than before but the sender.
LEMMA MovedSign ==
  ASSUME NEW A, NEW b \in [A -> Int], NEW from \in A, NEW to \in A, NEW n \in Int,
         CanDebit(b, from, n), NEW a \in A
  PROVE  /\ Moved(b, from, to, n) \in [A -> Int]
         /\ a = from /\ from # to => Moved(b, from, to, n)[a] >= 0
         /\ n >= 0 /\ b[a] >= 0 => Moved(b, from, to, n)[a] >= 0
         /\ n >= 0 /\ a # from => Moved(b, from, to, n)[a] >= b[a]
<1>1. b[a] \in Int /\ b[from] \in Int /\ b[to] \in Int /\ b[from] >= n
  BY DEF CanDebit
<1> QED BY <1>1 DEF Moved, Credited, Debited

\* A ledger without tokens.
LEMMA TotalOfZero ==
  ASSUME NEW b, b \in [DOMAIN b -> Int], \A a \in DOMAIN b : b[a] = 0
  PROVE  IsLedger(b) /\ Total(b) = 0
<1>1. Units(b) = {} /\ Owed(b) = {}
  BY DEF Units, Owed
<1> QED BY <1>1, FS_EmptySet DEF Total, IsLedger

\* What an account has is within what all have that are not in debt, and what it
\* owes within what all owe.
LEMMA BalanceWithinUnits ==
  ASSUME NEW b, IsLedger(b), NEW a \in DOMAIN b
  PROVE  /\ Cardinality(Units(b)) \in Nat /\ b[a] <= Cardinality(Units(b))
         /\ Cardinality(Owed(b)) \in Nat /\ -b[a] <= Cardinality(Owed(b))
<1> DEFINE held == {a} \X (1 .. b[a])
           owed == {a} \X (1 .. -b[a])
<1>1. /\ b[a] \in Int /\ -b[a] \in Int
      /\ IsFiniteSet(Units(b)) /\ IsFiniteSet(Owed(b))
  BY DEF IsLedger
<1>2. held \subseteq Units(b) /\ owed \subseteq Owed(b)
  BY DEF Units, Owed
<1>3. Cardinality(held) = Floor(b[a]) /\ Cardinality(owed) = Floor(-b[a])
  BY <1>1, IntervalUnits
<1> HIDE DEF held, owed
<1>4. Cardinality(held) <= Cardinality(Units(b)) /\ Cardinality(owed) <= Cardinality(Owed(b))
  BY <1>1, <1>2, FS_Subset
<1>5. Cardinality(Units(b)) \in Nat /\ Cardinality(Owed(b)) \in Nat
  BY <1>1, FS_CardinalityType
<1> QED BY <1>1, <1>3, <1>4, <1>5 DEF Floor

\* Where no account falls below both zero and what it had, nothing more is owed.
LEMMA OwedShrinks ==
  ASSUME NEW b, IsLedger(b), NEW c, IsLedger(c), DOMAIN c = DOMAIN b,
         \A a \in DOMAIN b : c[a] >= 0 \/ c[a] >= b[a]
  PROVE  Owed(c) \subseteq Owed(b) /\ Cardinality(Owed(c)) <= Cardinality(Owed(b))
<1>1. b \in [DOMAIN b -> Int] /\ c \in [DOMAIN b -> Int] /\ IsFiniteSet(Owed(b))
  BY DEF IsLedger
<1>2. \A a \in DOMAIN b : 1 .. -c[a] \subseteq 1 .. -b[a]
  BY <1>1
<1>3. Owed(c) \subseteq Owed(b)
  BY <1>2 DEF Owed
<1> QED BY <1>1, <1>3, FS_Subset
=============================================================================
