----------------------------- MODULE TokenProofs -----------------------------
(***************************************************************************)
(* Theorems about Token, for any accounts, and amounts of either sign: the *)
(* supply is the total of the balances without exception; that balances    *)
(* are not negative, and that owners lose nothing they have not agreed to, *)
(* holds of the accounts at which no negative amount is aimed.             *)
(***************************************************************************)
EXTENDS Token, TokenLedgerProofs, TLAPS

\* The inductive invariant; that the balances are a ledger (finitely many
\* units) is what lets their total be computed.
Inv == TypeOK /\ SupplyIsTotal /\ IsLedger(balance)

-----------------------------------------------------------------------------
(* The history. *)

\* The negative amounts aimed at an account are counted, and only they are.
LEMMA AimCounts ==
  ASSUME negatives \in [Accounts -> Nat], NEW a \in Accounts, NEW amount \in Int,
         Aim(a, amount)
  PROVE  /\ negatives' \in [Accounts -> Nat]
         /\ \A z \in Accounts : negatives'[z] = 0 => negatives[z] = 0
         /\ amount < 0 => negatives'[a] # 0 /\ negatives'[a] # negatives[a]
                          /\ negatives' # negatives
<1>1. CASE amount < 0
  <2>1. negatives' = [negatives EXCEPT ![a] = @ + 1] /\ negatives[a] \in Nat
    BY <1>1 DEF Aim
  <2>2. negatives' \in [Accounts -> Nat] /\ negatives'[a] = negatives[a] + 1
    BY <2>1
  <2>3. \A z \in Accounts : negatives'[z] = 0 => negatives[z] = 0
    BY <2>1
  <2> QED BY <2>1, <2>2, <2>3
<1>2. CASE ~(amount < 0)
  BY <1>2 DEF Aim
<1> QED BY <1>1, <1>2

-----------------------------------------------------------------------------
(* The invariant. *)

\* A new token has no supply.
LEMMA InitInv == Init => Inv
<1> SUFFICES ASSUME Init PROVE Inv
  OBVIOUS
<1>1. IsLedger(balance) /\ Total(balance) = 0
  BY TotalOfZero DEF Init
<1>2. TypeOK
  BY AccountAssumption, AmountAssumption DEF Init, TypeOK
<1> QED BY <1>1, <1>2, MaxIntAssumption DEF Init, Inv, SupplyIsTotal, Fits

\* Balances that differ from the old ones by what the transaction does, and
\* from which no account emerges in debt but one that was aimed at.
LEMMA BalancesTyped ==
  ASSUME Inv, IsLedger(balance'), DOMAIN balance' = Accounts,
         admin' \in Accounts, signer' \in Accounts, totalSupply' \in Int,
         allowance' \in [Accounts \X Accounts -> [amount : Int, exp : Nat]],
         negatives' \in [Accounts -> Nat], seq' \in 0 .. MaxSeq,
         \A a \in Accounts : negatives'[a] = 0 => balance'[a] >= 0,
         totalSupply' = Total(balance'), Fits(totalSupply')
  PROVE  Inv'
<1>1. balance' \in [Accounts -> Int]
  BY DEF IsLedger
<1> QED BY <1>1 DEF Inv, TypeOK, SupplyIsTotal

\* What a transfer leaves: the sender has paid what it had, and others only
\* lose by a negative amount, the recipient of which is counted.
LEMMA MovedNotInDebt ==
  ASSUME Inv, NEW from \in Accounts, NEW to \in Accounts, NEW amount \in Int,
         CanDebit(balance, from, amount), Aim(to, amount)
  PROVE  \A a \in Accounts : negatives'[a] = 0 => Moved(balance, from, to, amount)[a] >= 0
<1> SUFFICES ASSUME NEW a \in Accounts, negatives'[a] = 0
             PROVE  Moved(balance, from, to, amount)[a] >= 0
  OBVIOUS
<1>1. /\ balance \in [Accounts -> Int] /\ DOMAIN balance = Accounts
      /\ negatives \in [Accounts -> Nat]
      /\ negatives[a] = 0 => balance[a] >= 0
  BY DEF Inv, TypeOK
<1>2. balance[a] >= 0 /\ (amount < 0 => a # to)
  BY <1>1, AimCounts
<1>3. CASE amount >= 0
  BY <1>1, <1>2, <1>3, MovedSign
<1>4. CASE amount < 0 /\ a = from
  BY <1>1, <1>2, <1>4, MovedSign
<1>5. CASE amount < 0 /\ a # from
  <2>1. Moved(balance, from, to, amount)[a] = balance[a]
    BY <1>1, <1>2, <1>5 DEF Moved, Credited, Debited
  <2> QED BY <1>2, <2>1
<1> QED BY <1>3, <1>4, <1>5

\* Every transaction keeps the supply in step with the balances.
LEMMA NextInv == Inv /\ [Next]_vars => Inv'
<1> SUFFICES ASSUME Inv, [Next]_vars PROVE Inv'
  OBVIOUS
<1> USE AmountAssumption
<1>1. /\ balance \in [Accounts -> Int] /\ DOMAIN balance = Accounts /\ IsLedger(balance)
      /\ totalSupply = Total(balance) /\ totalSupply \in Int /\ Fits(totalSupply)
      /\ admin \in Accounts /\ signer \in Accounts
      /\ allowance \in [Accounts \X Accounts -> [amount : Int, exp : Nat]]
      /\ negatives \in [Accounts -> Nat] /\ seq \in 0 .. MaxSeq
      /\ \A a \in Accounts : negatives[a] = 0 => balance[a] >= 0
  BY DEF Inv, TypeOK, SupplyIsTotal
<1>2. ASSUME NEW to \in Accounts, NEW amount \in Amounts, Mint(to, amount)
      PROVE  Inv'
  <2>0. amount \in Int
    OBVIOUS
  <2>1. /\ IsLedger(balance') /\ DOMAIN balance' = Accounts
        /\ Total(balance') = Total(balance) + amount
    BY <1>1, <1>2, TotalCredited DEF Mint
  <2>2. /\ negatives' \in [Accounts -> Nat]
        /\ \A a \in Accounts : negatives'[a] = 0 => negatives[a] = 0
        /\ amount < 0 => negatives'[to] # 0
    BY <1>1, <1>2, <2>0, AimCounts DEF Mint
  <2>3. ASSUME NEW a \in Accounts, negatives'[a] = 0 PROVE balance'[a] >= 0
    <3>1. balance[a] >= 0 /\ (amount < 0 => a # to) /\ balance[a] \in Int
      BY <1>1, <2>2, <2>3
    <3>2. balance' = [balance EXCEPT ![to] = @ + amount]
      BY <1>2 DEF Mint, Credited
    <3> QED BY <1>1, <2>0, <3>1, <3>2
  <2>4. /\ totalSupply' = totalSupply + amount /\ Fits(totalSupply')
        /\ UNCHANGED <<admin, allowance, seq>> /\ signer' = admin
    BY <1>2 DEF Mint
  <2> QED BY <1>1, <2>0, <2>1, <2>2, <2>3, <2>4, BalancesTyped
<1>3. ASSUME NEW a \in Accounts, SetAdmin(a)
      PROVE  Inv'
  BY <1>1, <1>3 DEF SetAdmin, Inv, TypeOK, SupplyIsTotal
<1>4. ASSUME NEW from \in Accounts, NEW to \in Accounts, NEW amount \in Amounts,
             Transfer(from, to, amount)
      PROVE  Inv'
  <2>0. amount \in Int
    OBVIOUS
  <2>1. /\ IsLedger(balance') /\ DOMAIN balance' = Accounts
        /\ Total(balance') = Total(balance)
    BY <1>1, <1>4, TotalMoved DEF Transfer
  <2>2. negatives' \in [Accounts -> Nat]
    BY <1>1, <1>4, <2>0, AimCounts DEF Transfer
  <2>3. \A a \in Accounts : negatives'[a] = 0 => balance'[a] >= 0
    BY <1>4, <2>0, MovedNotInDebt DEF Transfer, CanPay
  <2>4. signer' = from /\ UNCHANGED <<admin, totalSupply, allowance, seq>>
    BY <1>4 DEF Transfer
  <2> QED BY <1>1, <2>1, <2>2, <2>3, <2>4, BalancesTyped
<1>5. ASSUME NEW spender \in Accounts, NEW from \in Accounts, NEW to \in Accounts,
             NEW amount \in Amounts, TransferFrom(spender, from, to, amount)
      PROVE  Inv'
  <2>0. amount \in Int
    OBVIOUS
  <2>1. /\ IsLedger(balance') /\ DOMAIN balance' = Accounts
        /\ Total(balance') = Total(balance)
    BY <1>1, <1>5, TotalMoved DEF TransferFrom
  <2>2. negatives' \in [Accounts -> Nat]
    BY <1>1, <1>5, <2>0, AimCounts DEF TransferFrom
  <2>3. \A a \in Accounts : negatives'[a] = 0 => balance'[a] >= 0
    BY <1>5, <2>0, MovedNotInDebt DEF TransferFrom, CanPay
  <2>4. allowance' \in [Accounts \X Accounts -> [amount : Int, exp : Nat]]
    BY <1>1, <1>5 DEF TransferFrom
  <2>5. signer' = spender /\ UNCHANGED <<admin, totalSupply, seq>>
    BY <1>5 DEF TransferFrom
  <2> QED BY <1>1, <2>1, <2>2, <2>3, <2>4, <2>5, BalancesTyped
<1>6. ASSUME NEW from \in Accounts, NEW amount \in Amounts, Burn(from, amount)
      PROVE  Inv'
  <2>0. amount \in Int
    OBVIOUS
  <2>1. /\ IsLedger(balance') /\ DOMAIN balance' = Accounts
        /\ Total(balance') = Total(balance) - amount
    BY <1>1, <1>6, TotalDebited DEF Burn
  <2>2. /\ negatives' \in [Accounts -> Nat]
        /\ \A a \in Accounts : negatives'[a] = 0 => negatives[a] = 0
    BY <1>1, <1>6, <2>0, AimCounts DEF Burn
  <2>3. ASSUME NEW a \in Accounts, negatives'[a] = 0 PROVE balance'[a] >= 0
    <3>1. balance[a] >= 0 /\ balance[a] \in Int /\ balance[from] >= amount
      BY <1>1, <1>6, <2>2, <2>3 DEF Burn, CanDebit
    <3>2. balance' = [balance EXCEPT ![from] = @ - amount]
      BY <1>6 DEF Burn, Debited
    <3> QED BY <1>1, <2>0, <3>1, <3>2
  <2>4. /\ totalSupply' = totalSupply - amount /\ Fits(totalSupply')
        /\ UNCHANGED <<admin, allowance, seq>> /\ signer' = from
    BY <1>6 DEF Burn
  <2> QED BY <1>1, <2>0, <2>1, <2>2, <2>3, <2>4, BalancesTyped
<1>7. ASSUME NEW a \in Approvals, NEW exp \in Expirations, Approve(a[1], a[2], a[3], exp)
      PROVE  Inv'
  <2>1. a[1] \in Accounts /\ a[2] \in Accounts /\ a[3] \in Int /\ exp \in Nat
    OBVIOUS
  <2>2. allowance' \in [Accounts \X Accounts -> [amount : Int, exp : Nat]]
    BY <1>1, <1>7, <2>1 DEF Approve
  <2> QED BY <1>1, <1>7, <2>1, <2>2 DEF Approve, Inv, TypeOK, SupplyIsTotal
<1>8. CASE CloseLedger
  BY <1>1, <1>8 DEF CloseLedger, Inv, TypeOK, SupplyIsTotal
<1>9. CASE UNCHANGED vars
  BY <1>1, <1>9 DEF vars, Inv, TypeOK, SupplyIsTotal
<1> QED BY <1>2, <1>3, <1>4, <1>5, <1>6, <1>7, <1>8, <1>9 DEF Next

\* Inv is an invariant of the token.
THEOREM InvHolds == Spec => []Inv
BY InitInv, NextInv, PTL DEF Spec

\* An account at which nobody has aimed a negative amount is not in debt,
\* whatever amounts are passed elsewhere.
THEOREM TypeCorrect == Spec => []TypeOK
<1>1. Inv => TypeOK
  BY DEF Inv
<1> QED BY <1>1, InvHolds, PTL

\* The supply that mint and burn maintain is the sum of the balances, for
\* amounts and balances of either sign.
THEOREM SupplyIsTheTotal == Spec => []SupplyIsTotal
<1>1. Inv => SupplyIsTotal
  BY DEF Inv
<1> QED BY <1>1, InvHolds, PTL

-----------------------------------------------------------------------------
(* Consent. *)

\* What one transaction may take from an owner.
LossConsented(owner) ==
  LET lost     == balance[owner] - balance'[owner]
      approved == Reported(allowance[<<owner, signer'>>], seq)
  IN  lost > 0 /\ negatives'[owner] = negatives[owner] =>
        \/ signer' = owner
        \/ /\ lost <= approved
           /\ Reported(allowance'[<<owner, signer'>>], seq) = approved - lost

\* Who may raise an allowance, and who the supply.
RaiseConsented ==
  negatives' = negatives =>
    /\ \A p \in Accounts \X Accounts :
         allowance'[p].amount > allowance[p].amount => signer' = p[1]
    /\ totalSupply' > totalSupply => signer' = admin

\* A transfer takes from nobody but the sender, and from the recipient if its
\* amount is negative.
LEMMA NothingMovedFromOthers ==
  ASSUME Inv, NEW from \in Accounts, NEW to \in Accounts, NEW amount \in Int,
         CanPay(balance, from, to, amount), balance' = Moved(balance, from, to, amount),
         Aim(to, amount), NEW owner \in Accounts, owner # from,
         negatives'[owner] = negatives[owner]
  PROVE  balance[owner] - balance'[owner] <= 0
<1>1. /\ balance \in [Accounts -> Int] /\ DOMAIN balance = Accounts
      /\ negatives \in [Accounts -> Nat]
  BY DEF Inv, TypeOK
<1>2. /\ balance' \in [Accounts -> Int]
      /\ balance[owner] \in Int /\ balance'[owner] \in Int
  BY <1>1 DEF Moved, Credited, Debited
<1>3. amount < 0 => owner # to
  BY <1>1, AimCounts
<1>4. CASE amount >= 0
  <2>1. balance'[owner] >= balance[owner]
    BY <1>1, <1>4, MovedSign DEF CanPay
  <2> QED BY <1>2, <2>1
<1>5. CASE amount < 0
  <2>1. balance'[owner] = balance[owner]
    BY <1>1, <1>3, <1>5 DEF Moved, Credited, Debited
  <2> QED BY <1>2, <2>1
<1> QED BY <1>4, <1>5

\* A spender takes what it subtracts from the allowance.
LEMMA SpenderConsented ==
  ASSUME Inv, NEW spender \in Accounts, NEW from \in Accounts, NEW to \in Accounts,
         NEW amount \in Int, TransferFrom(spender, from, to, amount), NEW owner \in Accounts
  PROVE  LossConsented(owner)
<1> SUFFICES ASSUME balance[owner] - balance'[owner] > 0,
                    negatives'[owner] = negatives[owner]
             PROVE  LET lost     == balance[owner] - balance'[owner]
                        approved == Reported(allowance[<<owner, signer'>>], seq)
                    IN  /\ lost <= approved
                        /\ Reported(allowance'[<<owner, signer'>>], seq) = approved - lost
  BY DEF LossConsented
<1>1. /\ balance \in [Accounts -> Int] /\ DOMAIN balance = Accounts
      /\ allowance \in [Accounts \X Accounts -> [amount : Int, exp : Nat]] /\ seq \in Int
  BY AmountAssumption DEF Inv, TypeOK
<1>2. /\ balance' = Moved(balance, from, to, amount) /\ CanPay(balance, from, to, amount)
      /\ Aim(to, amount) /\ signer' = spender
      /\ MaySpend(allowance[<<from, spender>>], seq, amount)
      /\ allowance' = [allowance EXCEPT ![<<from, spender>>].amount = @ - amount]
  BY DEF TransferFrom
<1>3. balance' \in [Accounts -> Int] /\ balance[owner] \in Int /\ balance'[owner] \in Int
  BY <1>1, <1>2 DEF Moved, Credited, Debited
<1>4. owner = from
  <2>1. owner # from => balance[owner] - balance'[owner] <= 0
    BY <1>2, NothingMovedFromOthers
  <2> QED BY <1>3, <2>1
<1>5. from # to
  <2>1. from = to => balance'[owner] = balance[owner]
    BY <1>1, <1>2, <1>4 DEF Moved, Credited, Debited
  <2> QED BY <1>3, <2>1
<1>6. balance[owner] - balance'[owner] = amount
  <2>1. balance'[owner] = balance[owner] - amount
    BY <1>1, <1>2, <1>4, <1>5 DEF Moved, Credited, Debited
  <2> QED BY <1>3, <2>1
<1>7. /\ allowance[<<from, spender>>].amount \in Int /\ allowance[<<from, spender>>].exp \in Nat
      /\ allowance'[<<from, spender>>].amount = allowance[<<from, spender>>].amount - amount
      /\ allowance'[<<from, spender>>].exp = allowance[<<from, spender>>].exp
  BY <1>1, <1>2
<1> QED BY <1>1, <1>2, <1>4, <1>6, <1>7 DEF MaySpend, Reported

\* Only a transfer by a spender takes from another than the signer.
LEMMA StepLoss == ASSUME Inv, [Next]_vars, NEW owner \in Accounts PROVE LossConsented(owner)
<1> USE AmountAssumption
<1>1. /\ balance \in [Accounts -> Int] /\ DOMAIN balance = Accounts
      /\ negatives \in [Accounts -> Nat] /\ balance[owner] \in Int
  BY DEF Inv, TypeOK
<1>2. ASSUME NEW to \in Accounts, NEW amount \in Amounts, Mint(to, amount)
      PROVE  LossConsented(owner)
  <2>1. amount \in Int /\ balance' = [balance EXCEPT ![to] = @ + amount] /\ Aim(to, amount)
    BY <1>2 DEF Mint, Credited
  <2>2. negatives'[owner] = negatives[owner] /\ owner = to => amount >= 0
    BY <1>1, <2>1, AimCounts
  <2>3. negatives'[owner] = negatives[owner] => ~(balance[owner] - balance'[owner] > 0)
    BY <1>1, <2>1, <2>2
  <2> QED BY <2>3 DEF LossConsented
<1>3. ASSUME NEW from \in Accounts, NEW to \in Accounts, NEW amount \in Amounts,
             Transfer(from, to, amount)
      PROVE  LossConsented(owner)
  <2>1. /\ amount \in Int /\ CanPay(balance, from, to, amount) /\ Aim(to, amount)
        /\ balance' = Moved(balance, from, to, amount) /\ signer' = from
    BY <1>3 DEF Transfer
  <2>2. balance' \in [Accounts -> Int] /\ balance'[owner] \in Int
    BY <1>1, <2>1 DEF Moved, Credited, Debited
  <2>3. owner # from /\ negatives'[owner] = negatives[owner]
          => balance[owner] - balance'[owner] <= 0
    BY <2>1, NothingMovedFromOthers
  <2> QED BY <1>1, <2>1, <2>2, <2>3 DEF LossConsented
<1>4. ASSUME NEW from \in Accounts, NEW amount \in Amounts, Burn(from, amount)
      PROVE  LossConsented(owner)
  <2>1. signer' = from /\ balance' = [balance EXCEPT ![from] = @ - amount]
    BY <1>4 DEF Burn, Debited
  <2>2. owner # from => balance'[owner] = balance[owner]
    BY <1>1, <2>1
  <2> QED BY <1>1, <2>1, <2>2 DEF LossConsented
<1>5. ASSUME balance' = balance
      PROVE  LossConsented(owner)
  BY <1>1, <1>5 DEF LossConsented
<1>6. ASSUME NEW spender \in Accounts, NEW from \in Accounts, NEW to \in Accounts,
             NEW amount \in Amounts, TransferFrom(spender, from, to, amount)
      PROVE  LossConsented(owner)
  BY <1>6, SpenderConsented
<1>7. ASSUME \/ \E a \in Accounts : SetAdmin(a)
             \/ \E a \in Approvals, exp \in Expirations : Approve(a[1], a[2], a[3], exp)
             \/ CloseLedger
             \/ UNCHANGED vars
      PROVE  balance' = balance
  BY <1>7 DEF SetAdmin, Approve, CloseLedger, vars
<1> QED BY <1>2, <1>3, <1>4, <1>5, <1>6, <1>7 DEF Next

\* Allowances are raised by those who give them, tokens made by the administrator.
LEMMA StepRaise == ASSUME Inv, [Next]_vars PROVE RaiseConsented
<1> SUFFICES ASSUME negatives' = negatives
             PROVE  /\ \A p \in Accounts \X Accounts :
                         allowance'[p].amount > allowance[p].amount => signer' = p[1]
                    /\ totalSupply' > totalSupply => signer' = admin
  BY DEF RaiseConsented
<1> USE AmountAssumption
<1>1. /\ negatives \in [Accounts -> Nat] /\ totalSupply \in Int
      /\ allowance \in [Accounts \X Accounts -> [amount : Int, exp : Nat]]
      /\ \A p \in Accounts \X Accounts : allowance[p].amount \in Int
  BY DEF Inv, TypeOK
<1> DEFINE Raise == /\ \A p \in Accounts \X Accounts :
                         allowance'[p].amount > allowance[p].amount => signer' = p[1]
                    /\ totalSupply' > totalSupply => signer' = admin
<1>2. ASSUME NEW to \in Accounts, NEW amount \in Amounts, Mint(to, amount)
      PROVE  Raise
  BY <1>1, <1>2 DEF Mint
<1>3. ASSUME NEW spender \in Accounts, NEW from \in Accounts, NEW to \in Accounts,
             NEW amount \in Amounts, TransferFrom(spender, from, to, amount)
      PROVE  Raise
  <2>1. /\ amount \in Int /\ Aim(to, amount) /\ totalSupply' = totalSupply
        /\ allowance' = [allowance EXCEPT ![<<from, spender>>].amount = @ - amount]
    BY <1>3 DEF TransferFrom
  <2>2. amount >= 0
    BY <1>1, <2>1, AimCounts
  <2>3. ASSUME NEW p \in Accounts \X Accounts
        PROVE  ~(allowance'[p].amount > allowance[p].amount)
    BY <1>1, <2>1, <2>2
  <2> QED BY <1>1, <2>1, <2>3
<1>4. ASSUME NEW from \in Accounts, NEW amount \in Amounts, Burn(from, amount)
      PROVE  Raise
  <2>1. amount \in Int /\ Aim(from, amount) /\ totalSupply' = totalSupply - amount
        /\ allowance' = allowance
    BY <1>4 DEF Burn
  <2>2. amount >= 0
    BY <1>1, <2>1, AimCounts
  <2> QED BY <1>1, <2>1, <2>2
<1>5. ASSUME NEW a \in Approvals, NEW exp \in Expirations, Approve(a[1], a[2], a[3], exp)
      PROVE  Raise
  <2>1. /\ a[1] \in Accounts /\ a[2] \in Accounts
        /\ allowance' = [allowance EXCEPT ![<<a[1], a[2]>>] = [amount |-> a[3], exp |-> exp]]
        /\ signer' = a[1] /\ totalSupply' = totalSupply
    BY <1>5 DEF Approve
  <2>2. ASSUME NEW p \in Accounts \X Accounts, allowance'[p].amount > allowance[p].amount
        PROVE  signer' = p[1]
    <3>1. p # <<a[1], a[2]>> => allowance'[p] = allowance[p]
      BY <1>1, <2>1
    <3>2. p = <<a[1], a[2]>>
      BY <1>1, <2>2, <3>1
    <3> QED BY <2>1, <3>2
  <2> QED BY <1>1, <2>1, <2>2
<1>6. ASSUME UNCHANGED <<totalSupply, allowance>>
      PROVE  Raise
  BY <1>1, <1>6
<1>7. ASSUME \/ \E a \in Accounts : SetAdmin(a)
             \/ \E from, to \in Accounts, amount \in Amounts : Transfer(from, to, amount)
             \/ CloseLedger
             \/ UNCHANGED vars
      PROVE  UNCHANGED <<totalSupply, allowance>>
  BY <1>7 DEF SetAdmin, Transfer, CloseLedger, vars
<1> QED BY <1>2, <1>3, <1>4, <1>5, <1>6, <1>7 DEF Next

\* As long as a transaction does not aim a negative amount at an owner, the
\* owner loses nothing without signing or having allowed it; and one that
\* passes none raises no allowance but the signer's, nor the supply but if the
\* administrator signs.
THEOREM OwnersHaveConsented == Spec => OwnersConsent
<1> DEFINE Consented == (\A owner \in Accounts : LossConsented(owner)) /\ RaiseConsented
<1>1. Inv /\ [Next]_vars => [Consented]_vars
  BY StepLoss, StepRaise
<1>2. Spec => [][Consented]_vars
  <2> HIDE DEF Consented
  <2> QED BY <1>1, InvHolds, PTL DEF Spec
<1>3. OwnersConsent <=> [][Consented]_vars
  BY PTL DEF OwnersConsent, LossConsented, RaiseConsented
<1> QED BY <1>2, <1>3
=============================================================================
