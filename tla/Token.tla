-------------------------------- MODULE Token --------------------------------
(***************************************************************************)
(* The token contract (contracts/token/src/contract.rs): balances, supply, *)
(* allowances that expire with a ledger, and an administrator who mints.   *)
(* Every entry point is a transaction, hence one action; signer is the     *)
(* account whose authorisation (require_auth) it carries.                  *)
(*                                                                         *)
(* No entry point asks for the sign of its amount.  negatives counts, by   *)
(* the account whose balance they were to raise (mint, transfer) or lower  *)
(* (burn), the calls with a negative amount: the promises of the contract  *)
(* to an account hold as long as nobody aims such a call at it.            *)
(***************************************************************************)
EXTENDS TokenLedger

CONSTANTS
  Accounts,         \* the addresses that hold and spend
  Admin,            \* the administrator at initialization
  Amounts,          \* the amounts callers ask for
  Expirations,      \* the expiration ledgers owners approve until
  Approvals,        \* who approves whom to spend how much
  MaxNegative,      \* bound: the negative amounts aimed at one account
  MaxSeq            \* bound: the last ledger sequence number considered

ASSUME AccountAssumption == Admin \in Accounts /\ IsFiniteSet(Accounts)
ASSUME AmountAssumption ==
  /\ Amounts \subseteq Int /\ Expirations \subseteq Nat /\ MaxSeq \in Nat
  /\ Approvals \subseteq Accounts \X Accounts \X Int

VARIABLES
  admin,
  balance,
  totalSupply,
  allowance,        \* amount and expiration for (owner, spender)
  seq,              \* the sequence number of the current ledger
  signer,           \* history: who signed the last transaction
  negatives         \* history: the negative amounts aimed at each account

vars == <<admin, balance, totalSupply, allowance, seq, signer, negatives>>

Init ==
  /\ admin = Admin
  /\ balance = [a \in Accounts |-> 0]
  /\ totalSupply = 0
  /\ allowance = [p \in Accounts \X Accounts |-> [amount |-> 0, exp |-> 0]]
  /\ seq = 0
  /\ signer = Admin
  /\ negatives = [a \in Accounts |-> 0]

(* The history of a call that is to change a's balance.                    *)
Aim(a, amount) ==
  IF amount < 0
  THEN negatives[a] < MaxNegative /\ negatives' = [negatives EXCEPT ![a] = @ + 1]
  ELSE UNCHANGED negatives

Mint(to, amount) ==
  /\ Fits(totalSupply + amount) /\ Fits(balance[to] + amount)
  /\ totalSupply' = totalSupply + amount
  /\ balance' = Credited(balance, to, amount)
  /\ signer' = admin
  /\ Aim(to, amount)
  /\ UNCHANGED <<admin, allowance, seq>>

SetAdmin(newAdmin) ==
  /\ admin' = newAdmin
  /\ signer' = admin
  /\ UNCHANGED <<balance, totalSupply, allowance, seq, negatives>>

Transfer(from, to, amount) ==
  /\ CanPay(balance, from, to, amount)
  /\ balance' = Moved(balance, from, to, amount)
  /\ signer' = from
  /\ Aim(to, amount)
  /\ UNCHANGED <<admin, totalSupply, allowance, seq>>

TransferFrom(spender, from, to, amount) ==
  /\ MaySpend(allowance[<<from, spender>>], seq, amount)
  /\ CanPay(balance, from, to, amount)
  /\ allowance' = [allowance EXCEPT ![<<from, spender>>].amount = @ - amount]
  /\ balance' = Moved(balance, from, to, amount)
  /\ signer' = spender
  /\ Aim(to, amount)
  /\ UNCHANGED <<admin, totalSupply, seq>>

\* Mutation of Burn: the balance is not checked.
BurnUnchecked(from, amount) ==
  /\ Fits(balance[from] - amount) /\ Fits(totalSupply - amount)
  /\ balance' = Debited(balance, from, amount)
  /\ totalSupply' = totalSupply - amount
  /\ signer' = from
  /\ Aim(from, amount)
  /\ UNCHANGED <<admin, allowance, seq>>

Burn(from, amount) ==
  /\ CanDebit(balance, from, amount) /\ Fits(totalSupply - amount)
  /\ balance' = Debited(balance, from, amount)
  /\ totalSupply' = totalSupply - amount
  /\ signer' = from
  /\ Aim(from, amount)
  /\ UNCHANGED <<admin, allowance, seq>>

Approve(from, spender, amount, exp) ==
  /\ allowance' = [allowance EXCEPT ![<<from, spender>>] = [amount |-> amount, exp |-> exp]]
  /\ signer' = from
  /\ UNCHANGED <<admin, balance, totalSupply, seq, negatives>>

CloseLedger ==
  /\ seq < MaxSeq
  /\ seq' = seq + 1
  /\ UNCHANGED <<admin, balance, totalSupply, allowance, signer, negatives>>

Next ==
  \/ \E to \in Accounts, amount \in Amounts : Mint(to, amount)
  \/ \E a \in Accounts : SetAdmin(a)
  \/ \E from, to \in Accounts, amount \in Amounts : Transfer(from, to, amount)
  \/ \E spender, from, to \in Accounts, amount \in Amounts :
       TransferFrom(spender, from, to, amount)
  \/ \E from \in Accounts, amount \in Amounts : Burn(from, amount)
  \/ \E a \in Approvals, exp \in Expirations : Approve(a[1], a[2], a[3], exp)
  \/ CloseLedger

Spec == Init /\ [][Next]_vars
-----------------------------------------------------------------------------
(* Properties *)

\* Amounts are i128, of either sign; but an account at which nobody has aimed
\* a negative amount is never in debt, whatever is done to the others.
TypeOK ==
  /\ admin \in Accounts /\ signer \in Accounts
  /\ balance \in [Accounts -> Int]
  /\ totalSupply \in Int
  /\ allowance \in [Accounts \X Accounts -> [amount : Int, exp : Nat]]
  /\ negatives \in [Accounts -> Nat]
  /\ \A a \in Accounts : negatives[a] = 0 => balance[a] >= 0
  /\ seq \in 0 .. MaxSeq

\* total_supply, which mint and burn maintain next to the balances, is the sum
\* of the balances, debts included, and stays an i128, whatever amounts are
\* passed: a negative burn mints, but the books do not part.
SupplyIsTotal == totalSupply = Total(balance) /\ Fits(totalSupply)

\* Unless the transaction aims a negative amount at the owner, an owner loses
\* tokens only by signing, or to a spender who had an unexpired allowance for
\* the loss and has that much less of it afterwards.  And unless it passes a
\* negative amount, only an owner's own transaction raises an allowance, and
\* only the administrator's makes tokens.
OwnersConsent ==
  [][/\ \A owner \in Accounts :
          LET lost     == balance[owner] - balance'[owner]
              approved == Reported(allowance[<<owner, signer'>>], seq)
          IN  lost > 0 /\ negatives'[owner] = negatives[owner] =>
                \/ signer' = owner
                \/ /\ lost <= approved
                   /\ Reported(allowance'[<<owner, signer'>>], seq) = approved - lost
     /\ negatives' = negatives =>
          /\ \A p \in Accounts \X Accounts :
               allowance'[p].amount > allowance[p].amount => signer' = p[1]
          /\ totalSupply' > totalSupply => signer' = admin]_vars
=============================================================================
