---------------------------- MODULE TokenLedger ----------------------------
(***************************************************************************)
(* Balances of a fungible token as functions from accounts to amounts, and *)
(* the ways the contracts change them: do_transfer of contracts/token and  *)
(* transfer of the LP token embedded in a pair (lp_token.rs); and the      *)
(* allowances both grant.                                                  *)
(*                                                                         *)
(* No function here asks for the sign of an amount: transferring -n pays n *)
(* to the sender and takes n from the recipient, whatever either has, and  *)
(* spending -n raises the allowance by n.                                  *)
(***************************************************************************)
EXTENDS Int128, FiniteSets

Credited(b, to, n) == [b EXCEPT ![to] = @ + n]

Debited(b, from, n) == [b EXCEPT ![from] = @ - n]

\* Mutation of Moved: the recipient's balance is read before the sender's is
\* written.
MovedStale(b, from, to, n) == [Debited(b, from, n) EXCEPT ![to] = b[to] + n]

(***************************************************************************)
(* Both implementations read the recipient's balance after writing the     *)
(* sender's, so a transfer to oneself changes nothing.                     *)
(***************************************************************************)
Moved(b, from, to, n) == Credited(Debited(b, from, n), to, n)

CanDebit(b, from, n) == b[from] >= n /\ Fits(b[from] - n)

CanPay(b, from, to, n) == CanDebit(b, from, n) /\ Fits(Moved(b, from, to, n)[to])

(***************************************************************************)
(* Allowances: an amount and the last ledger in which it may be spent.     *)
(* Reported is what a contract answers when asked for an allowance,        *)
(* MaySpend what it checks before it lets a spender spend.                 *)
(***************************************************************************)
Reported(allowed, seq) == IF allowed.exp < seq THEN 0 ELSE allowed.amount

\* Mutation of MaySpend: an allowance outlives its expiration by one ledger.
MaySpendLate(allowed, seq, amount) ==
  allowed.exp + 1 >= seq /\ allowed.amount >= amount /\ Fits(allowed.amount - amount)

MaySpend(allowed, seq, amount) ==
  allowed.exp >= seq /\ allowed.amount >= amount /\ Fits(allowed.amount - amount)

(***************************************************************************)
(* The sum of all balances, as units held less units owed: an account with *)
(* n tokens holds the units <<a, 1>>, ..., <<a, n>>, an account with -n    *)
(* owes them.                                                              *)
(***************************************************************************)
Units(b) == UNION {{a} \X (1 .. b[a]) : a \in DOMAIN b}
Owed(b) == UNION {{a} \X (1 .. -b[a]) : a \in DOMAIN b}

Total(b) == Cardinality(Units(b)) - Cardinality(Owed(b))
=============================================================================
