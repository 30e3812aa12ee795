------------------------------ MODULE Network ------------------------------
(***************************************************************************)
(* The Stellar network as the clients of AquaSwap use it: transactions     *)
(* that carry the sequence number of their source account and a time       *)
(* bound, and that the network may accept, apply, fail or lose.  Nothing   *)
(* of it is in the repository; what the clients rely on is modelled.       *)
(*                                                                         *)
(* Times are countdowns: `left' is the time for which a transaction is     *)
(* still valid, so that no clock grows.  A sequence number is represented  *)
(* by whether it still is the next one of the source account.              *)
(***************************************************************************)
EXTENDS Naturals

CONSTANTS
  Txs,          \* places for transactions, used again once their fate is known
  TimeBound     \* setTimeout of the transaction builder

VARIABLE tx

Fates == {"none", "built", "pending", "applied", "failed", "lost"}

NoTx == [fate |-> "none", source |-> "nobody", next |-> FALSE, left |-> 0]

NetworkInit == tx = [i \in Txs |-> NoTx]

(* getAccount and TransactionBuilder: the number after the account's.      *)
Build(i, account) ==
  tx' = [tx EXCEPT ![i] = [fate |-> "built", source |-> account, next |-> TRUE, left |-> TimeBound]]

Valid(i) == tx[i].next /\ tx[i].left > 0

OthersPending(i) == \E j \in Txs \ {i} : tx[j].fate = "pending" /\ tx[j].source = tx[i].source

(* sendTransaction, PENDING: the network takes one transaction per account *)
(* at a time.                                                              *)
Accept(i) ==
  /\ tx[i].fate = "built" /\ Valid(i) /\ ~OthersPending(i)
  /\ tx' = [tx EXCEPT ![i].fate = "pending"]

(* A ledger closes with the transaction in it, whose sequence number is    *)
(* used up whether it succeeds or fails.                                   *)
Include(i, fate) ==
  /\ tx[i].fate = "pending" /\ Valid(i)
  /\ tx' = [j \in Txs |->
              [tx[j] EXCEPT !.fate = IF j = i THEN fate ELSE @,
                            !.next = @ /\ tx[j].source # tx[i].source]]

Lose(i) == tx[i].fate = "pending" /\ tx' = [tx EXCEPT ![i].fate = "lost"]

(* Time passes.                                                            *)
Less(n) == IF n = 0 THEN 0 ELSE n - 1
Aged == [i \in Txs |-> [tx[i] EXCEPT !.left = Less(@)]]
=============================================================================
