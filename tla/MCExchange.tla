----------------------------- MODULE MCExchange -----------------------------
(* Exchange on small instances. *)
EXTENDS Clients

CONSTANTS
  alice, bob,         \* alice owns tokens at the start, bob receives
  p0, p1, p2,         \* addresses of pairs
  Endowment,          \* how much of each token alice owns
  MaxPairs,           \* how many pairs can be created
  MaxHops,            \* the longest path
  Offered, Given,     \* the positive deposits, and transfers to Payees
  Withheld, Taken,    \* the negative ones, without their signs
  Payees

(* Newton's method finds the square root.                                   *)
ASSUME NewtonIsSqrt == \A y \in 0 .. 400 : Newton(y) = Sqrt(y)

MCEndow == [u \in Users |-> IF u = alice THEN Endowment ELSE 0]
MCDeposits == Offered \cup {-n : n \in Withheld}
MCTransfers == {alice} \X Payees \X (Given \cup {-n : n \in Taken})
MCPairSlots == SubSeq(<<p0, p1, p2>>, 1, MaxPairs)
MCPaths == UNION {[1 .. n -> Tokens] : n \in 1 .. MaxHops + 1}
=============================================================================
