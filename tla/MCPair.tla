------------------------------- MODULE MCPair -------------------------------
(* Pair on small instances. *)
EXTENDS Pair

CONSTANTS
  alice, bob,
  Endowed,     \* the users who own tokens at the start, the others receive theirs
  Endowment    \* how much of each token they own

MCEndow == [u \in Users |-> IF u \in Endowed THEN Endowment ELSE 0]
MCAmounts == {-2, 2, 3}
MCApprovals == {<<alice, bob, 2>>}
=============================================================================
