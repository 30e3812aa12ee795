-------------------------------- MODULE Vault --------------------------------
(***************************************************************************)
(* What a pool promises to those who hold a share of it: two amounts and   *)
(* a number of shares, and the steps by which they may change, as long as  *)
(* the pool is intact.  Nothing is said of formulas, fees, callers or      *)
(* balances, nor of what becomes of a pool that is not intact any more;    *)
(* Pair implements it, and so does every pair of Exchange.                 *)
(***************************************************************************)
EXTENDS Integers

CONSTANT Locked     \* shares that nobody ever gets back

VARIABLES x, y, shares, intact

vault == <<x, y, shares, intact>>

Init == x = 0 /\ y = 0 /\ shares = 0 /\ intact = TRUE

(* Both amounts per share are at least what they were.                     *)
KeepsEachSide == x' * shares >= x * shares' /\ y' * shares >= y * shares'

Open ==
  /\ shares = 0
  /\ shares' > Locked /\ shares' * shares' <= x' * y'

Join == shares > 0 /\ shares' > shares /\ KeepsEachSide

Leave == shares' < shares /\ shares' >= Locked /\ KeepsEachSide

Gift == shares' = shares /\ x' >= x /\ y' >= y

Trade == shares' = shares /\ x' >= 0 /\ y' >= 0 /\ x' * y' >= x * y

Damage == ~intact'

Next == (intact /\ intact' /\ (Open \/ Join \/ Leave \/ Gift \/ Trade)) \/ Damage

Spec == Init /\ [][Next]_vault
=============================================================================
