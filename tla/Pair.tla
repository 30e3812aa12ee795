-------------------------------- MODULE Pair --------------------------------
(***************************************************************************)
(* The pair contract of AquaSwap (contracts/pair/src): one pool of two     *)
(* tokens with its embedded LP token.  Soroban executes transactions one   *)
(* after the other and undoes a transaction that panics, so each entry     *)
(* point is one action, whose guards are the conditions under which the    *)
(* code does not panic.  What interleaves is transactions: deposits,       *)
(* withdrawals, swaps, plain token transfers into the pool, sync and skim, *)
(* in any order and by any user.                                           *)
(*                                                                         *)
(* Few entry points ask for the sign of an amount.  negatives counts what  *)
(* they let through, by what it meddles with; each promise of the pair is  *)
(* stated for as long as none of those that would break it has come.       *)
(* Events are left out: no property is about them.                         *)
(*                                                                         *)
(* The initial state is the one the factory leaves: create_pair deploys    *)
(* the contract and calls initialize in one transaction.                   *)
(***************************************************************************)
EXTENDS PairMath, TokenLedger

CONSTANTS
  Users,            \* accounts that sign transactions, routers included
  Pool,             \* the address of this pair
  TokenX, TokenY,   \* the addresses of its two tokens
  EndowX, EndowY,   \* the tokens each user owns at the start
  Amounts,          \* the amounts callers ask for
  Mins,             \* the minimum amounts callers accept
  Recipients,       \* the `to' addresses callers name
  Expirations,      \* the expiration ledgers owners approve until
  Approvals,        \* who approves whom to spend how much
  MaxNegative,      \* bound: the negative amounts passed
  MaxSeq            \* bound: the last ledger sequence number considered

Address == Users \cup {Pool, TokenX, TokenY}

ASSUME AddressAssumption ==
  /\ Pool \notin Users /\ TokenX \notin Users /\ TokenY \notin Users
  /\ Pool # TokenX /\ Pool # TokenY /\ TokenX # TokenY
ASSUME EndowmentAssumption ==
  EndowX \in [Users -> Nat] /\ EndowY \in [Users -> Nat]
ASSUME InputAssumption ==
  /\ Amounts \subseteq Int /\ Mins \subseteq Int /\ Expirations \subseteq Nat
  /\ Recipients \subseteq Address /\ Approvals \subseteq Users \X Users \X Int
  /\ MaxSeq \in Nat

VARIABLES
  balX, balY,             \* the two token contracts' balances
  reserveX, reserveY,     \* ReserveX and ReserveY of the pair's storage
  totalSupply,            \* TotalSupply, the locked minimum included
  lpBalance,              \* LpBalance of every address
  lpAllowance,            \* LpAllowance and LpAllowanceExp of (owner, spender)
  seq,                    \* the sequence number of the current ledger
  signer,                 \* history: who signed the last transaction
  negatives               \* history: the negative amounts passed, by kind

vars == <<balX, balY, reserveX, reserveY, totalSupply, lpBalance, lpAllowance, seq,
          signer, negatives>>

(***************************************************************************)
(* What a negative amount can meddle with: the tokens of the pool, those   *)
(* of a user, the LP units of anybody, the reserves a first deposit sets,  *)
(* the input a swap pays the fee for.                                      *)
(***************************************************************************)
Kinds == {"pool", "user", "lp", "deposit", "swap"}

NegativesPassed ==
  negatives["pool"] + negatives["user"] + negatives["lp"] + negatives["deposit"] + negatives["swap"]

(* The history of a transaction that passes amounts.                       *)
Passes(kind, amounts) ==
  IF \E n \in amounts : n < 0
  THEN NegativesPassed < MaxNegative /\ negatives' = [negatives EXCEPT ![kind] = @ + 1]
  ELSE UNCHANGED negatives

Untouched(kinds) == \A k \in kinds : negatives[k] = 0

-----------------------------------------------------------------------------
Init ==
  /\ balX = [a \in Address |-> IF a \in Users THEN EndowX[a] ELSE 0]
  /\ balY = [a \in Address |-> IF a \in Users THEN EndowY[a] ELSE 0]
  /\ reserveX = 0 /\ reserveY = 0
  /\ totalSupply = 0
  /\ lpBalance = [a \in Address |-> 0]
  /\ lpAllowance = [p \in Users \X Users |-> [amount |-> 0, exp |-> 0]]
  /\ seq = 0
  /\ signer \in Users
  /\ negatives = [k \in Kinds |-> 0]

(* The reserves become the balances the transaction ends with.             *)
SetReservesToBalances ==
  /\ reserveX' = balX'[Pool]
  /\ reserveY' = balY'[Pool]

-----------------------------------------------------------------------------
(* add_liquidity *)

\* Mutation of Locked: nothing is locked.
LockedNothing == 0

(* lock_forever: units of the supply that nobody holds.                    *)
Locked == IF totalSupply = 0 THEN MinLiquidity ELSE 0

Deposit(caller, x, y, to) ==
  /\ CanPay(balX, caller, Pool, x) /\ CanPay(balY, caller, Pool, y)
  /\ balX' = Moved(balX, caller, Pool, x)
  /\ balY' = Moved(balY, caller, Pool, y)
  /\ MintedOk(x, y, reserveX, reserveY, totalSupply)
  /\ LET lp == Minted(x, y, reserveX, reserveY, totalSupply) IN
       /\ lp > 0
       /\ totalSupply' = totalSupply + Locked + lp
       /\ lpBalance' = Credited(lpBalance, to, lp)
  /\ Fits(totalSupply') /\ Fits(lpBalance'[to])
  /\ SetReservesToBalances
  /\ signer' = caller
  /\ Passes("deposit", {x, y})
  /\ UNCHANGED <<lpAllowance, seq>>

AddLiquidity(caller, xDesired, yDesired, xMin, yMin, to) ==
  \E a \in Settled(xDesired, yDesired, xMin, yMin, reserveX, reserveY) :
    Deposit(caller, a[1], a[2], to)

-----------------------------------------------------------------------------
(* remove_liquidity *)

RemoveLiquidity(caller, liquidity, xMin, yMin, to) ==
  /\ liquidity > 0
  /\ totalSupply # 0
  /\ Fits(liquidity * reserveX) /\ Fits(liquidity * reserveY)
  /\ LET x == ShareOf(liquidity, reserveX, totalSupply)
         y == ShareOf(liquidity, reserveY, totalSupply)
     IN /\ x > 0 /\ y > 0
        /\ x >= xMin /\ y >= yMin
        /\ CanDebit(lpBalance, caller, liquidity) /\ Fits(totalSupply - liquidity)
        /\ lpBalance' = Debited(lpBalance, caller, liquidity)
        /\ totalSupply' = totalSupply - liquidity
        /\ CanPay(balX, Pool, to, x) /\ CanPay(balY, Pool, to, y)
        /\ balX' = Moved(balX, Pool, to, x)
        /\ balY' = Moved(balY, Pool, to, y)
  /\ SetReservesToBalances
  /\ signer' = caller
  /\ UNCHANGED <<lpAllowance, seq, negatives>>

-----------------------------------------------------------------------------
(* swap: pays the output first, then derives the inputs from the balances. *)
(* One output is positive and is paid; the other may be negative, and then *)
(* lets less of the balance count as input.                                *)

PaysOut(b, to, out) == IF out > 0 THEN Moved(b, Pool, to, out) ELSE b

Swap(caller, xOut, yOut, to) ==
  /\ xOut > 0 \/ yOut > 0
  /\ ~(xOut > 0 /\ yOut > 0)
  /\ xOut < reserveX /\ yOut < reserveY
  /\ to \notin {TokenX, TokenY}
  /\ xOut > 0 => CanPay(balX, Pool, to, xOut)
  /\ yOut > 0 => CanPay(balY, Pool, to, yOut)
  /\ balX' = PaysOut(balX, to, xOut)
  /\ balY' = PaysOut(balY, to, yOut)
  /\ LET xIn == AmountIn(balX'[Pool], reserveX, xOut)
         yIn == AmountIn(balY'[Pool], reserveY, yOut)
     IN /\ AmountInOk(balX'[Pool], reserveX, xOut) /\ AmountInOk(balY'[Pool], reserveY, yOut)
        /\ xIn > 0 \/ yIn > 0
        /\ KHolds(reserveX, reserveY, balX'[Pool], balY'[Pool], xIn, yIn)
  /\ SetReservesToBalances
  /\ signer' = caller
  /\ Passes("swap", {xOut, yOut})
  /\ UNCHANGED <<totalSupply, lpBalance, lpAllowance, seq>>

-----------------------------------------------------------------------------
(* sync and skim reconcile reserves and balances, in the two directions.   *)

Sync ==
  /\ UNCHANGED <<balX, balY, totalSupply, lpBalance, lpAllowance, seq, signer, negatives>>
  /\ SetReservesToBalances

Skims(b, reserve, to) ==
  LET surplus == Surplus(b[Pool], reserve)
  IN  Fits(surplus) /\ (surplus > 0 => CanPay(b, Pool, to, surplus))

Skim(to) ==
  /\ Skims(balX, reserveX, to) /\ Skims(balY, reserveY, to)
  /\ balX' = Moved(balX, Pool, to, Surplus(balX[Pool], reserveX))
  /\ balY' = Moved(balY, Pool, to, Surplus(balY[Pool], reserveY))
  /\ UNCHANGED <<reserveX, reserveY, totalSupply, lpBalance, lpAllowance, seq, signer, negatives>>

-----------------------------------------------------------------------------
(* The LP token. *)

\* Mutation of LpTransfer: the sender's balance is not checked.
LpTransferUnchecked(from, to, amount) ==
  /\ lpBalance' = Moved(lpBalance, from, to, amount)
  /\ signer' = from
  /\ Passes("lp", {amount})
  /\ UNCHANGED <<balX, balY, reserveX, reserveY, totalSupply, lpAllowance, seq>>

LpTransfer(from, to, amount) ==
  /\ CanPay(lpBalance, from, to, amount)
  /\ lpBalance' = Moved(lpBalance, from, to, amount)
  /\ signer' = from
  /\ Passes("lp", {amount})
  /\ UNCHANGED <<balX, balY, reserveX, reserveY, totalSupply, lpAllowance, seq>>

(* lp_allowance: what the contract tells a spender it may spend.           *)
LpAllowanceOf(from, spender) == Reported(lpAllowance[<<from, spender>>], seq)

LpTransferFrom(spender, from, to, amount) ==
  /\ MaySpend(lpAllowance[<<from, spender>>], seq, amount)
  /\ CanPay(lpBalance, from, to, amount)
  /\ lpAllowance' = [lpAllowance EXCEPT ![<<from, spender>>].amount = @ - amount]
  /\ lpBalance' = Moved(lpBalance, from, to, amount)
  /\ signer' = spender
  /\ Passes("lp", {amount})
  /\ UNCHANGED <<balX, balY, reserveX, reserveY, totalSupply, seq>>

LpApprove(from, spender, amount, exp) ==
  /\ lpAllowance' = [lpAllowance EXCEPT ![<<from, spender>>] = [amount |-> amount, exp |-> exp]]
  /\ signer' = from
  /\ UNCHANGED <<balX, balY, reserveX, reserveY, totalSupply, lpBalance, seq, negatives>>

-----------------------------------------------------------------------------
(* The environment: token transfers, which a caller of swap makes first to *)
(* pay the input and which anybody may make, and the passing of ledgers.   *)

Target(to) == IF to = Pool THEN "pool" ELSE "user"

TransferX(from, to, amount) ==
  /\ CanPay(balX, from, to, amount)
  /\ balX' = Moved(balX, from, to, amount)
  /\ signer' = from
  /\ Passes(Target(to), {amount})
  /\ UNCHANGED <<balY, reserveX, reserveY, totalSupply, lpBalance, lpAllowance, seq>>

TransferY(from, to, amount) ==
  /\ CanPay(balY, from, to, amount)
  /\ balY' = Moved(balY, from, to, amount)
  /\ signer' = from
  /\ Passes(Target(to), {amount})
  /\ UNCHANGED <<balX, reserveX, reserveY, totalSupply, lpBalance, lpAllowance, seq>>

CloseLedger ==
  /\ seq < MaxSeq
  /\ seq' = seq + 1
  /\ UNCHANGED <<balX, balY, reserveX, reserveY, totalSupply, lpBalance, lpAllowance,
                 signer, negatives>>

-----------------------------------------------------------------------------
Next ==
  \/ \E caller \in Users, to \in Recipients, x, y \in Amounts, xMin, yMin \in Mins :
       AddLiquidity(caller, x, y, xMin, yMin, to)
  \/ \E caller \in Users, to \in Recipients, liquidity \in Amounts, xMin, yMin \in Mins :
       RemoveLiquidity(caller, liquidity, xMin, yMin, to)
  \/ \E caller \in Users, to \in Recipients, xOut, yOut \in Amounts \cup {0} :
       Swap(caller, xOut, yOut, to)
  \/ Sync
  \/ \E to \in Recipients : Skim(to)
  \/ \E from \in Users, to \in Recipients, amount \in Amounts :
       \/ LpTransfer(from, to, amount)
       \/ TransferX(from, to, amount)
       \/ TransferY(from, to, amount)
  \/ \E spender, from \in Users, to \in Recipients, amount \in Amounts :
       LpTransferFrom(spender, from, to, amount)
  \/ \E a \in Approvals, exp \in Expirations : LpApprove(a[1], a[2], a[3], exp)
  \/ CloseLedger

Spec == Init /\ [][Next]_vars
-----------------------------------------------------------------------------
(* Properties.  Each names what must not have been meddled with. *)

\* Without negative amounts of tokens the pool is never in debt, and without
\* negative amounts of LP units no holder is, and the supply is not.
TypeOK ==
  /\ balX \in [Address -> Int] /\ balY \in [Address -> Int]
  /\ reserveX \in Int /\ reserveY \in Int
  /\ totalSupply \in Int
  /\ lpBalance \in [Address -> Int]
  /\ lpAllowance \in [Users \X Users -> [amount : Int, exp : Nat]]
  /\ seq \in 0 .. MaxSeq
  /\ signer \in Users
  /\ negatives \in [Kinds -> Nat]
  /\ Untouched({"pool", "deposit"}) =>
       balX[Pool] >= 0 /\ balY[Pool] >= 0 /\ reserveX >= 0 /\ reserveY >= 0
  /\ Untouched({"lp"}) => totalSupply >= 0 /\ \A a \in Address : lpBalance[a] >= 0

\* Every LP unit of the supply is held by exactly one address, except the
\* MINIMUM_LIQUIDITY units that the first deposit locks (lock_forever): until
\* somebody passes a negative amount of LP units, and whatever is done to the
\* tokens and the reserves.
LpAccounted ==
  Untouched({"lp"}) =>
    totalSupply = Total(lpBalance) + (IF totalSupply = 0 THEN 0 ELSE MinLiquidity)

\* The pool owns at least what its reserves say, so every payment computed
\* from the reserves can be made: until somebody transfers a negative amount
\* of a token to the pool, and whatever else is passed.
ReservesBacked ==
  Untouched({"pool"}) => reserveX <= balX[Pool] /\ reserveY <= balY[Pool]

(* What those who hold LP units own is not meddled with.                   *)
Intact == Untouched({"pool", "lp", "deposit"})

\* The LP supply never exceeds the geometric mean of the reserves, whatever
\* the order of deposits, withdrawals, swaps, syncs and skims.  While LP units
\* exist, neither side of an intact pool can be drained; a negative output of
\* a swap, which evades the fee, does not change that.
SupplyBounded == Intact => totalSupply * totalSupply <= reserveX * reserveY

\* The product of the reserves behind one LP unit, reserveX * reserveY /
\* totalSupply^2, never falls: no transaction that leaves the pool intact takes
\* value from those who hold LP units, rounding included.
ShareValueKept ==
  [][Intact /\ Intact' /\ totalSupply > 0 =>
       reserveX' * reserveY' * totalSupply * totalSupply
         >= reserveX * reserveY * totalSupply' * totalSupply']_vars

V == INSTANCE Vault WITH x <- reserveX, y <- reserveY, shares <- totalSupply,
                         intact <- Intact, Locked <- MinLiquidity

\* The pool implements the abstract vault: as long as it is intact, what its
\* holders own only changes by opening, joining, leaving, gifts and trades;
\* joining and leaving lower neither token behind a share, where
\* ShareValueKept speaks of the product.
ImplementsVault == V!Spec

\* A transaction that takes one token from the pool for the other pays at
\* most what get_amount_out grants for the input: the check that ends swap
\* and the formula the router and the clients quote agree, unless the swap
\* itself names a negative output.
FairTrade(in, out, reserveIn, reserveOut) ==
  in > 0 /\ out > 0 => out <= GetAmountOut(in, reserveIn, reserveOut)

TradesAtQuotedPrice ==
  [][Untouched({"pool"}) /\ negatives' = negatives /\ totalSupply' = totalSupply =>
       /\ FairTrade(reserveX' - reserveX, reserveY - reserveY', reserveX, reserveY)
       /\ FairTrade(reserveY' - reserveY, reserveX - reserveX', reserveY, reserveX)]_vars

\* A transaction that passes no negative amount takes LP units from a holder
\* only if the holder signs, or within what lp_allowance reports in that very
\* ledger to the spender who signs; transfer_from and lp_allowance, which read
\* the expiration separately, draw the line at the same ledger.
HoldersConsent ==
  [][\A holder \in Users :
       LET lost     == lpBalance[holder] - lpBalance'[holder]
           approved == LpAllowanceOf(holder, signer')
       IN  lost > 0 /\ negatives' = negatives =>
             \/ signer' = holder
             \/ /\ lost <= approved
                /\ lpAllowance'[<<holder, signer'>>].amount = approved - lost]_vars
=============================================================================
