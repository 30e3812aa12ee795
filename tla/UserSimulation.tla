--------------------------- MODULE UserSimulation ---------------------------
(***************************************************************************)
(* The harness that drives test users through the deployed contracts and   *)
(* records evidence (scripts/testing/simulate-users.mjs): one user after   *)
(* the other, each through the steps of runUser, each step after the one   *)
(* before.  Its invoke is a Submission that gives up after a minute while  *)
(* the transaction stays valid for two, so what is recorded as failed may  *)
(* be applied during a later step.                                         *)
(***************************************************************************)
EXTENDS Submission, FiniteSets

CONSTANTS
  Users,            \* how many users
  Quotes            \* what the router may quote, in stroops

VARIABLES
  user, step,       \* the user and the step of the journey that are under way
  awaiting,         \* the transaction that invoke awaits, if any
  job,              \* what each transaction does
  usdcOut,          \* what doSwap returned for the purchase
  record,           \* how many swaps are recorded, by status
  usdc, applied,    \* the ledger: the user's USDC, and the user's swaps applied
  unsure            \* history: swaps recorded as FAILED that were sent and not seen to fail

ledger == <<usdc, applied>>
journey == <<user, step, usdcOut, record, unsure>>
vars == <<submission, journey, awaiting, job, ledger>>

Nothing == "nothing"

ASSUME CohortAssumption ==
  /\ Users \in Nat \ {0} /\ Accounts = 0 .. Users - 1
  /\ Quotes \subseteq Nat \ {0}
  /\ IsFiniteSet(Txs) /\ Nothing \notin Txs

NoJob == [step |-> "none"]
Earlier == [step |-> "of an earlier user"]

Purchases == {"buy", "repeat"}
Swaps == Purchases \cup {"sell"}
Approvals == {"approve XLM", "approve USDC"}

NoSwaps == [SUCCESS |-> 0, FAILED |-> 0]

Init ==
  /\ SubmissionInit
  /\ user = 0 /\ step = "fund" /\ usdcOut = 0 /\ record = NoSwaps
  /\ usdc = 0 /\ applied = 0 /\ unsure = 0
  /\ awaiting = Nothing /\ job = [i \in Txs |-> NoJob]

-----------------------------------------------------------------------------
(* The order of the steps.  Every third user buys again, every second one  *)
(* sells half of a purchase that is worth it.                              *)

AfterPurchases(out) == IF user % 2 = 1 /\ out > 100 THEN "approve USDC" ELSE "done"

AfterStep(out) ==
  CASE step = "fund" -> "trustline"
    [] step = "trustline" -> "approve XLM"
    [] step = "approve XLM" -> "buy"
    [] step = "buy" -> IF user % 3 = 0 THEN "repeat" ELSE AfterPurchases(out)
    [] step = "repeat" -> AfterPurchases(out)
    [] step = "approve USDC" -> "sell"
    [] OTHER -> "done"

GoOn(out) == step' = AfterStep(out)
GiveUp == step' = "done"

(* Friendbot, and the trust line through Horizon: an exception ends the    *)
(* user's journey.                                                         *)
Onboard ==
  /\ step \in {"fund", "trustline"}
  /\ GoOn(usdcOut) \/ GiveUp
  /\ UNCHANGED <<submission, user, usdcOut, record, unsure, awaiting, job, ledger>>

-----------------------------------------------------------------------------
(* invoke *)

Begin(i, what) ==
  /\ awaiting = Nothing /\ awaiting' = i
  /\ Submit(i)
  /\ job' = [job EXCEPT ![i] = what]
  /\ UNCHANGED <<journey, ledger>>

Approve(i) == step \in Approvals /\ Begin(i, [step |-> step])

MinOut(quoted) == IF quoted > 10 THEN (quoted * 90) \div 100 ELSE 1

SellAmount == usdcOut \div 2

(* doSwap: a swap that was quoted is sent ...                              *)
Swap(i) ==
  /\ step \in Swaps
  /\ \E quoted \in Quotes :
       Begin(i, [step |-> step, quoted |-> quoted, min |-> MinOut(quoted),
                 sold |-> IF step = "sell" THEN SellAmount ELSE 0])

Recorded(status) == record' = [record EXCEPT ![status] = @ + 1]

(* ... and one whose quote is zero, or fails, is recorded as FAILED.       *)
NotQuoted ==
  /\ step \in Swaps /\ awaiting = Nothing
  /\ Recorded("FAILED")
  /\ GoOn(usdcOut)
  /\ UNCHANGED <<submission, user, usdcOut, unsure, awaiting, job, ledger>>

Invoking(i) ==
  /\ awaiting = i
  /\ GotAccount(i, user, TRUE) \/ Simulated(i) \/ Signed(i) \/ Sent(i)
  /\ UNCHANGED <<journey, awaiting, job, ledger>>

(* invoke returns: the step is done, and a purchase's quote kept.          *)
Succeeds(i) ==
  /\ awaiting = i /\ awaiting' = Nothing
  /\ Waited(i) /\ stage'[i] = "success"
  /\ IF step \in Swaps THEN Recorded("SUCCESS") ELSE UNCHANGED record
  /\ usdcOut' = IF step = "buy" THEN job[i].quoted ELSE usdcOut
  /\ GoOn(usdcOut')
  /\ UNCHANGED <<user, unsure, job, ledger>>

\* Mutation of Abandoned: doSwap returns what was quoted even if invoke throws.
AbandonedWithQuote(i) ==
  /\ awaiting = i /\ awaiting' = Nothing
  /\ unsure' = IF step \in Swaps /\ stage[i] \in {"send", "confirm"} /\ stage'[i] # "failed on-chain"
               THEN unsure + 1 ELSE unsure
  /\ IF step \in Swaps
     THEN usdcOut' = (IF step = "buy" THEN job[i].quoted ELSE usdcOut) /\ Recorded("FAILED") /\ GoOn(usdcOut')
     ELSE GiveUp /\ UNCHANGED <<record, usdcOut>>
  /\ UNCHANGED <<user, job, ledger>>

(* invoke throws: doSwap records it and the journey goes on; an approval   *)
(* that fails ends it.                                                     *)
Abandoned(i) ==
  /\ awaiting = i /\ awaiting' = Nothing
  /\ unsure' = IF step \in Swaps /\ stage[i] \in {"send", "confirm"} /\ stage'[i] # "failed on-chain"
               THEN unsure + 1 ELSE unsure
  /\ UNCHANGED usdcOut
  /\ IF step \in Swaps THEN Recorded("FAILED") /\ GoOn(usdcOut) ELSE GiveUp /\ UNCHANGED record
  /\ UNCHANGED <<user, job, ledger>>

Fails(i) == Waited(i) /\ stage'[i] # "success" /\ Abandoned(i)

(* Signing is done by the harness itself and does not fail.                *)
Breaks(i) == stage[i] # "sign" /\ Throws(i) /\ Abandoned(i)

\* Mutation of NextUser: one user too many.
NextUserTooMany ==
  /\ step = "done" /\ user < Users
  /\ user' = user + 1 /\ step' = "fund" /\ usdcOut' = 0 /\ record' = NoSwaps
  /\ usdc' = 0 /\ applied' = 0 /\ unsure' = 0
  /\ job' = [i \in Txs |-> IF job[i] = NoJob THEN NoJob ELSE Earlier]
  /\ UNCHANGED <<submission, awaiting>>

(* The next user, with an account of their own.                            *)
NextUser ==
  /\ step = "done" /\ user < Users - 1
  /\ user' = user + 1 /\ step' = "fund" /\ usdcOut' = 0 /\ record' = NoSwaps
  /\ usdc' = 0 /\ applied' = 0 /\ unsure' = 0
  /\ job' = [i \in Txs |-> IF job[i] = NoJob THEN NoJob ELSE Earlier]
  /\ UNCHANGED <<submission, awaiting>>

-----------------------------------------------------------------------------
(* The ledger *)

Ours(i) == job[i].step \in Swaps

(* A swap pays between the minimum and the quote, and fails if the user    *)
(* does not own what it sells.                                             *)
Applied(i) ==
  /\ Chain(i, "applied")
  /\ IF Ours(i)
     THEN /\ job[i].sold <= usdc
          /\ \E paid \in {job[i].min, job[i].quoted} :
               usdc' = usdc - job[i].sold + (IF job[i].step \in Purchases THEN paid ELSE 0)
          /\ applied' = applied + 1
     ELSE UNCHANGED ledger
  /\ UNCHANGED <<journey, awaiting, job>>

Elsewhere(i) ==
  /\ Chain(i, "failed") \/ Dropped(i)
  /\ UNCHANGED <<journey, awaiting, job, ledger>>

TimePasses == Pass /\ UNCHANGED <<journey, awaiting, job, ledger>>

Forgotten(i) ==
  /\ Reused(i)
  /\ job' = [job EXCEPT ![i] = NoJob]
  /\ UNCHANGED <<journey, awaiting, ledger>>

Harness ==
  \/ Onboard
  \/ NotQuoted
  \/ NextUser
  \/ \E i \in Txs : Approve(i) \/ Swap(i) \/ Invoking(i) \/ Succeeds(i) \/ Fails(i)

Exception == \E i \in Txs : Breaks(i)

Finished == step = "done" /\ user = Users - 1

HarnessNext ==
  \/ Harness \/ Exception
  \/ \E i \in Txs : Applied(i) \/ Elsewhere(i) \/ Forgotten(i)
  \/ TimePasses
  \/ Finished /\ UNCHANGED vars

(* Requests are answered and time passes; a place is free again some time  *)
(* after its transaction cannot be applied any more.                       *)
HarnessFairness == WF_vars(Harness) /\ WF_vars(TimePasses) /\ \A i \in Txs : WF_vars(Forgotten(i))

HarnessSpec == Init /\ [][HarnessNext]_vars /\ HarnessFairness
-----------------------------------------------------------------------------
HarnessTypeOK ==
  /\ user \in 0 .. Users - 1
  /\ awaiting \in Txs \cup {Nothing}
  /\ usdc \in Nat /\ applied \in Nat
  /\ \A i \in Txs : (stage[i] = "none") <=> (job[i] = NoJob)

\* Between two steps the record of a user is true of the ledger: every swap
\* recorded as SUCCESS was applied, and no swap was applied but these and some
\* of those that were recorded as FAILED without having been seen to fail.
EvidenceBacked ==
  awaiting = Nothing => record.SUCCESS <= applied /\ applied <= record.SUCCESS + unsure

\* Whoever sells back half of what the purchase was quoted at owns that much,
\* although the purchase may have paid less than its quote.
SellsWhatWasBought ==
  \A i \in Txs : Ours(i) /\ job[i].step = "sell" /\ tx[i].fate # "applied" => job[i].sold <= usdc

\* Every journey ends, whatever the network does with the transactions.
HarnessEnds == <>Finished
=============================================================================
