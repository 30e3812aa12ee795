----------------------------- MODULE Submission -----------------------------
(***************************************************************************)
(* One transaction of the web application from the click to the verdict    *)
(* shown to the user: buildSimSignSubmit of soroban.ts (contract calls)    *)
(* and establishTrustline of trustline.ts (which does not simulate), the   *)
(* signature of wallet.ts and waitForTransaction of txStatus.ts.  Each     *)
(* await is a stage at which anything else may happen.  The page that      *)
(* submits says what the transaction is and what follows its verdict.      *)
(***************************************************************************)
EXTENDS Network

CONSTANTS
  Accounts,         \* the source accounts
  Wait              \* timeoutMs of waitForTransaction

ASSUME TimeAssumption == TimeBound \in Nat \ {0} /\ Wait \in Nat \ {0}

VARIABLES
  stage,            \* the await a submission is at, or its verdict
  wait              \* what is left until the deadline of waitForTransaction

submission == <<tx, stage, wait>>

Stages == {"getAccount", "simulate", "sign", "send", "confirm"}
Verdicts == {"success", "failed on-chain", "timed out", "error"}

Running(i) == stage[i] \in Stages

SubmissionInit ==
  /\ NetworkInit
  /\ stage = [i \in Txs |-> "none"]
  /\ wait = [i \in Txs |-> 0]

Goes(i, next) == stage' = [stage EXCEPT ![i] = next]

Submit(i) ==
  /\ stage[i] = "none"
  /\ Goes(i, "getAccount")
  /\ UNCHANGED <<tx, wait>>

GotAccount(i, account, simulates) ==
  /\ stage[i] = "getAccount"
  /\ Build(i, account)
  /\ Goes(i, IF simulates THEN "simulate" ELSE "sign")
  /\ UNCHANGED wait

Simulated(i) ==
  /\ stage[i] = "simulate"
  /\ Goes(i, "sign")
  /\ UNCHANGED <<tx, wait>>

Signed(i) ==
  /\ stage[i] = "sign"
  /\ Goes(i, "send")
  /\ UNCHANGED <<tx, wait>>

\* Mutation of Sent: the wait is shorter than the transaction is valid.
SentWaitsLess(i) ==
  /\ stage[i] = "send"
  /\ Accept(i) \/ UNCHANGED tx
  /\ Goes(i, "confirm")
  /\ wait' = [wait EXCEPT ![i] = Wait - 1]

\* Mutation of Sent: the wait is extended by one interval.
SentWaitsMore(i) ==
  /\ stage[i] = "send"
  /\ Accept(i) \/ UNCHANGED tx
  /\ Goes(i, "confirm")
  /\ wait' = [wait EXCEPT ![i] = Wait + 1]

(* Every answer but ERROR starts the wait: PENDING, and TRY_AGAIN_LATER,   *)
(* after which the network does not have the transaction.                  *)
Sent(i) ==
  /\ stage[i] = "send"
  /\ Accept(i) \/ UNCHANGED tx
  /\ Goes(i, "confirm")
  /\ wait' = [wait EXCEPT ![i] = Wait]

\* Mutation of Confirmed: Horizon's `successful' is not read.
ConfirmedAny(i) == stage[i] = "confirm" /\ tx[i].fate \in {"applied", "failed"}

(* The answers of Horizon that end the wait.  Horizon may be behind: as    *)
(* long as it answers 404 the loop goes on, and nothing changes.           *)
Confirmed(i) == stage[i] = "confirm" /\ tx[i].fate = "applied"

Rejected(i) == stage[i] = "confirm" /\ tx[i].fate = "failed"

\* Mutation of TimedOut: the loop has no deadline.
NeverTimedOut(i) == stage[i] = "confirm" /\ wait[i] = 0 /\ tx[i].fate = "failed"

TimedOut(i) == stage[i] = "confirm" /\ wait[i] = 0

(* An exception at any await: a refused simulation or signature, ERROR, or *)
(* a request that fails, in the last two stages although the network may   *)
(* have the transaction.                                                   *)
Throws(i) ==
  /\ Running(i)
  /\ Goes(i, "error")
  /\ \/ stage[i] = "send" /\ Accept(i)
     \/ UNCHANGED tx
  /\ UNCHANGED wait

Waited(i) ==
  /\ \/ Confirmed(i) /\ Goes(i, "success")
     \/ Rejected(i) /\ Goes(i, "failed on-chain")
     \/ TimedOut(i) /\ Goes(i, "timed out")
  /\ UNCHANGED <<tx, wait>>

(* The network, while the client is busy with whatever it does.            *)
Chain(i, fate) == Include(i, fate) /\ UNCHANGED <<stage, wait>>
Dropped(i)     == Lose(i) /\ UNCHANGED <<stage, wait>>

Pass ==
  /\ tx' = Aged
  /\ wait' = [i \in Txs |-> Less(wait[i])]
  /\ <<tx', wait'>> # <<tx, wait>>
  /\ UNCHANGED stage

(* A place is used again when nothing can happen to its transaction.       *)
Reused(i) ==
  /\ stage[i] \in Verdicts /\ ~(tx[i].fate = "pending" /\ Valid(i))
  /\ tx' = [tx EXCEPT ![i] = NoTx]
  /\ stage' = [stage EXCEPT ![i] = "none"]
  /\ wait' = [wait EXCEPT ![i] = 0]
-----------------------------------------------------------------------------
Answered(i) ==
  \/ \E account \in Accounts, simulates \in BOOLEAN : GotAccount(i, account, simulates)
  \/ Simulated(i)
  \/ Sent(i)
  \/ Waited(i)

Next ==
  \/ \E i \in Txs :
       \/ Submit(i)
       \/ Answered(i) \/ Signed(i) \/ Throws(i)
       \/ \E fate \in {"applied", "failed"} : Chain(i, fate)
       \/ Dropped(i)
       \/ Reused(i)
  \/ Pass

(* Requests are answered and time passes.  Nothing is asked of the ledger, *)
(* of the user, who need not answer the wallet, nor of exceptions.         *)
Fairness ==
  /\ WF_submission(Pass)
  /\ \A i \in Txs : WF_submission(Answered(i))

Spec == SubmissionInit /\ [][Next]_submission /\ Fairness
-----------------------------------------------------------------------------
TypeOK ==
  \A i \in Txs :
    /\ tx[i].fate \in Fates /\ tx[i].next \in BOOLEAN /\ tx[i].left \in 0 .. TimeBound
    /\ stage[i] \in Stages \cup Verdicts \cup {"none"} /\ wait[i] \in 0 .. Wait

\* The verdicts are true of the ledger: success and failure are only shown of
\* a transaction that was applied, or applied and failed.
VerdictsHold ==
  \A i \in Txs : /\ stage[i] = "success" => tx[i].fate = "applied"
                 /\ stage[i] = "failed on-chain" => tx[i].fate = "failed"

S == INSTANCE Settlement WITH
       verdict <- [i \in Txs |-> IF Running(i) THEN "running" ELSE stage[i]],
       outcome <- [i \in Txs |-> IF tx[i].fate \in {"applied", "failed"} THEN tx[i].fate ELSE "open"]

\* The life cycle keeps what the pages rely on.  In particular a transaction
\* reported as timed out may have been applied before, unseen, but is never
\* applied afterwards: the wait is as long as the transaction is valid and
\* starts later, so a user who submits again does not act twice.
KeepsPromise == S!SettlementSpec

\* Every transaction the user has signed gets a verdict, so that no button
\* stays disabled, although the network may lose it or never take it.
SubmissionsEnd ==
  \A i \in Txs : stage[i] \in {"send", "confirm"} ~> stage[i] \in Verdicts
=============================================================================
