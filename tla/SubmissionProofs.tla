-------------------------- MODULE SubmissionProofs --------------------------
(***************************************************************************)
(* What holds of the web application's transactions for any number of      *)
(* them, of accounts, and any times; and of its other client, the harness  *)
(* that simulates users.                                                   *)
(*                                                                         *)
(* Inv is inductive: it says what the network can have done with a         *)
(* transaction at each stage.  Waiting is the part of the argument that    *)
(* needs Wait >= TimeBound: the wait is then never shorter than what is    *)
(* left of the transaction's validity.                                     *)
(***************************************************************************)
EXTENDS UserSimulation, FiniteSetTheorems, TLAPS

TxRecord == [fate : Fates, source : Accounts \cup {"nobody"},
             next : BOOLEAN, left : 0 .. TimeBound]

Typed ==
  /\ tx \in [Txs -> TxRecord]
  /\ stage \in [Txs -> Stages \cup Verdicts \cup {"none"}]
  /\ wait \in [Txs -> 0 .. Wait]

\* The network has not seen a transaction that was not sent.
Unsent ==
  \A i \in Txs :
    /\ stage[i] \in {"none", "getAccount"} => tx[i].fate = "none"
    /\ stage[i] \in {"simulate", "sign", "send"} => tx[i].fate = "built"

Inv == Typed /\ Unsent /\ VerdictsHold

\* A transaction is not valid for longer than it is waited for.
Waiting ==
  \A i \in Txs :
    /\ stage[i] = "confirm" => tx[i].left <= wait[i]
    /\ stage[i] = "timed out" => tx[i].left = 0

-----------------------------------------------------------------------------
(* The parts of a step. *)

\* Every step is one of these: a step of the client on one transaction, which
\* may build or hand over that transaction, or a step of the network or time.
LEMMA NextCases ==
  ASSUME [Next]_submission
  PROVE  \/ \E i \in Txs :
              \/ Submit(i)
              \/ \E account \in Accounts, simulates \in BOOLEAN :
                   GotAccount(i, account, simulates)
              \/ Simulated(i) \/ Signed(i) \/ Sent(i) \/ Waited(i) \/ Throws(i)
              \/ \E fate \in {"applied", "failed"} : Chain(i, fate)
              \/ Dropped(i) \/ Reused(i)
         \/ Pass
         \/ UNCHANGED submission
BY DEF Next, Answered

\* A transaction stays a record of its kind when it is handed over or lost.
LEMMA FateTyped ==
  ASSUME NEW i \in Txs, NEW fate \in Fates, tx \in [Txs -> TxRecord],
         tx' = [tx EXCEPT ![i].fate = fate]
  PROVE  /\ tx' \in [Txs -> TxRecord]
         /\ tx'[i].fate = fate /\ tx'[i].left = tx[i].left
         /\ \A j \in Txs \ {i} : tx'[j] = tx[j]
<1>1. tx[i] \in TxRecord
  OBVIOUS
<1>2. /\ [tx[i] EXCEPT !.fate = fate] \in TxRecord
      /\ [tx[i] EXCEPT !.fate = fate].fate = fate
      /\ [tx[i] EXCEPT !.fate = fate].left = tx[i].left
  BY <1>1 DEF TxRecord
<1>3. tx' = [tx EXCEPT ![i] = [tx[i] EXCEPT !.fate = fate]]
  OBVIOUS
<1> QED BY <1>2, <1>3

\* A ledger with a transaction in it decides that one and no other.
LEMMA IncludeTyped ==
  ASSUME NEW i \in Txs, NEW fate \in Fates, tx \in [Txs -> TxRecord], Include(i, fate)
  PROVE  /\ tx' \in [Txs -> TxRecord]
         /\ tx[i].fate = "pending" /\ tx[i].left > 0
         /\ tx'[i].fate = fate
         /\ \A j \in Txs \ {i} : tx'[j].fate = tx[j].fate
         /\ \A j \in Txs : tx'[j].left = tx[j].left
<1> DEFINE Decided(j) == [tx[j] EXCEPT !.fate = IF j = i THEN fate ELSE @,
                                       !.next = @ /\ tx[j].source # tx[i].source]
<1>1. tx' = [j \in Txs |-> Decided(j)] /\ tx[i].fate = "pending" /\ tx[i].left > 0
  BY DEF Include, Valid
<1>2. ASSUME NEW j \in Txs
      PROVE  /\ Decided(j) \in TxRecord
             /\ Decided(j).fate = IF j = i THEN fate ELSE tx[j].fate
             /\ Decided(j).left = tx[j].left
  <2>1. tx[j] \in TxRecord
    OBVIOUS
  <2> QED BY <2>1 DEF TxRecord
<1> HIDE DEF Decided
<1> QED BY <1>1, <1>2

\* A countdown stays within its bound, and ends at zero.
LEMMA LessBound ==
  ASSUME NEW bound \in Nat, NEW n \in 0 .. bound
  PROVE  Less(n) \in 0 .. bound
BY DEF Less

\* Time makes every transaction older and changes nothing else of it.
LEMMA AgedTyped ==
  ASSUME tx \in [Txs -> TxRecord], tx' = Aged
  PROVE  /\ tx' \in [Txs -> TxRecord]
         /\ \A j \in Txs : tx'[j].fate = tx[j].fate /\ tx'[j].left = Less(tx[j].left)
<1>1. ASSUME NEW j \in Txs
      PROVE  /\ [tx[j] EXCEPT !.left = Less(@)] \in TxRecord
             /\ [tx[j] EXCEPT !.left = Less(@)].fate = tx[j].fate
             /\ [tx[j] EXCEPT !.left = Less(@)].left = Less(tx[j].left)
  <2>1. tx[j] \in TxRecord
    OBVIOUS
  <2>2. Less(tx[j].left) \in 0 .. TimeBound
    BY <2>1, TimeAssumption, LessBound DEF TxRecord
  <2> QED BY <2>1, <2>2 DEF TxRecord
<1> QED BY <1>1 DEF Aged

-----------------------------------------------------------------------------
(* The invariant. *)

\* Building gives a transaction its time bound.
LEMMA BuildTyped ==
  ASSUME NEW i \in Txs, NEW account \in Accounts, tx \in [Txs -> TxRecord], Build(i, account)
  PROVE  /\ tx' \in [Txs -> TxRecord]
         /\ tx'[i].fate = "built" /\ tx'[i].left = TimeBound
         /\ \A j \in Txs \ {i} : tx'[j] = tx[j]
<1>1. [fate |-> "built", source |-> account, next |-> TRUE, left |-> TimeBound] \in TxRecord
  BY TimeAssumption DEF TxRecord, Fates
<1> QED BY <1>1 DEF Build

\* A place that is used again holds no transaction.
LEMMA NoTxTyped == NoTx \in TxRecord /\ NoTx.fate = "none" /\ NoTx.left = 0
BY TimeAssumption DEF NoTx, TxRecord, Fates

\* What a handed-over transaction is.
LEMMA AcceptTyped ==
  ASSUME NEW i \in Txs, tx \in [Txs -> TxRecord], Accept(i)
  PROVE  /\ tx' \in [Txs -> TxRecord]
         /\ tx[i].fate = "built" /\ tx'[i].fate = "pending" /\ tx'[i].left = tx[i].left
         /\ \A j \in Txs \ {i} : tx'[j] = tx[j]
<1>1. "pending" \in Fates /\ tx[i].fate = "built"
  BY DEF Fates, Accept
<1> QED BY <1>1, FateTyped DEF Accept

\* The network has nothing that was not sent, at the start and after every step.
LEMMA InitInv == SubmissionInit => Inv
<1>1. TimeBound \in Nat /\ Wait \in Nat
  BY TimeAssumption
<1> QED BY <1>1, NoTxTyped DEF SubmissionInit, NetworkInit, Inv, Typed, Unsent, VerdictsHold

\* A step at one place keeps the invariant if it does so at that place.
LEMMA PlaceInv ==
  ASSUME Inv, NEW i \in Txs,
         NEW next \in Stages \cup Verdicts \cup {"none"}, NEW left \in 0 .. Wait,
         tx' \in [Txs -> TxRecord], \A j \in Txs \ {i} : tx'[j].fate = tx[j].fate,
         stage' = [stage EXCEPT ![i] = next], wait' = [wait EXCEPT ![i] = left],
         next \in {"none", "getAccount"} => tx'[i].fate = "none",
         next \in {"simulate", "sign", "send"} => tx'[i].fate = "built",
         next = "success" => tx'[i].fate = "applied",
         next = "failed on-chain" => tx'[i].fate = "failed"
  PROVE  Inv'
<1>1. Typed'
  BY DEF Inv, Typed
<1>2. stage'[i] = next /\ \A j \in Txs \ {i} : stage'[j] = stage[j]
  BY DEF Inv, Typed
<1>3. Unsent' /\ VerdictsHold'
  BY <1>2 DEF Inv, Unsent, VerdictsHold
<1> QED BY <1>1, <1>3 DEF Inv

\* Every step of a transaction, of the network and of time keeps the invariant.
LEMMA NextInv == ASSUME Inv, [Next]_submission PROVE Inv'
<1>0. Wait \in Nat /\ Wait \in 0 .. Wait /\ 0 \in 0 .. Wait
  BY TimeAssumption
<1> USE DEF Inv, Typed, Unsent, VerdictsHold, Goes, Stages, Verdicts
<1>1. ASSUME NEW i \in Txs, Submit(i) PROVE Inv'
  BY <1>1 DEF Submit
<1>2. ASSUME NEW i \in Txs, NEW account \in Accounts, NEW simulates \in BOOLEAN,
             GotAccount(i, account, simulates)
      PROVE  Inv'
  <2>1. /\ tx' \in [Txs -> TxRecord] /\ tx'[i].fate = "built"
        /\ \A j \in Txs \ {i} : tx'[j] = tx[j]
    BY <1>2, BuildTyped DEF GotAccount
  <2>2. PICK next \in {"simulate", "sign"} : stage' = [stage EXCEPT ![i] = next]
    BY <1>2 DEF GotAccount
  <2>3. wait[i] \in 0 .. Wait /\ wait' = [wait EXCEPT ![i] = wait[i]]
    BY <1>2 DEF GotAccount
  <2> QED BY <2>1, <2>2, <2>3, PlaceInv
<1>3. ASSUME NEW i \in Txs, Simulated(i) \/ Signed(i) PROVE Inv'
  BY <1>3 DEF Simulated, Signed
<1>4. ASSUME NEW i \in Txs, Sent(i) PROVE Inv'
  <2>1. /\ tx' \in [Txs -> TxRecord] /\ \A j \in Txs \ {i} : tx'[j] = tx[j]
    BY <1>4, AcceptTyped DEF Sent
  <2>2. stage' = [stage EXCEPT ![i] = "confirm"] /\ wait' = [wait EXCEPT ![i] = Wait]
    BY <1>4 DEF Sent
  <2> QED BY <1>0, <2>1, <2>2, PlaceInv
<1>5. ASSUME NEW i \in Txs, Waited(i) PROVE Inv'
  BY <1>5 DEF Waited, Confirmed, Rejected, TimedOut
<1>6. ASSUME NEW i \in Txs, Throws(i) PROVE Inv'
  BY <1>6, AcceptTyped DEF Throws, Running
<1>7. ASSUME NEW i \in Txs, NEW fate \in {"applied", "failed"}, Chain(i, fate) PROVE Inv'
  BY <1>7, IncludeTyped DEF Chain, Fates
<1>8. ASSUME NEW i \in Txs, Dropped(i) PROVE Inv'
  BY <1>8, FateTyped DEF Dropped, Lose, Fates
<1>9. ASSUME NEW i \in Txs, Reused(i) PROVE Inv'
  <2>1. /\ tx' \in [Txs -> TxRecord] /\ tx'[i].fate = "none"
        /\ \A j \in Txs \ {i} : tx'[j] = tx[j]
    BY <1>9, NoTxTyped DEF Reused
  <2>2. stage' = [stage EXCEPT ![i] = "none"] /\ wait' = [wait EXCEPT ![i] = 0]
    BY <1>9 DEF Reused
  <2> QED BY <1>0, <2>1, <2>2, PlaceInv
<1>10. CASE Pass
  <2>1. \A i \in Txs : Less(wait[i]) \in 0 .. Wait
    BY <1>0, LessBound
  <2> QED BY <1>10, <2>1, AgedTyped DEF Pass
<1>11. CASE UNCHANGED submission
  BY <1>11 DEF submission
<1> QED BY <1>1, <1>2, <1>3, <1>4, <1>5, <1>6, <1>7, <1>8, <1>9, <1>10, <1>11, NextCases

\* Every reachable state satisfies the invariant.
THEOREM InvHolds == Spec => []Inv
BY InitInv, NextInv, PTL DEF Spec

\* The fates, stages and countdowns of every transaction stay what they are
\* meant to be; in particular no countdown exceeds its bound.
THEOREM TypeCorrect == Spec => []TypeOK
<1>1. Inv => TypeOK
  <2> SUFFICES ASSUME Inv, NEW i \in Txs
      PROVE  /\ tx[i].fate \in Fates /\ tx[i].next \in BOOLEAN /\ tx[i].left \in 0 .. TimeBound
             /\ stage[i] \in Stages \cup Verdicts \cup {"none"} /\ wait[i] \in 0 .. Wait
    BY DEF TypeOK
  <2>1. tx[i] \in TxRecord
    BY DEF Inv, Typed
  <2> QED BY <2>1 DEF TxRecord, Inv, Typed
<1> QED BY <1>1, InvHolds, PTL

\* Success and failure are shown of transactions the ledger applied or failed.
THEOREM VerdictsAreTrue == Spec => []VerdictsHold
<1>1. Inv => VerdictsHold
  BY DEF Inv
<1> QED BY <1>1, InvHolds, PTL

-----------------------------------------------------------------------------
(* The wait covers the validity. *)

\* A step at one place keeps Waiting if it does so at that place.
LEMMA PlaceWaiting ==
  ASSUME Inv, Waiting, NEW i \in Txs,
         NEW next \in Stages \cup Verdicts \cup {"none"}, NEW left \in 0 .. Wait,
         \A j \in Txs \ {i} : tx'[j].left = tx[j].left,
         stage' = [stage EXCEPT ![i] = next], wait' = [wait EXCEPT ![i] = left],
         next = "confirm" => tx'[i].left <= left,
         next = "timed out" => tx'[i].left = 0
  PROVE  Waiting'
<1>1. /\ stage'[i] = next /\ wait'[i] = left
      /\ \A j \in Txs \ {i} : stage'[j] = stage[j] /\ wait'[j] = wait[j]
  BY DEF Inv, Typed
<1> QED BY <1>1 DEF Waiting

\* What is awaited stays valid no longer than the wait, whatever happens.
LEMMA NextWaiting ==
  ASSUME Wait >= TimeBound, Inv, Waiting, [Next]_submission
  PROVE  Waiting'
<1>0. Wait \in Nat /\ TimeBound \in Nat /\ Wait \in 0 .. Wait /\ 0 \in 0 .. Wait
  BY TimeAssumption
<1>1. /\ tx \in [Txs -> TxRecord] /\ \A i \in Txs : wait[i] \in 0 .. Wait
      /\ wait \in [Txs -> 0 .. Wait]
      /\ \A i \in Txs : wait = [wait EXCEPT ![i] = wait[i]]
  BY DEF Inv, Typed
<1>2. \A i \in Txs : /\ tx[i].left \in Nat /\ tx[i].left <= TimeBound
                     /\ tx[i].left <= 0 => tx[i].left = 0
  <2>1. \A i \in Txs : tx[i].left \in 0 .. TimeBound
    BY <1>1 DEF TxRecord
  <2> QED BY <1>0, <2>1
<1>3. ASSUME NEW i \in Txs,
             \/ Submit(i)
             \/ \E account \in Accounts, simulates \in BOOLEAN : GotAccount(i, account, simulates)
             \/ Simulated(i) \/ Signed(i) \/ Throws(i) \/ Reused(i)
      PROVE  Waiting'
  <2>1. PICK next \in {"getAccount", "simulate", "sign", "send", "error", "none"} :
          stage' = [stage EXCEPT ![i] = next]
    BY <1>3 DEF Submit, GotAccount, Simulated, Signed, Throws, Reused, Goes
  <2>2. PICK left \in 0 .. Wait : wait' = [wait EXCEPT ![i] = left]
    BY <1>0, <1>1, <1>3 DEF Submit, GotAccount, Simulated, Signed, Throws, Reused
  <2>3. \A j \in Txs \ {i} : tx'[j].left = tx[j].left
    BY <1>1, <1>3, BuildTyped, AcceptTyped
       DEF Submit, GotAccount, Simulated, Signed, Throws, Reused
  <2> QED BY <2>1, <2>2, <2>3, PlaceWaiting DEF Stages, Verdicts
<1>4. ASSUME NEW i \in Txs, Sent(i) PROVE Waiting'
  <2>1. stage' = [stage EXCEPT ![i] = "confirm"] /\ wait' = [wait EXCEPT ![i] = Wait]
    BY <1>4 DEF Sent, Goes
  <2>2. tx'[i].left = tx[i].left /\ \A j \in Txs \ {i} : tx'[j].left = tx[j].left
    BY <1>1, <1>4, AcceptTyped DEF Sent
  <2>3. tx[i].left <= Wait
    BY <1>0, <1>2
  <2> QED BY <1>0, <2>1, <2>2, <2>3, PlaceWaiting DEF Stages
<1>5. ASSUME NEW i \in Txs, Waited(i) PROVE Waiting'
  <2>1. PICK next \in {"success", "failed on-chain", "timed out"} :
          /\ stage' = [stage EXCEPT ![i] = next]
          /\ next = "timed out" => stage[i] = "confirm" /\ wait[i] = 0
    BY <1>5 DEF Waited, TimedOut, Goes
  <2>2. tx' = tx /\ wait' = [wait EXCEPT ![i] = wait[i]]
    BY <1>1, <1>5 DEF Waited
  <2>3. next = "timed out" => tx[i].left = 0
    <3>1. stage[i] = "confirm" => tx[i].left <= wait[i]
      BY DEF Waiting
    <3> QED BY <1>2, <2>1, <3>1
  <2> QED BY <1>1, <2>1, <2>2, <2>3, PlaceWaiting DEF Verdicts
<1>6. ASSUME NEW i \in Txs, NEW fate \in {"applied", "failed"}, Chain(i, fate) \/ Dropped(i)
      PROVE  Waiting'
  <2>1. \A j \in Txs : tx'[j].left = tx[j].left
    BY <1>1, <1>6, IncludeTyped, FateTyped DEF Chain, Dropped, Lose, Fates
  <2>2. stage' = stage /\ wait' = wait
    BY <1>6 DEF Chain, Dropped
  <2> QED BY <2>1, <2>2 DEF Waiting
<1>7. CASE Pass
  <2>1. \A j \in Txs : tx'[j].left = Less(tx[j].left) /\ wait'[j] = Less(wait[j])
    BY <1>1, <1>7, AgedTyped DEF Pass
  <2>2. stage' = stage
    BY <1>7 DEF Pass
  <2>3. \A m, n \in Nat : m <= n => Less(m) <= Less(n)
    BY DEF Less
  <2>4. \A j \in Txs : tx[j].left \in Nat /\ wait[j] \in Nat
    BY <1>0, <1>1, <1>2
  <2>5. Less(0) = 0
    BY DEF Less
  <2> QED BY <2>1, <2>2, <2>3, <2>4, <2>5 DEF Waiting
<1>8. CASE UNCHANGED submission
  BY <1>8 DEF submission, Waiting
<1>9. ASSUME NEW i \in Txs,
             \/ Submit(i)
             \/ \E account \in Accounts, simulates \in BOOLEAN : GotAccount(i, account, simulates)
             \/ Simulated(i) \/ Signed(i) \/ Sent(i) \/ Waited(i) \/ Throws(i)
             \/ \E fate \in {"applied", "failed"} : Chain(i, fate)
             \/ Dropped(i) \/ Reused(i)
      PROVE  Waiting'
  BY <1>3, <1>4, <1>5, <1>6, <1>9
<1> QED BY <1>7, <1>8, <1>9, NextCases

-----------------------------------------------------------------------------
(* Submission implements Settlement. *)

VerdictOf == [i \in Txs |-> IF Running(i) THEN "running" ELSE stage[i]]

OutcomeOf == [i \in Txs |-> IF tx[i].fate \in {"applied", "failed"} THEN tx[i].fate ELSE "open"]

\* What a new stage means for the verdict.
LEMMA VerdictStep ==
  ASSUME Inv, NEW i \in Txs, NEW next, stage' = [stage EXCEPT ![i] = next]
  PROVE  VerdictOf' = [VerdictOf EXCEPT ![i] = IF next \in Stages THEN "running" ELSE next]
<1>1. stage'[i] = next /\ \A j \in Txs \ {i} : stage'[j] = stage[j]
  BY DEF Inv, Typed
<1> QED BY <1>1 DEF VerdictOf, Running

\* Steps that decide no transaction leave the outcome alone.
LEMMA OutcomeKept ==
  ASSUME \A j \in Txs : \/ tx'[j].fate = tx[j].fate
                        \/ {tx'[j].fate, tx[j].fate} \cap {"applied", "failed"} = {}
  PROVE  OutcomeOf' = OutcomeOf
BY DEF OutcomeOf

\* Everything of the abstract specification is a matter of these two functions.
LEMMA Abstracted ==
  ASSUME NEW i \in Txs
  PROVE  /\ VerdictOf[i] = "none" /\ VerdictOf' = [VerdictOf EXCEPT ![i] = "running"]
              /\ OutcomeOf' = OutcomeOf => S!SettlementNext
         /\ \A told \in Verdicts :
              /\ VerdictOf[i] = "running"
              /\ told = "success" => OutcomeOf[i] = "applied"
              /\ told = "failed on-chain" => OutcomeOf[i] = "failed"
              /\ VerdictOf' = [VerdictOf EXCEPT ![i] = told] /\ OutcomeOf' = OutcomeOf
              => S!SettlementNext
         /\ \A fate \in {"applied", "failed"} :
              /\ VerdictOf[i] \in {"running", "error"} /\ OutcomeOf[i] = "open"
              /\ OutcomeOf' = [OutcomeOf EXCEPT ![i] = fate] /\ VerdictOf' = VerdictOf
              => S!SettlementNext
         /\ /\ VerdictOf[i] \notin {"none", "running"}
            /\ VerdictOf' = [VerdictOf EXCEPT ![i] = "none"]
            /\ OutcomeOf' = [OutcomeOf EXCEPT ![i] = "open"]
            => S!SettlementNext
<1>1. S!SettlementNext <=>
        \E j \in Txs :
          \/ S!Start(j) \/ S!Reset(j)
          \/ \E result \in {"applied", "failed"} : S!Land(j, result)
          \/ \E told \in Verdicts : S!Answer(j, told)
  BY DEF S!SettlementNext, S!Verdicts, Verdicts
<1> QED BY <1>1 DEF S!Start, S!Reset, S!Land, S!Answer, S!Told, S!Running, VerdictOf, OutcomeOf

\* What changes neither a verdict nor an outcome is invisible to a page.
LEMMA StutterIs ==
  ASSUME VerdictOf' = VerdictOf, OutcomeOf' = OutcomeOf
  PROVE  UNCHANGED S!settlement
BY DEF VerdictOf, OutcomeOf, S!settlement

\* Every step of a submission is a step of its promise or invisible to it.
LEMMA NextRefines ==
  ASSUME Inv, Waiting, [Next]_submission
  PROVE  [S!SettlementNext]_(S!settlement)
<1>1. /\ tx \in [Txs -> TxRecord] /\ stage \in [Txs -> Stages \cup Verdicts \cup {"none"}]
      /\ \A i \in Txs : tx[i].left \in 0 .. TimeBound
  <2>1. tx \in [Txs -> TxRecord] /\ stage \in [Txs -> Stages \cup Verdicts \cup {"none"}]
    BY DEF Inv, Typed
  <2> QED BY <2>1 DEF TxRecord
<1>2. \A i \in Txs : /\ VerdictOf[i] = IF stage[i] \in Stages THEN "running" ELSE stage[i]
                     /\ OutcomeOf[i] = IF tx[i].fate \in {"applied", "failed"} THEN tx[i].fate
                                                                               ELSE "open"
  BY DEF VerdictOf, OutcomeOf, Running
<1>3. ASSUME NEW i \in Txs, Submit(i) PROVE S!SettlementNext
  <2>1. stage[i] = "none" /\ stage' = [stage EXCEPT ![i] = "getAccount"] /\ tx' = tx
    BY <1>3 DEF Submit, Goes
  <2>2. VerdictOf' = [VerdictOf EXCEPT ![i] = "running"]
    BY <2>1, VerdictStep DEF Stages
  <2>3. OutcomeOf' = OutcomeOf /\ VerdictOf[i] = "none"
    BY <1>2, <2>1, OutcomeKept DEF Stages
  <2> QED BY <2>2, <2>3, Abstracted
<1>4. ASSUME NEW i \in Txs,
             \/ \E account \in Accounts, simulates \in BOOLEAN : GotAccount(i, account, simulates)
             \/ Simulated(i) \/ Signed(i) \/ Sent(i)
      PROVE  UNCHANGED S!settlement
  <2>1. PICK next \in Stages : stage' = [stage EXCEPT ![i] = next]
    BY <1>4 DEF GotAccount, Simulated, Signed, Sent, Goes, Stages
  <2>2. stage[i] \in Stages
    BY <1>4 DEF GotAccount, Simulated, Signed, Sent, Stages
  <2>3. VerdictOf' = VerdictOf
    <3>1. VerdictOf' = [VerdictOf EXCEPT ![i] = "running"]
      BY <2>1, VerdictStep
    <3>2. VerdictOf[i] = "running"
      BY <1>2, <2>2
    <3> QED BY <3>1, <3>2 DEF VerdictOf
  <2>4. stage[i] = "getAccount" => tx[i].fate = "none"
    BY DEF Inv, Unsent
  <2>5. OutcomeOf' = OutcomeOf
    <3>1. \/ tx' = tx
          \/ \E account \in Accounts : stage[i] = "getAccount" /\ Build(i, account)
          \/ Accept(i)
      BY <1>4 DEF GotAccount, Simulated, Signed, Sent
    <3>2. \/ tx' = tx
          \/ /\ tx[i].fate \in {"none", "built"} /\ tx'[i].fate \in {"built", "pending"}
             /\ \A j \in Txs \ {i} : tx'[j] = tx[j]
      BY <1>1, <2>4, <3>1, BuildTyped, AcceptTyped
    <3>3. CASE tx' = tx
      BY <3>3, OutcomeKept
    <3>4. CASE /\ tx[i].fate \in {"none", "built"} /\ tx'[i].fate \in {"built", "pending"}
               /\ \A j \in Txs \ {i} : tx'[j] = tx[j]
      <4>1. {tx'[i].fate, tx[i].fate} \cap {"applied", "failed"} = {}
        BY <3>4
      <4> QED BY <3>4, <4>1, OutcomeKept
    <3> QED BY <3>2, <3>3, <3>4
  <2> QED BY <2>3, <2>5, StutterIs
<1>5. ASSUME NEW i \in Txs, Waited(i) PROVE S!SettlementNext
  <2>1. PICK told \in {"success", "failed on-chain", "timed out"} :
          /\ stage' = [stage EXCEPT ![i] = told]
          /\ told = "success" => tx[i].fate = "applied"
          /\ told = "failed on-chain" => tx[i].fate = "failed"
    BY <1>5 DEF Waited, Confirmed, Rejected, TimedOut, Goes
  <2>2. stage[i] = "confirm" /\ tx' = tx
    BY <1>5 DEF Waited, Confirmed, Rejected, TimedOut
  <2>3. VerdictOf' = [VerdictOf EXCEPT ![i] = told]
    BY <2>1, VerdictStep DEF Stages
  <2>4. OutcomeOf' = OutcomeOf /\ VerdictOf[i] = "running"
    BY <1>2, <2>2, OutcomeKept DEF Stages
  <2>5. /\ told = "success" => OutcomeOf[i] = "applied"
        /\ told = "failed on-chain" => OutcomeOf[i] = "failed"
    BY <1>2, <2>1
  <2> QED BY <2>3, <2>4, <2>5, Abstracted DEF Verdicts
<1>6. ASSUME NEW i \in Txs, Throws(i) PROVE S!SettlementNext
  <2>1. stage[i] \in Stages /\ stage' = [stage EXCEPT ![i] = "error"]
    BY <1>6 DEF Throws, Running, Goes
  <2>2. VerdictOf' = [VerdictOf EXCEPT ![i] = "error"] /\ VerdictOf[i] = "running"
    BY <1>2, <2>1, VerdictStep DEF Stages
  <2>3. OutcomeOf' = OutcomeOf
    <3>1. CASE tx' = tx
      BY <3>1, OutcomeKept
    <3>2. CASE Accept(i)
      <4>1. /\ tx[i].fate = "built" /\ tx'[i].fate = "pending"
            /\ \A j \in Txs \ {i} : tx'[j] = tx[j]
        BY <1>1, <3>2, AcceptTyped
      <4>2. {tx'[i].fate, tx[i].fate} \cap {"applied", "failed"} = {}
        BY <4>1
      <4> QED BY <4>1, <4>2, OutcomeKept
    <3> QED BY <1>6, <3>1, <3>2 DEF Throws
  <2> QED BY <2>2, <2>3, Abstracted DEF Verdicts
<1>7. ASSUME NEW i \in Txs, NEW fate \in {"applied", "failed"}, Chain(i, fate)
      PROVE  S!SettlementNext
  <2>1. /\ tx[i].fate = "pending" /\ tx[i].left > 0 /\ tx'[i].fate = fate
        /\ \A j \in Txs \ {i} : tx'[j].fate = tx[j].fate
        /\ stage' = stage
    BY <1>1, <1>7, IncludeTyped DEF Chain, Fates
  <2>2. stage[i] \in Stages \cup {"error"}
    <3>1. /\ stage[i] # "none" /\ stage[i] # "success" /\ stage[i] # "failed on-chain"
      BY <2>1 DEF Inv, Unsent, VerdictsHold
    <3>2. stage[i] # "timed out"
      <4>1. stage[i] = "timed out" => tx[i].left = 0
        BY DEF Waiting
      <4>2. ~(0 > 0)
        OBVIOUS
      <4> QED BY <2>1, <4>1, <4>2
    <3> QED BY <1>1, <3>1, <3>2 DEF Verdicts
  <2>3. VerdictOf[i] \in {"running", "error"} /\ OutcomeOf[i] = "open"
    BY <1>2, <2>1, <2>2 DEF Stages
  <2>4. OutcomeOf' = [OutcomeOf EXCEPT ![i] = fate] /\ VerdictOf' = VerdictOf
    BY <2>1 DEF OutcomeOf, VerdictOf, Running
  <2> QED BY <2>3, <2>4, Abstracted
<1>8. ASSUME NEW i \in Txs, Dropped(i) PROVE UNCHANGED S!settlement
  <2>1. /\ tx[i].fate = "pending" /\ tx'[i].fate = "lost" /\ stage' = stage
        /\ \A j \in Txs \ {i} : tx'[j] = tx[j]
    BY <1>1, <1>8, FateTyped DEF Dropped, Lose, Fates
  <2>2. {tx'[i].fate, tx[i].fate} \cap {"applied", "failed"} = {}
    BY <2>1
  <2>3. OutcomeOf' = OutcomeOf
    BY <2>1, <2>2, OutcomeKept
  <2> QED BY <2>1, <2>3, StutterIs DEF VerdictOf, Running
<1>9. ASSUME NEW i \in Txs, Reused(i) PROVE S!SettlementNext
  <2>1. /\ stage[i] \in Verdicts /\ stage' = [stage EXCEPT ![i] = "none"]
        /\ tx' = [tx EXCEPT ![i] = NoTx]
    BY <1>9 DEF Reused
  <2>2. VerdictOf' = [VerdictOf EXCEPT ![i] = "none"]
    BY <2>1, VerdictStep DEF Stages
  <2>3. VerdictOf[i] \notin {"none", "running"}
    BY <1>2, <2>1 DEF Stages, Verdicts
  <2>4. OutcomeOf' = [OutcomeOf EXCEPT ![i] = "open"]
    <3>1. tx'[i].fate = "none" /\ \A j \in Txs \ {i} : tx'[j] = tx[j]
      BY <1>1, <2>1, NoTxTyped
    <3> QED BY <3>1 DEF OutcomeOf
  <2> QED BY <2>2, <2>3, <2>4, Abstracted
<1>10. CASE Pass
  <2>1. stage' = stage /\ \A j \in Txs : tx'[j].fate = tx[j].fate
    BY <1>1, <1>10, AgedTyped DEF Pass
  <2> QED BY <2>1, OutcomeKept, StutterIs DEF VerdictOf, Running
<1>11. CASE UNCHANGED submission
  BY <1>11, OutcomeKept, StutterIs DEF submission, VerdictOf, Running
<1> QED BY <1>3, <1>4, <1>5, <1>6, <1>7, <1>8, <1>9, <1>10, <1>11, NextCases

\* Provided the wait is as long as a transaction is valid, the promise is kept
\* for any number of transactions and accounts: nothing happens to a
\* transaction after its verdict, unless the verdict is an error.
THEOREM PromiseIsKept == ASSUME Wait >= TimeBound PROVE Spec => KeepsPromise
<1>1. SubmissionInit => Waiting
  BY DEF SubmissionInit, Waiting
<1>2. Inv /\ Waiting /\ [Next]_submission => Waiting'
  BY NextWaiting
<1>3. SubmissionInit => S!SettlementInit
  BY NoTxTyped DEF SubmissionInit, NetworkInit, S!SettlementInit, Running, Stages
<1>4. Inv /\ Waiting /\ [Next]_submission => [S!SettlementNext]_(S!settlement)
  BY NextRefines
<1> QED BY <1>1, <1>2, <1>3, <1>4, InvHolds, PTL DEF Spec, KeepsPromise, S!SettlementSpec

-----------------------------------------------------------------------------
(***************************************************************************)
(* The harness.  What its records are worth, for any number of users and   *)
(* transactions, any quotes and any times.                                 *)
(*                                                                         *)
(* The difficulty is that a swap may be applied after the harness has      *)
(* recorded it as FAILED and gone on, even for a transaction whose place   *)
(* is used again.  Evidence counts: what was applied and what is loose     *)
(* (given up and not yet decided) is at most what is recorded, what is     *)
(* owed a record, and what was given up unseen.                            *)
(***************************************************************************)
JourneyTyped ==
  /\ user \in 0 .. Users - 1
  /\ record \in [SUCCESS : Nat, FAILED : Nat]
  /\ applied \in Nat /\ unsure \in Nat
  /\ awaiting \in Txs \cup {Nothing}
  /\ job = [i \in Txs |-> job[i]]

\* What is awaited is the transaction of the step under way.
Awaited ==
  /\ \A i \in Txs : (stage[i] = "none") <=> (job[i] = NoJob)
  /\ awaiting \in Txs => /\ Running(awaiting)
                         /\ job[awaiting].step = step /\ step \in Swaps \cup Approvals

\* Swaps that were given up and that the ledger may still apply.
Loose == {i \in Txs : i # awaiting /\ Ours(i) /\ tx[i].fate = "pending"}

\* Whether the swap under way has been applied and is not yet recorded.
Owed == IF awaiting \in Txs /\ Ours(awaiting) /\ tx[awaiting].fate = "applied" THEN 1 ELSE 0

Evidence ==
  /\ record.SUCCESS + Owed <= applied
  /\ applied + Cardinality(Loose) <= record.SUCCESS + Owed + unsure

Kept == Inv /\ JourneyTyped /\ Awaited /\ Evidence

-----------------------------------------------------------------------------
(* Counting. *)

\* How a set of places counts, and how it grows and shrinks by one.
LEMMA Counting ==
  ASSUME NEW T \in SUBSET Txs
  PROVE  /\ Cardinality(T) \in Nat
         /\ \A x : Cardinality(T \cup {x}) <= Cardinality(T) + 1
         /\ \A x \in T : Cardinality(T \ {x}) = Cardinality(T) - 1
<1>1. IsFiniteSet(T)
  BY CohortAssumption, FS_Subset
<1>2. Cardinality(T) \in Nat
  BY <1>1, FS_CardinalityType
<1>3. \A x : Cardinality(T \cup {x}) = IF x \in T THEN Cardinality(T) ELSE Cardinality(T) + 1
  BY <1>1, FS_AddElement
<1>4. \A x : Cardinality(T \ {x}) = IF x \in T THEN Cardinality(T) - 1 ELSE Cardinality(T)
  BY <1>1, FS_RemoveElement
<1> QED BY <1>2, <1>3, <1>4

\* An empty set of loose swaps counts nothing.
LEMMA NoneLoose == Cardinality({}) = 0
BY FS_EmptySet

-----------------------------------------------------------------------------
(* What a step can do to the sums. *)

\* A swap that could still be applied is decided, or nothing is.
FewerLoose == Loose' = Loose \/ \E x \in Loose : Loose' = Loose \ {x}

\* Nothing of the user's evidence changes, but a loose swap may be lost.
Quiet ==
  /\ record'.SUCCESS = record.SUCCESS /\ unsure' = unsure /\ applied' = applied
  /\ Owed' = Owed /\ FewerLoose

\* The swap that was owed a record gets one.
Settled ==
  /\ record'.SUCCESS = record.SUCCESS + 1 /\ unsure' = unsure /\ applied' = applied
  /\ Owed = 1 /\ Owed' = 0 /\ Loose' = Loose

\* A swap is given up unseen.
GivenUp ==
  /\ record'.SUCCESS = record.SUCCESS /\ unsure' = unsure + 1 /\ applied' = applied
  /\ Owed' = 0
  /\ Loose' = Loose \/ (Owed = 0 /\ \E x : Loose' = Loose \cup {x})

\* A swap is applied: the one that is awaited, or a loose one.
Happens ==
  /\ record'.SUCCESS = record.SUCCESS /\ unsure' = unsure /\ applied' = applied + 1
  /\ \/ Loose' = Loose /\ Owed = 0 /\ Owed' = 1
     \/ Owed' = Owed /\ \E x \in Loose : Loose' = Loose \ {x}

\* How many loose swaps there are after a step.
LEMMA LooseCounts ==
  /\ Cardinality(Loose) \in Nat /\ Cardinality(Loose') \in Nat
  /\ FewerLoose => Cardinality(Loose') <= Cardinality(Loose)
  /\ \A x \in Loose : Loose' = Loose \ {x} => Cardinality(Loose') = Cardinality(Loose) - 1
  /\ \A x : Loose' = Loose \cup {x} => Cardinality(Loose') <= Cardinality(Loose) + 1
<1>1. Loose \in SUBSET Txs /\ Loose' \in SUBSET Txs
  BY DEF Loose
<1>2. /\ Cardinality(Loose) \in Nat /\ Cardinality(Loose') \in Nat
      /\ \A x : Cardinality(Loose \cup {x}) <= Cardinality(Loose) + 1
      /\ \A x \in Loose : Cardinality(Loose \ {x}) = Cardinality(Loose) - 1
  BY <1>1, Counting
<1>3. ASSUME NEW x \in Loose, Loose' = Loose \ {x}
      PROVE  Cardinality(Loose') = Cardinality(Loose) - 1
  BY <1>2, <1>3
<1>4. ASSUME NEW x, Loose' = Loose \cup {x}
      PROVE  Cardinality(Loose') <= Cardinality(Loose) + 1
  BY <1>2, <1>4
<1>5. ASSUME FewerLoose
      PROVE  Cardinality(Loose') <= Cardinality(Loose)
  <2>1. CASE Loose' = Loose
    BY <2>1, <1>2
  <2>2. ASSUME NEW x \in Loose, Loose' = Loose \ {x}
        PROVE  Cardinality(Loose') <= Cardinality(Loose)
    BY <2>2, <1>2, <1>3
  <2> QED BY <1>5, <2>1, <2>2 DEF FewerLoose
<1> QED BY <1>2, <1>3, <1>4, <1>5

\* The sums of Evidence survive every change that a step can make of them.
LEMMA EvidenceStays ==
  ASSUME JourneyTyped, JourneyTyped', Evidence, Quiet \/ Settled \/ GivenUp \/ Happens
  PROVE  Evidence'
<1> DEFINE L  == Cardinality(Loose)
           M  == Cardinality(Loose')
           R  == record.SUCCESS
           RR == record'.SUCCESS
<1>1. L \in Nat /\ M \in Nat
  BY LooseCounts
<1>2. /\ R \in Nat /\ RR \in Nat
      /\ applied \in Nat /\ applied' \in Nat /\ unsure \in Nat /\ unsure' \in Nat
      /\ Owed \in Nat /\ Owed' \in Nat /\ Owed <= 1
  BY DEF JourneyTyped, Owed
<1>3. R + Owed <= applied /\ applied + L <= R + Owed + unsure
  BY DEF Evidence
<1>4. CASE Quiet
  <2>1. RR = R /\ unsure' = unsure /\ applied' = applied /\ Owed' = Owed /\ M <= L
    BY <1>4, LooseCounts DEF Quiet
  <2> HIDE DEF L, M, R, RR
  <2>2. RR + Owed' <= applied' /\ applied' + M <= RR + Owed' + unsure'
    BY <1>1, <1>2, <1>3, <2>1
  <2> QED BY <2>2 DEF Evidence, M, RR
<1>5. CASE Settled
  <2>1. RR = R + 1 /\ unsure' = unsure /\ applied' = applied /\ Owed = 1 /\ Owed' = 0 /\ M = L
    BY <1>5 DEF Settled
  <2> HIDE DEF L, M, R, RR
  <2>2. RR + Owed' <= applied' /\ applied' + M <= RR + Owed' + unsure'
    BY <1>1, <1>2, <1>3, <2>1
  <2> QED BY <2>2 DEF Evidence, M, RR
<1>6. CASE GivenUp
  <2>1. RR = R /\ unsure' = unsure + 1 /\ applied' = applied /\ Owed' = 0
    BY <1>6 DEF GivenUp
  <2>2. M = L \/ (Owed = 0 /\ M <= L + 1)
    BY <1>6, LooseCounts DEF GivenUp
  <2> HIDE DEF L, M, R, RR
  <2>3. RR + Owed' <= applied' /\ applied' + M <= RR + Owed' + unsure'
    BY <1>1, <1>2, <1>3, <2>1, <2>2
  <2> QED BY <2>3 DEF Evidence, M, RR
<1>7. CASE Happens
  <2>1. RR = R /\ unsure' = unsure /\ applied' = applied + 1
    BY <1>7 DEF Happens
  <2>2. (M = L /\ Owed = 0 /\ Owed' = 1) \/ (M = L - 1 /\ Owed' = Owed)
    BY <1>7, LooseCounts DEF Happens
  <2> HIDE DEF L, M, R, RR
  <2>3. CASE M = L /\ Owed = 0 /\ Owed' = 1
    <3>1. RR + Owed' <= applied' /\ applied' + M <= RR + Owed' + unsure'
      BY <1>1, <1>2, <1>3, <2>1, <2>3
    <3> QED BY <3>1 DEF Evidence, M, RR
  <2>4. CASE M = L - 1 /\ Owed' = Owed
    <3>1. RR + Owed' <= applied' /\ applied' + M <= RR + Owed' + unsure'
      BY <1>1, <1>2, <1>3, <2>1, <2>4
    <3> QED BY <3>1 DEF Evidence, M, RR
  <2> QED BY <2>2, <2>3, <2>4
<1> QED BY <1>4, <1>5, <1>6, <1>7

-----------------------------------------------------------------------------
(* The harness and its transactions. *)

\* What the harness and the network do with transactions, a submission may do.
LEMMA HarnessSubmits ==
  ASSUME JourneyTyped, [HarnessNext]_vars
  PROVE  [Next]_submission
<1>1. user \in Accounts
  BY CohortAssumption DEF JourneyTyped
<1>2. CASE Onboard \/ NotQuoted \/ NextUser \/ UNCHANGED vars
  BY <1>2 DEF Onboard, NotQuoted, NextUser, vars
<1>3. ASSUME NEW i \in Txs, Approve(i) \/ Swap(i)
      PROVE  Submit(i)
  BY <1>3 DEF Approve, Swap, Begin
<1>4. ASSUME NEW i \in Txs, Invoking(i)
      PROVE  Answered(i) \/ Signed(i)
  BY <1>1, <1>4 DEF Invoking, Answered
<1>5. ASSUME NEW i \in Txs, Succeeds(i) \/ Fails(i) \/ Breaks(i)
      PROVE  Answered(i) \/ Throws(i)
  BY <1>5 DEF Succeeds, Fails, Breaks, Answered
<1>6. ASSUME NEW i \in Txs, Applied(i) \/ Elsewhere(i) \/ Forgotten(i)
      PROVE  \/ \E fate \in {"applied", "failed"} : Chain(i, fate)
             \/ Dropped(i) \/ Reused(i)
  BY <1>6 DEF Applied, Elsewhere, Forgotten
<1>7. CASE TimePasses
  BY <1>7 DEF TimePasses, Next
<1> QED BY <1>2, <1>3, <1>4, <1>5, <1>6, <1>7 DEF HarnessNext, Harness, Exception, Next

\* Where a swap is counted, before and after a step.
LEMMA Counted ==
  ASSUME NEW i \in Txs
  PROVE  /\ i \in Loose <=> i # awaiting /\ job[i].step \in Swaps /\ tx[i].fate = "pending"
         /\ i \in Loose' <=> i # awaiting' /\ job'[i].step \in Swaps /\ tx'[i].fate = "pending"
         /\ Loose \subseteq Txs /\ Loose' \subseteq Txs
BY DEF Loose, Ours

\* One record is owed if the awaited swap was applied, and none otherwise.
LEMMA OwedIs ==
  /\ Owed = IF awaiting \in Txs /\ job[awaiting].step \in Swaps /\ tx[awaiting].fate = "applied"
            THEN 1 ELSE 0
  /\ Owed' = IF awaiting' \in Txs /\ job'[awaiting'].step \in Swaps /\ tx'[awaiting'].fate = "applied"
             THEN 1 ELSE 0
BY DEF Owed, Ours

\* What a step at the place of one swap does to the loose ones.
LEMMA LooseElsewhere ==
  ASSUME NEW i \in Txs,
         \A j \in Txs \ {i} : j \in Loose' <=> j \in Loose
  PROVE  /\ (i \in Loose' <=> i \in Loose) => Loose' = Loose
         /\ i \in Loose /\ i \notin Loose' => Loose' = Loose \ {i}
         /\ i \in Loose' => Loose' = Loose \cup {i}
<1>1. Loose \subseteq Txs /\ Loose' \subseteq Txs
  BY DEF Loose
<1> QED BY <1>1

-----------------------------------------------------------------------------
(* The steps of the harness. *)

\* Steps that are not about a transaction, and time.
LEMMA IdleKept ==
  ASSUME Kept, Onboard \/ NotQuoted \/ TimePasses \/ UNCHANGED vars
  PROVE  JourneyTyped' /\ Awaited' /\ Quiet
<1>1. /\ job' = job /\ awaiting' = awaiting /\ stage' = stage
      /\ user' = user /\ unsure' = unsure /\ applied' = applied
      /\ record' = record \/ record' = [record EXCEPT !["FAILED"] = @ + 1]
  BY DEF Onboard, NotQuoted, TimePasses, Pass, vars, submission, journey, ledger, Recorded
<1>2. \A i \in Txs : tx'[i].fate = tx[i].fate
  <2>1. tx \in [Txs -> TxRecord]
    BY DEF Kept, Inv, Typed
  <2> QED BY <2>1, AgedTyped DEF Onboard, NotQuoted, TimePasses, Pass, vars, submission
<1>3. record' \in [SUCCESS : Nat, FAILED : Nat] /\ record'.SUCCESS = record.SUCCESS
  BY <1>1 DEF Kept, JourneyTyped
<1>4. JourneyTyped'
  BY <1>1, <1>3 DEF Kept, JourneyTyped
<1>5. Awaited'
  <2>1. CASE step' = step
    BY <1>1, <2>1 DEF Kept, Awaited, Running
  <2>2. CASE Onboard \/ NotQuoted
    <3>1. awaiting \notin Txs
      BY <2>2, CohortAssumption DEF Onboard, NotQuoted, Kept, Awaited, Swaps, Purchases, Approvals
    <3> QED BY <1>1, <3>1 DEF Kept, Awaited
  <2> QED BY <2>1, <2>2 DEF TimePasses, vars, journey
<1>6. Loose' = Loose /\ Owed' = Owed
  <2>1. \A i \in Txs : i \in Loose' <=> i \in Loose
    BY <1>1, <1>2, Counted
  <2>2. Owed' = Owed
    BY <1>1, <1>2, OwedIs
  <2> QED BY <2>1, <2>2 DEF Loose
<1> QED BY <1>1, <1>3, <1>4, <1>5, <1>6 DEF Quiet, FewerLoose

\* A swap or an approval is begun: the network has nothing of it yet.
LEMMA BeginKept ==
  ASSUME Kept, NEW i \in Txs, Approve(i) \/ Swap(i)
  PROVE  JourneyTyped' /\ Awaited' /\ Quiet
<1>1. /\ awaiting = Nothing /\ awaiting' = i /\ stage[i] = "none"
      /\ stage' = [stage EXCEPT ![i] = "getAccount"] /\ tx' = tx
      /\ user' = user /\ record' = record /\ unsure' = unsure /\ applied' = applied /\ step' = step
      /\ step \in Swaps \cup Approvals
  BY DEF Approve, Swap, Begin, Submit, Goes, journey, ledger
<1>2. PICK what : job' = [job EXCEPT ![i] = what] /\ what.step = step
  <2>1. CASE Approve(i)
    <3>1. job' = [job EXCEPT ![i] = [step |-> step]]
      BY <2>1 DEF Approve, Begin
    <3>2. [step |-> step].step = step
      OBVIOUS
    <3> QED BY <3>1, <3>2
  <2>2. CASE Swap(i)
    <3>1. PICK quoted \in Quotes :
            job' = [job EXCEPT ![i] =
                      [step |-> step, quoted |-> quoted, min |-> MinOut(quoted),
                       sold |-> IF step = "sell" THEN SellAmount ELSE 0]]
      BY <2>2 DEF Swap, Begin
    <3>2. [step |-> step, quoted |-> quoted, min |-> MinOut(quoted),
           sold |-> IF step = "sell" THEN SellAmount ELSE 0].step = step
      OBVIOUS
    <3> QED BY <3>1, <3>2
  <2> QED BY <2>1, <2>2
<1>3. /\ job'[i] = what /\ \A j \in Txs \ {i} : job'[j] = job[j]
      /\ job' = [j \in Txs |-> job'[j]]
  BY <1>2 DEF Kept, JourneyTyped
<1>4. what # NoJob
  <2>1. step # "none"
    BY <1>1 DEF Swaps, Purchases, Approvals
  <2>2. NoJob.step = "none"
    BY DEF NoJob
  <2> QED BY <1>2, <2>1, <2>2
<1>5. /\ stage'[i] = "getAccount" /\ \A j \in Txs \ {i} : stage'[j] = stage[j]
      /\ tx[i].fate = "none"
  BY <1>1 DEF Kept, Inv, Typed, Unsent
<1>6. JourneyTyped'
  BY <1>1, <1>3 DEF Kept, JourneyTyped
<1>7. Awaited'
  BY <1>1, <1>2, <1>3, <1>4, <1>5 DEF Kept, Awaited, Running, Stages
<1>8. Loose' = Loose
  <2>1. \A j \in Txs : j \in Loose' <=> j \in Loose
    BY <1>1, <1>3, <1>5, Counted, CohortAssumption
  <2> QED BY <2>1 DEF Loose
<1>9. Owed' = Owed
  BY <1>1, <1>5, CohortAssumption, OwedIs
<1> QED BY <1>1, <1>6, <1>7, <1>8, <1>9 DEF Quiet, FewerLoose

\* An await of invoke is over, and the transaction is not applied thereby.
LEMMA InvokingKept ==
  ASSUME Kept, NEW i \in Txs, Invoking(i)
  PROVE  JourneyTyped' /\ Awaited' /\ Quiet
<1>1. /\ awaiting = i /\ awaiting' = awaiting /\ job' = job
      /\ user' = user /\ record' = record /\ unsure' = unsure /\ applied' = applied /\ step' = step
  BY DEF Invoking, journey, ledger
<1>2. PICK next \in Stages : stage' = [stage EXCEPT ![i] = next]
  BY DEF Invoking, GotAccount, Simulated, Signed, Sent, Goes, Stages
<1>3. stage'[i] = next /\ \A j \in Txs \ {i} : stage'[j] = stage[j]
  BY <1>2 DEF Kept, Inv, Typed
<1>4. stage[i] \in {"getAccount", "simulate", "sign", "send"}
  BY DEF Invoking, GotAccount, Simulated, Signed, Sent
<1>5. tx[i].fate # "applied"
  BY <1>4 DEF Kept, Inv, Unsent
<1>6. tx'[i].fate # "applied" /\ \A j \in Txs \ {i} : tx'[j] = tx[j]
  <2>1. tx \in [Txs -> TxRecord]
    BY DEF Kept, Inv, Typed
  <2>2. user \in Accounts
    BY CohortAssumption DEF Kept, JourneyTyped
  <2>3. tx' = tx \/ Build(i, user) \/ Accept(i)
    BY DEF Invoking, GotAccount, Simulated, Signed, Sent
  <2> QED BY <1>5, <2>1, <2>2, <2>3, BuildTyped, AcceptTyped
<1>7. JourneyTyped'
  BY <1>1 DEF Kept, JourneyTyped
<1>8. Awaited'
  BY <1>1, <1>3, <1>4 DEF Kept, Awaited, Running, Stages
<1>9. Loose' = Loose
  <2>1. \A j \in Txs : j \in Loose' <=> j \in Loose
    BY <1>1, <1>6, Counted
  <2> QED BY <2>1 DEF Loose
<1>10. Owed' = Owed
  BY <1>1, <1>5, <1>6, OwedIs
<1> QED BY <1>1, <1>7, <1>8, <1>9, <1>10 DEF Quiet, FewerLoose

\* A record counts one more swap of the status it is told.
LEMMA RecordedTyped ==
  ASSUME record \in [SUCCESS : Nat, FAILED : Nat]
  PROVE  /\ Recorded("SUCCESS") => /\ record' \in [SUCCESS : Nat, FAILED : Nat]
                                   /\ record'.SUCCESS = record.SUCCESS + 1
         /\ Recorded("FAILED") => /\ record' \in [SUCCESS : Nat, FAILED : Nat]
                                  /\ record'.SUCCESS = record.SUCCESS
BY DEF Recorded

\* A success is recorded of the swap that was applied.
LEMMA SucceedsKept ==
  ASSUME Kept, NEW i \in Txs, Succeeds(i)
  PROVE  JourneyTyped' /\ Awaited' /\ (Quiet \/ Settled)
<1>1. /\ awaiting = i /\ awaiting' = Nothing /\ job' = job
      /\ user' = user /\ unsure' = unsure /\ applied' = applied /\ tx' = tx
      /\ step \notin Swaps => record' = record
  BY DEF Succeeds, Waited, ledger
<1>2. PICK next \in {"success", "failed on-chain", "timed out"} :
        /\ stage' = [stage EXCEPT ![i] = next]
        /\ next = "success" => tx[i].fate = "applied"
  BY DEF Succeeds, Waited, Confirmed, Goes
<1>3. stage'[i] = next /\ \A j \in Txs \ {i} : stage'[j] = stage[j]
  BY <1>2 DEF Kept, Inv, Typed
<1>4. tx[i].fate = "applied"
  BY <1>2, <1>3 DEF Succeeds
<1>5. job[i].step = step /\ stage[i] # "none"
  BY <1>1 DEF Kept, Awaited, Running, Stages
<1>6. /\ record' \in [SUCCESS : Nat, FAILED : Nat]
      /\ record'.SUCCESS = IF step \in Swaps THEN record.SUCCESS + 1 ELSE record.SUCCESS
  <2>1. record \in [SUCCESS : Nat, FAILED : Nat]
    BY DEF Kept, JourneyTyped
  <2> QED BY <1>1, <2>1, RecordedTyped DEF Succeeds
<1>7. JourneyTyped'
  BY <1>1, <1>6 DEF Kept, JourneyTyped
<1>8. Awaited'
  BY <1>1, <1>2, <1>3, <1>5, CohortAssumption DEF Kept, Awaited
<1>9. Loose' = Loose
  <2>1. \A j \in Txs : j \in Loose' <=> j \in Loose
    BY <1>1, <1>4, Counted, CohortAssumption
  <2> QED BY <2>1 DEF Loose
<1>10. Owed' = 0 /\ Owed = IF step \in Swaps THEN 1 ELSE 0
  BY <1>1, <1>4, <1>5, CohortAssumption, OwedIs
<1> QED BY <1>1, <1>6, <1>7, <1>8, <1>9, <1>10 DEF Quiet, Settled, FewerLoose

\* A number is not its successor.
LEMMA OneMore == \A n \in Nat : n + 1 \in Nat /\ n # n + 1
OBVIOUS

\* A transaction is given up: it is unsure whether it was, or will be, applied
\* if it was handed over and not seen to fail.
LEMMA AbandonedKept ==
  ASSUME Kept, NEW i \in Txs, Abandoned(i),
         \A j \in Txs \ {i} : tx'[j] = tx[j] /\ stage'[j] = stage[j],
         stage[i] # "none", stage'[i] # "none",
         tx'[i].fate \in {"pending", "applied"} =>
           tx'[i].fate = tx[i].fate \/ tx[i].fate = "built",
         tx[i].fate \in {"pending", "applied"} \/ tx'[i].fate \in {"pending", "applied"} =>
           stage[i] \in {"send", "confirm"} /\ stage'[i] # "failed on-chain"
  PROVE  JourneyTyped' /\ Awaited' /\ (Quiet \/ GivenUp)
<1>1. /\ awaiting = i /\ awaiting' = Nothing /\ job' = job
      /\ user' = user /\ applied' = applied
      /\ Recorded("FAILED") \/ record' = record
  BY DEF Abandoned, ledger
<1>2. record' \in [SUCCESS : Nat, FAILED : Nat] /\ record'.SUCCESS = record.SUCCESS
  BY <1>1, RecordedTyped DEF Kept, JourneyTyped
<1>3. job[i].step = step
  BY <1>1 DEF Kept, Awaited
<1>4. \/ unsure' = unsure
      \/ step \in Swaps /\ unsure' = unsure + 1
  BY DEF Abandoned
<1>5. step \in Swaps /\ unsure' = unsure =>
        /\ tx[i].fate \notin {"pending", "applied"}
        /\ tx'[i].fate \notin {"pending", "applied"}
  <2>1. unsure # unsure + 1
    BY OneMore DEF Kept, JourneyTyped
  <2> QED BY <2>1 DEF Abandoned
<1>6. unsure' \in Nat
  BY <1>4, OneMore DEF Kept, JourneyTyped
<1>7. JourneyTyped'
  BY <1>1, <1>2, <1>6 DEF Kept, JourneyTyped
<1>8. Awaited'
  BY <1>1, CohortAssumption DEF Kept, Awaited
<1>9. \A j \in Txs \ {i} : j \in Loose' <=> j \in Loose
  BY <1>1, Counted, CohortAssumption
<1>10. /\ i \notin Loose
       /\ i \in Loose' <=> step \in Swaps /\ tx'[i].fate = "pending"
  BY <1>1, <1>3, Counted, CohortAssumption
<1>11. Owed' = 0 /\ Owed = IF step \in Swaps /\ tx[i].fate = "applied" THEN 1 ELSE 0
  BY <1>1, <1>3, CohortAssumption, OwedIs
<1>12. CASE unsure' = unsure
  <2>1. Loose' = Loose
    BY <1>5, <1>9, <1>10, <1>12, LooseElsewhere
  <2>2. Owed = 0
    BY <1>5, <1>11, <1>12
  <2> QED BY <1>1, <1>2, <1>7, <1>8, <1>11, <1>12, <2>1, <2>2 DEF Quiet, FewerLoose
<1>13. CASE step \in Swaps /\ unsure' = unsure + 1
  <2>1. CASE tx'[i].fate = "pending"
    <3>1. Loose' = Loose \cup {i} /\ Owed = 0
      BY <1>9, <1>10, <1>11, <1>13, <2>1, LooseElsewhere
    <3> QED BY <1>1, <1>2, <1>7, <1>8, <1>11, <1>13, <3>1 DEF GivenUp
  <2>2. CASE tx'[i].fate # "pending"
    <3>1. Loose' = Loose
      BY <1>9, <1>10, <2>2, LooseElsewhere
    <3> QED BY <1>1, <1>2, <1>7, <1>8, <1>11, <1>13, <3>1 DEF GivenUp
  <2> QED BY <2>1, <2>2
<1> QED BY <1>4, <1>12, <1>13

\* A transaction seen to fail is recorded, and no swap becomes loose by it.
LEMMA FailsKept ==
  ASSUME Kept, NEW i \in Txs, Fails(i)
  PROVE  JourneyTyped' /\ Awaited' /\ (Quiet \/ GivenUp)
<1>1. /\ tx' = tx /\ Abandoned(i) /\ stage[i] = "confirm" /\ stage'[i] # "success"
      /\ \/ stage' = [stage EXCEPT ![i] = "success"]
         \/ stage' = [stage EXCEPT ![i] = "failed on-chain"] /\ tx[i].fate = "failed"
         \/ stage' = [stage EXCEPT ![i] = "timed out"]
  BY DEF Fails, Waited, Confirmed, Rejected, TimedOut, Goes
<1>2. /\ stage'[i] = "timed out" \/ (stage'[i] = "failed on-chain" /\ tx[i].fate = "failed")
      /\ \A j \in Txs \ {i} : stage'[j] = stage[j]
  BY <1>1 DEF Kept, Inv, Typed
<1> QED BY <1>1, <1>2, AbandonedKept

\* An exception leaves the transaction to the network: quiet, or given up.
LEMMA BreaksKept ==
  ASSUME Kept, NEW i \in Txs, Breaks(i)
  PROVE  JourneyTyped' /\ Awaited' /\ (Quiet \/ GivenUp)
<1>1. /\ Abandoned(i) /\ stage[i] \in {"getAccount", "simulate", "send", "confirm"}
      /\ stage' = [stage EXCEPT ![i] = "error"]
      /\ tx' = tx \/ (stage[i] = "send" /\ Accept(i))
  BY DEF Breaks, Throws, Running, Stages, Goes
<1>2. stage'[i] = "error" /\ \A j \in Txs \ {i} : stage'[j] = stage[j]
  BY <1>1 DEF Kept, Inv, Typed
<1>3. stage[i] \in {"getAccount", "simulate"} => tx[i].fate \in {"none", "built"}
  BY DEF Kept, Inv, Unsent
<1>4. CASE tx' = tx
  BY <1>1, <1>2, <1>3, <1>4, AbandonedKept
<1>5. CASE stage[i] = "send" /\ Accept(i)
  <2>1. tx \in [Txs -> TxRecord]
    BY DEF Kept, Inv, Typed
  <2>2. /\ tx[i].fate = "built" /\ tx'[i].fate = "pending"
        /\ \A j \in Txs \ {i} : tx'[j] = tx[j]
    BY <1>5, <2>1, AcceptTyped
  <2> QED BY <1>1, <1>2, <1>5, <2>2, AbandonedKept
<1> QED BY <1>1, <1>4, <1>5

\* The next user starts with nothing recorded and nothing applied; what the
\* earlier users left behind is theirs.
LEMMA NextUserKept ==
  ASSUME Kept, NextUser
  PROVE  JourneyTyped' /\ Awaited' /\ Evidence'
<1>1. /\ user' = user + 1 /\ user < Users - 1 /\ record' = NoSwaps
      /\ applied' = 0 /\ unsure' = 0 /\ awaiting' = awaiting /\ stage' = stage
      /\ job' = [i \in Txs |-> IF job[i] = NoJob THEN NoJob ELSE Earlier]
      /\ step = "done"
  BY DEF NextUser, submission
<1>2. awaiting \notin Txs
  BY <1>1 DEF Kept, Awaited, Swaps, Purchases, Approvals
<1>3. NoJob.step = "none" /\ Earlier.step = "of an earlier user"
  BY DEF NoJob, Earlier
<1>4. \A i \in Txs : /\ job'[i].step \notin Swaps
                     /\ job'[i] = NoJob <=> job[i] = NoJob
  BY <1>1, <1>3 DEF Swaps, Purchases
<1>5. NoSwaps \in [SUCCESS : Nat, FAILED : Nat] /\ NoSwaps.SUCCESS = 0
  BY DEF NoSwaps
<1>6. user' \in 0 .. Users - 1
  BY <1>1, CohortAssumption DEF Kept, JourneyTyped
<1>7. JourneyTyped'
  BY <1>1, <1>5, <1>6 DEF Kept, JourneyTyped
<1>8. Awaited'
  BY <1>1, <1>2, <1>4 DEF Kept, Awaited
<1>9. Loose' = {} /\ Owed' = 0
  <2>1. \A i \in Txs : i \notin Loose'
    BY <1>4, Counted
  <2>2. Loose' = {}
    BY <2>1 DEF Loose
  <2>3. Owed' = 0
    BY <1>1, <1>2, OwedIs
  <2> QED BY <2>2, <2>3
<1>10. Cardinality(Loose') = 0
  BY <1>9, NoneLoose
<1>11. record'.SUCCESS = 0
  BY <1>1, <1>5
<1> QED BY <1>1, <1>7, <1>8, <1>9, <1>10, <1>11 DEF Evidence

-----------------------------------------------------------------------------
(* The steps of the network. *)

\* A transaction is applied: the awaited one, which is then owed a record, a
\* loose swap, or something that is no swap of this user.
LEMMA AppliedKept ==
  ASSUME Kept, NEW i \in Txs, Applied(i)
  PROVE  JourneyTyped' /\ Awaited' /\ (Quiet \/ Happens)
<1>1. /\ Include(i, "applied") /\ stage' = stage /\ awaiting' = awaiting /\ job' = job
      /\ user' = user /\ record' = record /\ unsure' = unsure /\ step' = step
      /\ applied' = IF job[i].step \in Swaps THEN applied + 1 ELSE applied
  BY DEF Applied, Chain, journey, ledger, Ours
<1>2. /\ tx[i].fate = "pending" /\ tx'[i].fate = "applied"
      /\ \A j \in Txs \ {i} : tx'[j].fate = tx[j].fate
  <2>1. tx \in [Txs -> TxRecord]
    BY DEF Kept, Inv, Typed
  <2> QED BY <1>1, <2>1, IncludeTyped DEF Fates
<1>3. JourneyTyped'
  BY <1>1, OneMore DEF Kept, JourneyTyped
<1>4. Awaited'
  BY <1>1 DEF Kept, Awaited, Running
<1>5. \A j \in Txs \ {i} : j \in Loose' <=> j \in Loose
  BY <1>1, <1>2, Counted
<1>6. i \notin Loose' /\ (i \in Loose <=> i # awaiting /\ job[i].step \in Swaps)
  BY <1>1, <1>2, Counted
<1>7. CASE job[i].step \in Swaps /\ i = awaiting
  <2>1. Owed = 0 /\ Owed' = 1
    BY <1>1, <1>2, <1>7, OwedIs
  <2>2. Loose' = Loose
    BY <1>5, <1>6, <1>7, LooseElsewhere
  <2> QED BY <1>1, <1>3, <1>4, <1>7, <2>1, <2>2 DEF Happens
<1>8. CASE job[i].step \in Swaps /\ i # awaiting
  <2>1. Owed' = Owed
    BY <1>1, <1>2, <1>8, OwedIs
  <2>2. i \in Loose /\ Loose' = Loose \ {i}
    BY <1>5, <1>6, <1>8, LooseElsewhere
  <2> QED BY <1>1, <1>3, <1>4, <1>8, <2>1, <2>2 DEF Happens
<1>9. CASE job[i].step \notin Swaps
  <2>1. Owed' = Owed
    BY <1>1, <1>2, <1>9, OwedIs
  <2>2. Loose' = Loose
    BY <1>5, <1>6, <1>9, LooseElsewhere
  <2> QED BY <1>1, <1>3, <1>4, <1>9, <2>1, <2>2 DEF Quiet, FewerLoose
<1> QED BY <1>7, <1>8, <1>9

\* A transaction that fails, is lost or is forgotten counts no more.
LEMMA ElsewhereKept ==
  ASSUME Kept, NEW i \in Txs, Elsewhere(i) \/ Forgotten(i)
  PROVE  JourneyTyped' /\ Awaited' /\ Quiet
<1>1. /\ awaiting' = awaiting
      /\ user' = user /\ record' = record /\ unsure' = unsure /\ applied' = applied /\ step' = step
  BY DEF Elsewhere, Forgotten, journey, ledger
<1>2. tx \in [Txs -> TxRecord]
  BY DEF Kept, Inv, Typed
<1>3. CASE Elsewhere(i)
  <2>1. /\ job' = job /\ stage' = stage
        /\ tx[i].fate = "pending" /\ tx'[i].fate \in {"failed", "lost"}
        /\ \A j \in Txs \ {i} : tx'[j].fate = tx[j].fate
    BY <1>2, <1>3, IncludeTyped, FateTyped DEF Elsewhere, Chain, Dropped, Lose, Fates
  <2>2. JourneyTyped' /\ Awaited'
    BY <1>1, <2>1 DEF Kept, JourneyTyped, Awaited, Running
  <2>3. i \notin Loose' /\ \A j \in Txs \ {i} : j \in Loose' <=> j \in Loose
    BY <1>1, <2>1, Counted
  <2>4. FewerLoose
    BY <2>3, LooseElsewhere DEF FewerLoose
  <2>5. Owed' = Owed
    BY <1>1, <2>1, OwedIs
  <2> QED BY <1>1, <2>2, <2>4, <2>5 DEF Quiet
<1>4. CASE Forgotten(i)
  <2>1. /\ tx' = [tx EXCEPT ![i] = NoTx] /\ stage' = [stage EXCEPT ![i] = "none"]
        /\ job' = [job EXCEPT ![i] = NoJob] /\ stage[i] \in Verdicts
    BY <1>4 DEF Forgotten, Reused
  <2>2. /\ stage'[i] = "none" /\ tx'[i].fate = "none" /\ job'[i] = NoJob
        /\ \A j \in Txs \ {i} : tx'[j] = tx[j] /\ stage'[j] = stage[j] /\ job'[j] = job[j]
        /\ job' = [j \in Txs |-> job'[j]]
    BY <1>2, <2>1, NoTxTyped DEF Kept, Inv, Typed, JourneyTyped
  <2>3. i # awaiting
    BY <2>1 DEF Kept, Awaited, Running, Stages, Verdicts
  <2>4. JourneyTyped' /\ Awaited'
    BY <1>1, <2>2, <2>3 DEF Kept, JourneyTyped, Awaited, Running
  <2>5. i \notin Loose' /\ \A j \in Txs \ {i} : j \in Loose' <=> j \in Loose
    BY <1>1, <2>2, Counted
  <2>6. FewerLoose
    BY <2>5, LooseElsewhere DEF FewerLoose
  <2>7. Owed' = Owed
    BY <1>1, <2>2, <2>3, OwedIs
  <2> QED BY <1>1, <2>4, <2>6, <2>7 DEF Quiet
<1> QED BY <1>3, <1>4

-----------------------------------------------------------------------------
(* The invariant. *)

\* Before the first user nothing is recorded and nothing applied.
LEMMA InitKept == Init => Kept
<1> SUFFICES ASSUME Init PROVE Kept
  OBVIOUS
<1>1. Inv
  BY InitInv DEF Init
<1>2. NoSwaps \in [SUCCESS : Nat, FAILED : Nat] /\ NoSwaps.SUCCESS = 0
  BY DEF NoSwaps
<1>3. 0 \in 0 .. Users - 1
  BY CohortAssumption
<1>4. JourneyTyped
  BY <1>2, <1>3 DEF Init, JourneyTyped
<1>5. \A i \in Txs : stage[i] = "none" /\ job[i] = NoJob /\ tx[i].fate = "none"
  BY <1>1 DEF Init, SubmissionInit, Inv, Typed, Unsent
<1>6. Awaited
  BY <1>5, CohortAssumption DEF Init, Awaited
<1>7. Loose = {} /\ Owed = 0
  BY <1>5, CohortAssumption DEF Init, Loose, Owed
<1>8. record.SUCCESS = 0 /\ applied = 0 /\ unsure = 0 /\ Cardinality(Loose) = 0
  BY <1>2, <1>7, NoneLoose DEF Init
<1>9. Evidence
  BY <1>7, <1>8 DEF Evidence
<1> QED BY <1>1, <1>4, <1>6, <1>9 DEF Kept

\* Every step of the harness keeps what holds of its records.
LEMMA NextKept == ASSUME Kept, [HarnessNext]_vars PROVE Kept'
<1>1. JourneyTyped /\ Evidence /\ Inv
  BY DEF Kept
<1>2. Inv'
  BY <1>1, HarnessSubmits, NextInv
<1>3. ASSUME JourneyTyped', Awaited', Quiet \/ Settled \/ GivenUp \/ Happens
      PROVE  Kept'
  BY <1>1, <1>2, <1>3, EvidenceStays DEF Kept
<1>4. CASE Onboard \/ NotQuoted \/ TimePasses \/ UNCHANGED vars
  BY <1>3, <1>4, IdleKept
<1>5. CASE NextUser
  BY <1>2, <1>5, NextUserKept DEF Kept
<1>6. ASSUME NEW i \in Txs, \/ Approve(i) \/ Swap(i) \/ Invoking(i) \/ Succeeds(i)
                            \/ Fails(i) \/ Breaks(i) \/ Applied(i) \/ Elsewhere(i) \/ Forgotten(i)
      PROVE  Kept'
  BY <1>3, <1>6, BeginKept, InvokingKept, SucceedsKept, FailsKept, BreaksKept,
     AppliedKept, ElsewhereKept
<1> QED BY <1>4, <1>5, <1>6 DEF HarnessNext, Harness, Exception

\* The records of the harness are true of the ledger between two steps, for
\* any number of users and transactions, any quotes, and whichever way the
\* wait of invoke relates to the time for which a transaction is valid.
THEOREM RecordsAreBacked == HarnessSpec => []EvidenceBacked
<1>1. Kept => EvidenceBacked
  <2> SUFFICES ASSUME Kept, awaiting = Nothing
      PROVE  record.SUCCESS <= applied /\ applied <= record.SUCCESS + unsure
    BY DEF EvidenceBacked
  <2>1. Owed = 0
    BY CohortAssumption DEF Owed
  <2>2. Cardinality(Loose) \in Nat
    BY LooseCounts
  <2>3. record.SUCCESS \in Nat /\ applied \in Nat /\ unsure \in Nat
    BY DEF Kept, JourneyTyped
  <2> QED BY <2>1, <2>2, <2>3 DEF Kept, Evidence
<1> QED BY <1>1, InitKept, NextKept, PTL DEF HarnessSpec

\* The harness is a client of the web application's life cycle: whatever it
\* and the network do, the verdicts it reads are true of the ledger.
THEOREM HarnessVerdictsAreTrue == HarnessSpec => []VerdictsHold
<1>1. Kept => VerdictsHold
  BY DEF Kept, Inv
<1> QED BY <1>1, InitKept, NextKept, PTL DEF HarnessSpec

-----------------------------------------------------------------------------
(***************************************************************************)
(* What the harness sells.  It sells half of what the purchase was quoted  *)
(* at, although the purchase may have paid a tenth less, and although      *)
(* transactions it has given up may still be applied.  That is enough      *)
(* because a user sells once, last, and only after a purchase that was     *)
(* seen to be applied; so until the sale itself is applied, nothing is     *)
(* taken from what the purchase paid.                                      *)
(***************************************************************************)
Selling(i) == job[i].step = "sell"

\* What a swap of the user under way was sent with.
JobsTyped ==
  \A i \in Txs : job[i].step \in Swaps =>
    /\ job[i].quoted \in Nat \ {0} /\ job[i].min = MinOut(job[i].quoted)
    /\ job[i].sold = IF Selling(i) THEN SellAmount ELSE 0

\* The sale is the last step of a user, and there is one.
SellsLast ==
  /\ \A i \in Txs : Selling(i) => step = "done" \/ (step = "sell" /\ awaiting = i)
  /\ \A i, j \in Txs : Selling(i) /\ Selling(j) => i = j

\* Only a purchase that is worth it is followed by a sale.
WorthSelling ==
  step \in {"approve USDC", "sell"} \/ (\E i \in Txs : Selling(i)) => usdcOut > 100

\* Before the sale is applied the user owns what it sells.
StillOwned ==
  /\ step # "done" \/ \E i \in Txs : Selling(i)
  /\ \A i \in Txs : Selling(i) => tx[i].fate # "applied"
  /\ usdcOut > 100
  => SellAmount <= usdc

\* A purchase that is applied while it is awaited has paid its minimum.
PaidMinimum ==
  \A i \in Txs : awaiting = i /\ job[i].step = "buy" /\ tx[i].fate = "applied" => job[i].min <= usdc

Bought ==
  /\ usdc \in Nat /\ usdcOut \in Nat
  /\ JobsTyped /\ SellsLast /\ WorthSelling /\ StillOwned /\ PaidMinimum

\* Whoever has the minimum of a quote that is worth it has half of it.
LEMMA MinimumSuffices ==
  ASSUME NEW n \in Nat, n > 100, NEW m \in Nat, MinOut(n) <= m
  PROVE  n \div 2 <= m
BY DEF MinOut

\* A minimum is no more than the quote it is of.
LEMMA MinOutTyped == \A n \in Nat \ {0} : MinOut(n) \in Nat /\ MinOut(n) <= n
BY DEF MinOut

\* What has no swap of its own step: the steps that the journey can go to.
LEMMA StepAfter ==
  /\ AfterStep(usdcOut) \in {"approve USDC"} /\ step # "done" => usdcOut > 100
  /\ AfterStep(usdcOut) = "sell" => step = "approve USDC"
  /\ step \in {"sell", "done"} => AfterStep(usdcOut) = "done"
BY DEF AfterStep, AfterPurchases

\* Steps that apply nothing and send nothing.
LEMMA NothingBought ==
  ASSUME Bought, UNCHANGED <<job, usdc, usdcOut>>,
         \A i \in Txs : tx'[i].fate = "applied" <=> tx[i].fate = "applied",
         \/ UNCHANGED <<step, awaiting>>
         \/ step' = "done" /\ awaiting' \in {awaiting, Nothing}
         \/ step' = AfterStep(usdcOut) /\ awaiting' \in {awaiting, Nothing}
  PROVE  Bought'
<1>1. awaiting' \in {awaiting, Nothing} /\ Nothing \notin Txs
  BY CohortAssumption
<1>2. \A i \in Txs : Selling(i)' <=> Selling(i)
  BY DEF Selling
<1>3. SellAmount' = SellAmount
  BY DEF SellAmount
<1>4. JobsTyped'
  BY <1>3 DEF Bought, JobsTyped, Selling
<1>5. SellsLast'
  BY <1>2, StepAfter DEF Bought, SellsLast
<1>6. WorthSelling'
  BY <1>2, StepAfter DEF Bought, WorthSelling
<1>7. step' # "done" => step # "done"
  BY StepAfter
<1>8. StillOwned'
  BY <1>2, <1>3, <1>7 DEF Bought, StillOwned
<1>9. PaidMinimum'
  BY <1>1 DEF Bought, PaidMinimum
<1> QED BY <1>4, <1>5, <1>6, <1>8, <1>9 DEF Bought

\* A swap is sent with what the journey says.
LEMMA BeginBought ==
  ASSUME Kept, Bought, NEW i \in Txs, Approve(i) \/ Swap(i)
  PROVE  Bought'
<1>1. /\ awaiting = Nothing /\ awaiting' = i /\ stage[i] = "none" /\ tx' = tx
      /\ UNCHANGED <<step, usdc, usdcOut>>
      /\ step \in Swaps \cup Approvals /\ step # "done"
  BY DEF Approve, Swap, Begin, Submit, journey, ledger, Swaps, Purchases, Approvals
<1>2. SellAmount' = SellAmount /\ Nothing \notin Txs
  BY <1>1, CohortAssumption DEF SellAmount
<1>3. PICK what : /\ job' = [job EXCEPT ![i] = what] /\ what.step = step
                  /\ step \in Swaps =>
                       /\ what.quoted \in Nat \ {0} /\ what.min = MinOut(what.quoted)
                       /\ what.sold = IF step = "sell" THEN SellAmount ELSE 0
  <2>1. CASE Approve(i)
    <3>1. job' = [job EXCEPT ![i] = [step |-> step]]
      BY <2>1 DEF Approve, Begin
    <3>2. [step |-> step].step = step
      OBVIOUS
    <3>3. step \notin Swaps
      BY <2>1 DEF Approve, Approvals, Swaps, Purchases
    <3> QED BY <3>1, <3>2, <3>3
  <2>2. CASE Swap(i)
    <3>1. PICK quoted \in Quotes :
            job' = [job EXCEPT ![i] =
                      [step |-> step, quoted |-> quoted, min |-> MinOut(quoted),
                       sold |-> IF step = "sell" THEN SellAmount ELSE 0]]
      BY <2>2 DEF Swap, Begin
    <3> DEFINE w == [step |-> step, quoted |-> quoted, min |-> MinOut(quoted),
                     sold |-> IF step = "sell" THEN SellAmount ELSE 0]
    <3>2. /\ w.step = step /\ w.quoted = quoted /\ w.min = MinOut(w.quoted)
          /\ w.sold = IF step = "sell" THEN SellAmount ELSE 0
      OBVIOUS
    <3>3. quoted \in Nat \ {0}
      BY CohortAssumption
    <3> HIDE DEF w
    <3>4. w.quoted \in Nat \ {0}
      BY <3>2, <3>3
    <3>5. job' = [job EXCEPT ![i] = w]
      BY <3>1 DEF w
    <3> QED BY <3>2, <3>4, <3>5
  <2> QED BY <2>1, <2>2
<1>4. job'[i] = what /\ \A j \in Txs \ {i} : job'[j] = job[j]
  BY <1>3 DEF Kept, JourneyTyped
<1>5. \A j \in Txs : ~Selling(j)
  BY <1>1, <1>2 DEF Bought, SellsLast
<1>6. \A j \in Txs : Selling(j)' <=> (j = i /\ step = "sell")
  BY <1>3, <1>4, <1>5 DEF Selling
<1>7. JobsTyped'
  <2> SUFFICES ASSUME NEW j \in Txs, job'[j].step \in Swaps
               PROVE  /\ job'[j].quoted \in Nat \ {0} /\ job'[j].min = MinOut(job'[j].quoted)
                      /\ job'[j].sold = IF Selling(j)' THEN SellAmount' ELSE 0
    BY DEF JobsTyped, MinOut
  <2>1. CASE j = i
    BY <1>2, <1>3, <1>4, <1>6, <2>1
  <2>2. CASE j # i
    BY <1>2, <1>4, <1>5, <1>6, <2>2 DEF Bought, JobsTyped
  <2> QED BY <2>1, <2>2
<1>8. SellsLast'
  BY <1>1, <1>6 DEF SellsLast
<1>9. WorthSelling'
  BY <1>1, <1>6 DEF Bought, WorthSelling
<1>10. StillOwned'
  BY <1>1, <1>2, <1>5 DEF Bought, StillOwned
<1>11. PaidMinimum'
  <2>1. tx[i].fate # "applied"
    BY <1>1 DEF Kept, Inv, Typed, Unsent
  <2> QED BY <1>1, <2>1 DEF PaidMinimum
<1> QED BY <1>1, <1>7, <1>8, <1>9, <1>10, <1>11 DEF Bought

\* A purchase that succeeds has paid enough for the sale.
LEMMA SucceedsBought ==
  ASSUME Kept, Bought, NEW i \in Txs, Succeeds(i)
  PROVE  Bought'
<1>1. /\ awaiting = i /\ awaiting' = Nothing /\ tx' = tx /\ UNCHANGED <<job, usdc>>
      /\ usdcOut' = (IF step = "buy" THEN job[i].quoted ELSE usdcOut)
      /\ step' = AfterStep(usdcOut')
  BY DEF Succeeds, Waited, ledger, GoOn
<1>2. CASE step # "buy"
  BY <1>1, <1>2, NothingBought
<1>3. CASE step = "buy"
  <2> DEFINE q == job[i].quoted
  <2>1. PICK v \in {"success", "failed on-chain", "timed out"} :
          stage' = [stage EXCEPT ![i] = v] /\ (v = "success" => tx[i].fate = "applied")
    BY DEF Succeeds, Waited, Confirmed, Goes
  <2>2. tx[i].fate = "applied"
    <3>1. stage'[i] = "success" /\ stage'[i] = v
      BY <2>1 DEF Succeeds, Kept, Inv, Typed
    <3> QED BY <2>1, <3>1
  <2>3. job[i].step = "buy"
    BY <1>1, <1>3 DEF Kept, Awaited
  <2>4. q \in Nat \ {0} /\ MinOut(q) <= usdc
    BY <1>1, <2>2, <2>3 DEF Bought, JobsTyped, PaidMinimum, Swaps, Purchases
  <2>5. usdcOut' = q
    BY <1>1, <1>3
  <2>6. \A j \in Txs : ~Selling(j) /\ ~Selling(j)'
    BY <1>1, <1>3 DEF Bought, SellsLast, Selling
  <2>7. JobsTyped'
    <3>1. \A j \in Txs : job[j].step \in Swaps =>
            /\ job[j].quoted \in Nat \ {0} /\ job[j].min = MinOut(job[j].quoted) /\ job[j].sold = 0
      BY <2>6 DEF Bought, JobsTyped
    <3> QED BY <1>1, <2>6, <3>1 DEF JobsTyped, MinOut
  <2>8. SellsLast'
    BY <2>6 DEF SellsLast
  <2>9. step' \in {"approve USDC", "sell"} => q > 100
    BY <1>1, <1>3, <2>5 DEF AfterStep, AfterPurchases
  <2>10. WorthSelling'
    BY <2>5, <2>6, <2>9 DEF WorthSelling
  <2>11. StillOwned'
    <3> SUFFICES ASSUME q > 100 PROVE q \div 2 <= usdc
      BY <1>1, <2>5 DEF StillOwned, SellAmount
    <3>1. MinOut(q) <= usdc /\ usdc \in Nat /\ q \in Nat
      BY <2>4 DEF Bought
    <3> HIDE DEF q
    <3> QED BY <3>1, MinimumSuffices
  <2>12. PaidMinimum'
    BY <1>1, CohortAssumption DEF PaidMinimum
  <2> QED BY <1>1, <2>4, <2>5, <2>7, <2>8, <2>10, <2>11, <2>12 DEF Bought
<1> QED BY <1>2, <1>3

\* The next user starts with nothing.
LEMMA NextUserBought ==
  ASSUME Kept, Bought, NextUser
  PROVE  Bought'
<1>1. /\ usdc' = 0 /\ usdcOut' = 0 /\ step' = "fund"
      /\ job' = [i \in Txs |-> IF job[i] = NoJob THEN NoJob ELSE Earlier]
  BY DEF NextUser
<1>2. NoJob.step = "none" /\ Earlier.step = "of an earlier user"
  BY DEF NoJob, Earlier
<1>3. \A i \in Txs : job'[i].step \notin Swaps
  BY <1>1, <1>2 DEF Swaps, Purchases
<1>4. \A i \in Txs : ~Selling(i)' /\ job'[i].step # "buy"
  BY <1>3 DEF Selling, Swaps, Purchases
<1>5. JobsTyped' /\ SellsLast'
  BY <1>3, <1>4 DEF JobsTyped, SellsLast
<1>6. WorthSelling'
  BY <1>1, <1>4 DEF WorthSelling
<1>7. StillOwned'
  <2>1. ~(usdcOut' > 100)
    BY <1>1
  <2> QED BY <2>1 DEF StillOwned
<1>8. PaidMinimum'
  BY <1>4 DEF PaidMinimum
<1> QED BY <1>1, <1>5, <1>6, <1>7, <1>8 DEF Bought

\* Of the swaps only the sale takes USDC from the user.
LEMMA AppliedBought ==
  ASSUME Kept, Bought, NEW i \in Txs, Applied(i)
  PROVE  Bought'
<1>1. /\ Include(i, "applied")
      /\ UNCHANGED <<awaiting, job, step, usdcOut>>
  BY DEF Applied, Chain, journey
<1>2. /\ tx[i].fate = "pending" /\ tx'[i].fate = "applied"
      /\ \A j \in Txs \ {i} : tx'[j].fate = tx[j].fate
  <2>1. tx \in [Txs -> TxRecord]
    BY DEF Kept, Inv, Typed
  <2> QED BY <1>1, <2>1, IncludeTyped DEF Fates
<1>3. CASE ~Ours(i)
  <2>1. usdc' = usdc
    BY <1>3 DEF Applied, ledger
  <2>2. job[i].step \notin Swaps /\ ~Selling(i) /\ job[i].step # "buy"
    BY <1>3 DEF Ours, Selling, Swaps, Purchases
  <2>3. \A j \in Txs : Selling(j)' <=> Selling(j)
    BY <1>1 DEF Selling
  <2>4. SellAmount' = SellAmount
    BY <1>1 DEF SellAmount
  <2>5. JobsTyped' /\ SellsLast' /\ WorthSelling'
    BY <1>1, <2>3, <2>4 DEF Bought, JobsTyped, SellsLast, WorthSelling, Selling
  <2>6. StillOwned' /\ PaidMinimum'
    BY <1>1, <1>2, <2>1, <2>2, <2>3, <2>4 DEF Bought, StillOwned, PaidMinimum
  <2> QED BY <1>1, <2>1, <2>5, <2>6 DEF Bought
<1>4. CASE Ours(i)
  <2>1. PICK paid \in {job[i].min, job[i].quoted} :
          usdc' = usdc - job[i].sold + (IF job[i].step \in Purchases THEN paid ELSE 0)
    BY <1>4 DEF Applied
  <2>2. job[i].step \in Swaps /\ job[i].sold <= usdc
    BY <1>4 DEF Applied, Ours
  <2>3. /\ job[i].quoted \in Nat /\ job[i].min \in Nat /\ job[i].min <= job[i].quoted
        /\ job[i].sold = (IF Selling(i) THEN SellAmount ELSE 0)
    BY <2>2, MinOutTyped DEF Bought, JobsTyped
  <2>4. SellAmount \in Nat /\ SellAmount' = SellAmount
    BY <1>1 DEF Bought, SellAmount
  <2>5. \A j \in Txs : Selling(j)' <=> Selling(j)
    BY <1>1 DEF Selling
  <2>6. JobsTyped' /\ SellsLast' /\ WorthSelling'
    BY <1>1, <2>4, <2>5 DEF Bought, JobsTyped, SellsLast, WorthSelling, Selling
  <2>7. CASE Selling(i)
    <3>1. usdc' = usdc - SellAmount /\ SellAmount <= usdc
      BY <2>1, <2>2, <2>3, <2>4, <2>7 DEF Selling, Purchases, Bought
    <3>2. usdc' \in Nat
      BY <2>4, <3>1 DEF Bought
    <3>3. StillOwned'
      BY <1>2, <2>5, <2>7 DEF StillOwned
    <3>4. PaidMinimum'
      <4>1. step # "buy"
        BY <2>7 DEF Bought, SellsLast
      <4>2. \A j \in Txs : awaiting = j => job[j].step # "buy"
        BY <4>1 DEF Kept, Awaited
      <4> QED BY <1>1, <4>2 DEF PaidMinimum
    <3> QED BY <1>1, <2>6, <3>2, <3>3, <3>4 DEF Bought
  <2>8. CASE ~Selling(i)
    <3>1. usdc' = usdc + paid
      BY <2>1, <2>2, <2>3, <2>8 DEF Selling, Swaps, Purchases, Bought
    <3>2. paid \in Nat /\ job[i].min <= paid
      BY <2>1, <2>3
    <3>3. usdc' \in Nat /\ usdc <= usdc' /\ job[i].min <= usdc'
      BY <2>3, <3>1, <3>2 DEF Bought
    <3>4. StillOwned'
      <4>1. StillOwned /\ usdc \in Nat
        BY DEF Bought
      <4>2. \A j \in Txs : Selling(j) => tx'[j].fate = tx[j].fate
        BY <1>2, <2>8
      <4> QED BY <1>1, <2>4, <2>5, <3>3, <4>1, <4>2 DEF StillOwned
    <3>5. PaidMinimum'
      <4> SUFFICES ASSUME NEW j \in Txs, awaiting = j, job[j].step = "buy", tx'[j].fate = "applied"
                   PROVE  job[j].min <= usdc'
        BY <1>1 DEF PaidMinimum
      <4>1. CASE j = i
        BY <3>3, <4>1
      <4>2. CASE j # i
        <5>1. job[j].min <= usdc
          BY <1>2, <4>2 DEF Bought, PaidMinimum
        <5>2. job[j].min \in Nat
          <6>1. job[j].step \in Swaps
            BY DEF Swaps, Purchases
          <6> QED BY <6>1, MinOutTyped DEF Bought, JobsTyped
        <5> QED BY <3>3, <5>1, <5>2 DEF Bought
      <4> QED BY <4>1, <4>2
    <3> QED BY <1>1, <2>6, <3>3, <3>4, <3>5 DEF Bought
  <2> QED BY <2>7, <2>8
<1> QED BY <1>3, <1>4

\* A transaction whose place is used again cannot be applied any more.
LEMMA ForgottenBought ==
  ASSUME Kept, Bought, NEW i \in Txs, Forgotten(i)
  PROVE  Bought'
<1>1. /\ tx' = [tx EXCEPT ![i] = NoTx] /\ job' = [job EXCEPT ![i] = NoJob]
      /\ UNCHANGED <<step, awaiting, usdc, usdcOut>> /\ stage[i] \in Verdicts
  BY DEF Forgotten, Reused, journey, ledger
<1>2. /\ job'[i] = NoJob /\ \A j \in Txs \ {i} : tx'[j] = tx[j] /\ job'[j] = job[j]
  BY <1>1 DEF Kept, Inv, Typed, JourneyTyped
<1>3. NoJob.step = "none" /\ "none" \notin Swaps /\ "none" # "sell" /\ "none" # "buy"
  BY DEF NoJob, Swaps, Purchases
<1>4. \A j \in Txs : Selling(j)' <=> (j # i /\ Selling(j))
  BY <1>2, <1>3 DEF Selling
<1>5. SellAmount' = SellAmount
  BY <1>1 DEF SellAmount
<1>6. JobsTyped'
  <2> SUFFICES ASSUME NEW j \in Txs, job'[j].step \in Swaps
               PROVE  /\ job'[j].quoted \in Nat \ {0} /\ job'[j].min = MinOut(job'[j].quoted)
                      /\ job'[j].sold = IF Selling(j)' THEN SellAmount' ELSE 0
    BY DEF JobsTyped, MinOut
  <2>1. j # i
    BY <1>2, <1>3
  <2> QED BY <1>2, <1>4, <1>5, <2>1 DEF Bought, JobsTyped
<1>7. SellsLast'
  BY <1>1, <1>4 DEF Bought, SellsLast
<1>8. WorthSelling'
  BY <1>1, <1>4 DEF Bought, WorthSelling
<1>9. i # awaiting
  BY <1>1 DEF Kept, Awaited, Running, Stages, Verdicts
<1>10. StillOwned'
  <2>1. CASE Selling(i)
    <3>1. step = "done" /\ \A j \in Txs : ~Selling(j)'
      BY <1>4, <1>9, <2>1 DEF Bought, SellsLast
    <3> QED BY <1>1, <3>1 DEF StillOwned
  <2>2. CASE ~Selling(i)
    <3>1. \A j \in Txs : Selling(j)' <=> Selling(j)
      BY <1>4, <2>2
    <3>2. \A j \in Txs : Selling(j) => tx'[j] = tx[j]
      BY <1>2, <2>2
    <3>3. StillOwned
      BY DEF Bought
    <3> QED BY <1>1, <1>5, <3>1, <3>2, <3>3 DEF StillOwned
  <2> QED BY <2>1, <2>2
<1>11. PaidMinimum'
  BY <1>1, <1>2, <1>9 DEF Bought, PaidMinimum
<1> QED BY <1>1, <1>6, <1>7, <1>8, <1>10, <1>11 DEF Bought

\* The steps that neither send nor apply a swap, nor see one succeed.
LEMMA OthersBought ==
  ASSUME Kept, Bought,
         \/ Onboard \/ NotQuoted \/ TimePasses \/ UNCHANGED vars
         \/ \E i \in Txs : Invoking(i) \/ Fails(i) \/ Breaks(i) \/ Elsewhere(i)
  PROVE  Bought'
<1>1. tx \in [Txs -> TxRecord]
  BY DEF Kept, Inv, Typed
<1>2. CASE Onboard \/ NotQuoted \/ TimePasses \/ UNCHANGED vars
  <2>1. UNCHANGED <<job, usdc, usdcOut, awaiting>>
    BY <1>2 DEF Onboard, NotQuoted, TimePasses, vars, journey, ledger
  <2>2. \A i \in Txs : tx'[i].fate = tx[i].fate
    BY <1>1, <1>2, AgedTyped DEF Onboard, NotQuoted, TimePasses, Pass, vars, submission
  <2>3. step' \in {step, AfterStep(usdcOut), "done"}
    BY <1>2 DEF Onboard, NotQuoted, TimePasses, vars, journey, GoOn, GiveUp
  <2> QED BY <2>1, <2>2, <2>3, NothingBought
<1>3. ASSUME NEW i \in Txs, Invoking(i)
      PROVE  Bought'
  <2>1. UNCHANGED <<job, usdc, usdcOut, awaiting, step>>
    BY <1>3 DEF Invoking, journey, ledger
  <2>2. tx[i].fate # "applied"
    BY <1>3 DEF Invoking, GotAccount, Simulated, Signed, Sent, Kept, Inv, Unsent
  <2>3. tx'[i].fate # "applied" /\ \A j \in Txs \ {i} : tx'[j] = tx[j]
    <3>1. user \in Accounts
      BY CohortAssumption DEF Kept, JourneyTyped
    <3>2. tx' = tx \/ Build(i, user) \/ Accept(i)
      BY <1>3 DEF Invoking, GotAccount, Simulated, Signed, Sent
    <3> QED BY <1>1, <2>2, <3>1, <3>2, BuildTyped, AcceptTyped
  <2> QED BY <2>1, <2>2, <2>3, NothingBought
<1>4. ASSUME NEW i \in Txs, Fails(i) \/ Breaks(i)
      PROVE  Bought'
  <2>1. /\ UNCHANGED <<job, usdc, usdcOut>> /\ awaiting' = Nothing
        /\ step' \in {AfterStep(usdcOut), "done"}
    BY <1>4 DEF Fails, Breaks, Abandoned, ledger, GoOn, GiveUp
  <2>2. tx' = tx \/ Accept(i)
    BY <1>4 DEF Fails, Breaks, Waited, Throws
  <2>3. \A j \in Txs : tx'[j].fate = "applied" <=> tx[j].fate = "applied"
    BY <1>1, <2>2, AcceptTyped
  <2> QED BY <2>1, <2>3, NothingBought
<1>5. ASSUME NEW i \in Txs, Elsewhere(i)
      PROVE  Bought'
  <2>1. UNCHANGED <<job, usdc, usdcOut, awaiting, step>>
    BY <1>5 DEF Elsewhere, journey, ledger
  <2>2. /\ tx[i].fate = "pending" /\ tx'[i].fate \in {"failed", "lost"}
        /\ \A j \in Txs \ {i} : tx'[j].fate = tx[j].fate
    BY <1>1, <1>5, IncludeTyped, FateTyped DEF Elsewhere, Chain, Dropped, Lose, Fates
  <2>3. \A j \in Txs : tx'[j].fate = "applied" <=> tx[j].fate = "applied"
    BY <2>2
  <2> QED BY <2>1, <2>3, NothingBought
<1> QED BY <1>2, <1>3, <1>4, <1>5

\* Nothing is bought or sold at first.
LEMMA InitBought == Init => Bought
<1> SUFFICES ASSUME Init PROVE Bought
  OBVIOUS
<1>1. NoJob.step = "none"
  BY DEF NoJob
<1>2. \A i \in Txs : job[i].step = "none"
  BY <1>1 DEF Init
<1>3. \A i \in Txs : ~Selling(i) /\ job[i].step \notin Swaps /\ job[i].step # "buy"
  BY <1>2 DEF Selling, Swaps, Purchases
<1>4. usdc = 0 /\ usdcOut = 0 /\ step = "fund"
  BY DEF Init
<1> QED BY <1>3, <1>4 DEF Bought, JobsTyped, SellsLast, WorthSelling, StillOwned, PaidMinimum

\* Every step of the harness and of the network keeps it.
LEMMA NextBought == ASSUME Kept, Bought, [HarnessNext]_vars PROVE Bought'
<1>1. CASE Onboard \/ NotQuoted \/ TimePasses \/ UNCHANGED vars
  BY <1>1, OthersBought
<1>2. CASE NextUser
  BY <1>2, NextUserBought
<1>3. ASSUME NEW i \in Txs, Approve(i) \/ Swap(i)
      PROVE  Bought'
  BY <1>3, BeginBought
<1>4. ASSUME NEW i \in Txs, Succeeds(i) \/ Applied(i) \/ Forgotten(i)
      PROVE  Bought'
  BY <1>4, SucceedsBought, AppliedBought, ForgottenBought
<1>5. ASSUME NEW i \in Txs, Invoking(i) \/ Fails(i) \/ Breaks(i) \/ Elsewhere(i)
      PROVE  Bought'
  BY <1>5, OthersBought
<1> QED BY <1>1, <1>2, <1>3, <1>4, <1>5 DEF HarnessNext, Harness, Exception

\* The two invariants of the harness, together.
THEOREM HarnessInvHolds == HarnessSpec => [](Kept /\ Bought)
BY InitKept, InitBought, NextKept, NextBought, PTL DEF HarnessSpec

\* The harness has the types it is written with; in particular the ledger
\* never owes a user USDC.
THEOREM HarnessTypeCorrect == HarnessSpec => []HarnessTypeOK
<1>1. Kept /\ Bought => HarnessTypeOK
  BY DEF Kept, JourneyTyped, Awaited, Bought, HarnessTypeOK
<1> QED BY <1>1, HarnessInvHolds, PTL

\* A sale that may still be applied sells what its user owns, whatever the
\* purchase paid and whatever else is still under way, for any quotes.
THEOREM SalesAreCovered == HarnessSpec => []SellsWhatWasBought
<1>1. ASSUME Kept, Bought
      PROVE  SellsWhatWasBought
  <2> SUFFICES ASSUME NEW i \in Txs, Selling(i), Ours(i), tx[i].fate # "applied"
               PROVE  job[i].sold <= usdc
    BY DEF SellsWhatWasBought, Selling
  <2>1. \A j \in Txs : Selling(j) => tx[j].fate # "applied"
    BY <1>1 DEF Bought, SellsLast
  <2>2. usdcOut > 100
    BY <1>1 DEF Bought, WorthSelling
  <2>3. SellAmount <= usdc
    BY <1>1, <2>1, <2>2 DEF Bought, StillOwned
  <2> QED BY <1>1, <2>3 DEF Bought, JobsTyped, Ours
<1> QED BY <1>1, HarnessInvHolds, PTL
=============================================================================
