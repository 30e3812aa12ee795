----------------------------- MODULE Settlement -----------------------------
(***************************************************************************)
(* What a page of the web application is promised of a transaction it      *)
(* awaits: one verdict, and between the verdict and the ledger the         *)
(* relations of Answer and Land.  Submission implements it; the pages are  *)
(* written on top of it.                                                   *)
(***************************************************************************)
CONSTANT Txs        \* places for transactions

VARIABLES
  verdict,          \* what the page has been told
  outcome           \* what the ledger made of it

settlement == <<verdict, outcome>>

Running(i) == verdict[i] = "running"

SettlementInit == verdict = [i \in Txs |-> "none"] /\ outcome = [i \in Txs |-> "open"]

Start(i) ==
  /\ verdict[i] = "none" /\ verdict' = [verdict EXCEPT ![i] = "running"]
  /\ UNCHANGED outcome

(* The ledger decides while the page waits, or after an exception, which   *)
(* says nothing; never after a timeout.                                    *)
Land(i, result) ==
  /\ verdict[i] \in {"running", "error"} /\ outcome[i] = "open"
  /\ outcome' = [outcome EXCEPT ![i] = result]
  /\ UNCHANGED verdict

Told(i, told) ==
  /\ Running(i)
  /\ told = "success" => outcome[i] = "applied"
  /\ told = "failed on-chain" => outcome[i] = "failed"
  /\ verdict' = [verdict EXCEPT ![i] = told]

Answer(i, told) == Told(i, told) /\ UNCHANGED outcome

Reset(i) ==
  /\ verdict[i] \notin {"none", "running"}
  /\ verdict' = [verdict EXCEPT ![i] = "none"]
  /\ outcome' = [outcome EXCEPT ![i] = "open"]

Verdicts == {"success", "failed on-chain", "timed out", "error"}

SettlementNext ==
  \E i \in Txs :
    \/ Start(i) \/ Reset(i)
    \/ \E result \in {"applied", "failed"} : Land(i, result)
    \/ \E told \in Verdicts : Answer(i, told)

SettlementSpec == SettlementInit /\ [][SettlementNext]_settlement
=============================================================================
