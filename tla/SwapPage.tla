------------------------------ MODULE SwapPage ------------------------------
(***************************************************************************)
(* The swap form of the web application: SwapCard.tsx with getQuote of     *)
(* quote.ts, hasTrustline of trustline.ts and getTokenBalance of           *)
(* balances.ts, and its two kinds of transaction, a swap and a trust line, *)
(* each awaited as Settlement promises.                                    *)
(*                                                                         *)
(* React runs an effect right after the change of one of its dependencies; *)
(* an action that changes the form therefore ends with Effects.  A request *)
(* that an effect cancels stays in flight: its answer is thrown away.      *)
(*                                                                         *)
(* Amounts are small numbers.  A pool is a price, which gives for each     *)
(* amount sold the amount bought; it is another one whenever it is looked  *)
(* at, by the quote (from the indexer, which may be behind, or from the    *)
(* chain) and by the swap.  Of the session only the account matters.       *)
(***************************************************************************)
EXTENDS Settlement, Naturals, FiniteSets

CONSTANTS
  Accounts, NoAccount,
  Tokens, Native,       \* the tokens, and the one that needs no trust line
  Amounts,              \* what may be typed into the form, nothing (0) included
  Balances,             \* what the wallet may be said to own
  Prices, Bought(_, _), \* the states of the pools: what a price gives for an amount
  KeepBps,              \* 10000 less the tolerated slippage, in basis points
  MaxStale,             \* bound: cancelled requests in flight
  Unknown               \* null: nothing answered yet

ASSUME FormAssumption ==
  /\ Native \in Tokens /\ Amounts \subseteq Nat /\ 0 \in Amounts /\ Balances \subseteq Amounts

ASSUME PriceAssumption ==
  /\ \A p \in Prices, a \in Amounts : Bought(p, a) \in Amounts
  /\ KeepBps \in 0 .. 10000

VARIABLES
  publicKey,                            \* the connected account
  sellToken, buyToken, sellAmount,      \* the form
  quote,                                \* the quote shown
  quoteTimer,                           \* the 400 ms before a quote is asked for
  needsTrustline, sellBalance,          \* what is known of the account
  quoteCalls, trustCalls, balanceCalls, \* the requests in flight
  order,                                \* what each submission is about
  trusted                               \* the tokens the accounts have trust lines for

form == <<sellToken, buyToken, sellAmount>>
replies == <<quote, quoteTimer, needsTrustline, sellBalance, quoteCalls, trustCalls, balanceCalls>>
vars == <<publicKey, form, replies, order, trusted, settlement>>

NoOrder == [kind |-> "none"]

isConnected == publicKey # NoAccount
hasAmount == sellAmount > 0
isSwapping == \E i \in Txs : Running(i) /\ order[i].kind = "swap"
isEstablishingTrustline == \E i \in Txs : Running(i) /\ order[i].kind = "trust"
quoteLoading == quoteTimer \/ \E c \in quoteCalls : c.live
insufficientBalance == sellBalance # Unknown /\ sellAmount > sellBalance.amount

-----------------------------------------------------------------------------
(* The effects *)

Cancelled(calls) == {[c EXCEPT !.live = FALSE] : c \in calls}

CheckTrustline ==
  IF <<publicKey, buyToken>>' = <<publicKey, buyToken>>
    THEN UNCHANGED <<needsTrustline, trustCalls>>
    ELSE /\ needsTrustline' = Unknown
         /\ trustCalls' = Cancelled(trustCalls) \cup
              (IF isConnected' THEN {[token |-> buyToken', live |-> TRUE]} ELSE {})

ReadBalance ==
  IF <<publicKey, sellToken>>' = <<publicKey, sellToken>>
    THEN UNCHANGED <<sellBalance, balanceCalls>>
    ELSE /\ sellBalance' = IF isConnected' THEN sellBalance ELSE Unknown
         /\ balanceCalls' = Cancelled(balanceCalls) \cup
              (IF isConnected' THEN {[token |-> sellToken', live |-> TRUE]} ELSE {})

AskQuote ==
  IF form' = form
    THEN UNCHANGED <<quote, quoteTimer, quoteCalls>>
    ELSE /\ quoteTimer' = hasAmount'
         /\ quote' = IF hasAmount' THEN quote ELSE Unknown
         /\ quoteCalls' = Cancelled(quoteCalls)

Effects == CheckTrustline /\ ReadBalance /\ AskQuote

-----------------------------------------------------------------------------
(* The session and the form *)

Session(account) ==
  /\ publicKey' = account /\ account # publicKey
  /\ UNCHANGED <<form, order, trusted, settlement>>
  /\ Effects

Edit ==
  /\ UNCHANGED <<publicKey, order, trusted, settlement>>
  /\ Effects

Type(amount) ==
  /\ sellAmount' = amount
  /\ UNCHANGED <<sellToken, buyToken>>
  /\ Edit

Max ==
  /\ sellBalance # Unknown /\ sellBalance.amount > 0
  /\ Type(sellBalance.amount)

(* The amount that was quoted, perhaps for other tokens, becomes the one   *)
(* to sell.                                                                *)
Flip ==
  /\ sellToken' = buyToken /\ buyToken' = sellToken
  /\ sellAmount' = IF quote = Unknown THEN 0 ELSE quote.amountOut
  /\ Edit

(* The selector disables the token chosen on the other side.               *)
SelectSell(token) ==
  /\ token # buyToken
  /\ sellToken' = token
  /\ UNCHANGED <<buyToken, sellAmount>>
  /\ Edit

\* Mutation of SelectBuy: the selector offers the token to sell as well.
SelectBuyAny(token) ==
  /\ buyToken' = token
  /\ UNCHANGED <<sellToken, sellAmount>>
  /\ Edit

SelectBuy(token) ==
  /\ token # sellToken
  /\ buyToken' = token
  /\ UNCHANGED <<sellToken, sellAmount>>
  /\ Edit

-----------------------------------------------------------------------------
(* The answers *)

Unaffected == UNCHANGED <<publicKey, form, order, trusted, settlement>>

QuoteTimerFires ==
  /\ quoteTimer /\ quoteTimer' = FALSE
  /\ quoteCalls' = quoteCalls \cup
       {[sell |-> sellToken, buy |-> buyToken, amount |-> sellAmount, live |-> TRUE]}
  /\ UNCHANGED <<quote, needsTrustline, sellBalance, trustCalls, balanceCalls>>
  /\ Unaffected

(* getQuote finds a pool, in the indexer or on the chain, or throws.       *)
Quotes(c) ==
  {[sell |-> c.sell, buy |-> c.buy, amount |-> c.amount, amountOut |-> Bought(p, c.amount)] :
     p \in Prices} \cup {Unknown}

\* Mutation of QuoteAnswered: an answer is used although it was cancelled.
QuoteAnsweredLate(c) ==
  /\ c \in quoteCalls /\ quoteCalls' = quoteCalls \ {c}
  /\ quote' \in Quotes(c)
  /\ UNCHANGED <<quoteTimer, needsTrustline, sellBalance, trustCalls, balanceCalls>>
  /\ Unaffected

QuoteAnswered(c) ==
  /\ c \in quoteCalls /\ quoteCalls' = quoteCalls \ {c}
  /\ IF c.live THEN quote' \in Quotes(c) ELSE UNCHANGED quote
  /\ UNCHANGED <<quoteTimer, needsTrustline, sellBalance, trustCalls, balanceCalls>>
  /\ Unaffected

(* A request that fails is answered like an account without trust line.    *)
TrustAnswered(c) ==
  /\ c \in trustCalls /\ trustCalls' = trustCalls \ {c}
  /\ \/ c.live /\ needsTrustline' = (c.token \notin trusted)
     \/ c.live /\ c.token # Native /\ needsTrustline' = TRUE
     \/ ~c.live /\ UNCHANGED needsTrustline
  /\ UNCHANGED <<quote, quoteTimer, sellBalance, quoteCalls, balanceCalls>>
  /\ Unaffected

\* Mutation of BalanceAnswered: an answer is used although it was cancelled.
BalanceAnsweredLate(c) ==
  /\ c \in balanceCalls /\ balanceCalls' = balanceCalls \ {c}
  /\ sellBalance' \in [token : {c.token}, amount : Balances]
  /\ UNCHANGED <<quote, quoteTimer, needsTrustline, quoteCalls, trustCalls>>
  /\ Unaffected

BalanceAnswered(c) ==
  /\ c \in balanceCalls /\ balanceCalls' = balanceCalls \ {c}
  /\ IF c.live THEN sellBalance' \in [token : {c.token}, amount : Balances]
               ELSE UNCHANGED sellBalance
  /\ UNCHANGED <<quote, quoteTimer, needsTrustline, quoteCalls, trustCalls>>
  /\ Unaffected
-----------------------------------------------------------------------------
(* The transactions.  The chain of conditions on the button's label says   *)
(* when the button does what; a trust line may be asked for while a swap   *)
(* is under way.                                                           *)

Ready == isConnected /\ hasAmount /\ ~insufficientBalance /\ ~isEstablishingTrustline

CanSwap == Ready /\ needsTrustline # TRUE /\ ~isSwapping /\ ~quoteLoading /\ quote # Unknown
CanTrust == Ready /\ needsTrustline = TRUE

Clicked(i, what) ==
  /\ Start(i)
  /\ order' = [order EXCEPT ![i] = what]
  /\ UNCHANGED <<publicKey, form, replies, trusted>>

\* Mutation of MinOf: no minimum is sent.
NoMin(amountOut) == 0

MinOf(amountOut) == (amountOut * KeepBps) \div 10000

HandleSwap(i) ==
  /\ CanSwap
  /\ Clicked(i, [kind |-> "swap", sell |-> sellToken, buy |-> buyToken, amount |-> sellAmount,
                 min |-> MinOf(quote.amountOut), shown |-> quote, paid |-> Unknown])

HandleEstablishTrustline(i) ==
  /\ CanTrust
  /\ Clicked(i, [kind |-> "trust", token |-> buyToken])

(* A verdict and what follows it: a swap that succeeded clears the form, a *)
(* trust line that succeeded is taken for one of the token selected now.   *)
Ended(i, told) ==
  /\ Answer(i, told)
  /\ UNCHANGED <<publicKey, order, trusted>>
  /\ CASE told = "success" /\ order[i].kind = "swap" ->
            /\ sellAmount' = 0
            /\ UNCHANGED <<sellToken, buyToken>>
            /\ Effects
       [] told = "success" /\ order[i].kind = "trust" ->
            /\ needsTrustline' = FALSE
            /\ UNCHANGED <<form, quote, quoteTimer, sellBalance, quoteCalls, trustCalls, balanceCalls>>
       [] OTHER -> UNCHANGED <<form, replies>>

(* The ledger: the router pays what the pool gives, and fails if it is     *)
(* less than the minimum.                                                  *)
SwapApplied(i, p) ==
  /\ order[i].kind = "swap" /\ Bought(p, order[i].amount) >= order[i].min
  /\ Land(i, "applied")
  /\ order' = [order EXCEPT ![i].paid = Bought(p, order[i].amount)]
  /\ UNCHANGED <<publicKey, form, replies, trusted>>

TrustApplied(i) ==
  /\ order[i].kind = "trust"
  /\ Land(i, "applied")
  /\ trusted' = trusted \cup {order[i].token}
  /\ UNCHANGED <<publicKey, form, replies, order>>

Failed(i) ==
  /\ Land(i, "failed")
  /\ UNCHANGED <<publicKey, form, replies, order, trusted>>

Reused(i) ==
  /\ Reset(i)
  /\ order' = [order EXCEPT ![i] = NoOrder]
  /\ UNCHANGED <<publicKey, form, replies, trusted>>

-----------------------------------------------------------------------------
Init ==
  /\ SettlementInit
  /\ publicKey = NoAccount
  /\ sellToken = Native /\ buyToken \in Tokens \ {Native} /\ sellAmount = 0
  /\ quote = Unknown /\ quoteTimer = FALSE
  /\ needsTrustline = Unknown /\ sellBalance = Unknown
  /\ quoteCalls = {} /\ trustCalls = {} /\ balanceCalls = {}
  /\ order = [i \in Txs |-> NoOrder]
  /\ trusted = {Native}

Stale == {c \in quoteCalls \cup trustCalls \cup balanceCalls : ~c.live}

User ==
  \/ \E account \in Accounts \cup {NoAccount} : Session(account)
  \/ \E amount \in Amounts : Type(amount)
  \/ Max
  \/ Flip
  \/ \E token \in Tokens : SelectSell(token) \/ SelectBuy(token)

Reply ==
  \/ QuoteTimerFires
  \/ \E c \in quoteCalls : QuoteAnswered(c)
  \/ \E c \in trustCalls : TrustAnswered(c)
  \/ \E c \in balanceCalls : BalanceAnswered(c)

Transaction(i) ==
  \/ HandleSwap(i)
  \/ HandleEstablishTrustline(i)
  \/ \E told \in Verdicts : Ended(i, told)
  \/ \E p \in Prices : SwapApplied(i, p)
  \/ TrustApplied(i)
  \/ Failed(i)
  \/ Reused(i)

Next ==
  \/ User /\ Cardinality(Stale') <= MaxStale
  \/ Reply
  \/ \E i \in Txs : Transaction(i)

Spec == Init /\ [][Next]_vars
-----------------------------------------------------------------------------
TypeOK ==
  /\ sellToken \in Tokens /\ buyToken \in Tokens /\ sellToken # buyToken
  /\ sellAmount \in Amounts
  /\ needsTrustline \in BOOLEAN \cup {Unknown}
  /\ quoteTimer \in BOOLEAN
  /\ \A i \in Txs : (verdict[i] = "none") <=> (order[i] = NoOrder)

\* Whenever the button swaps, the quote it swaps on was computed for the
\* amount and the tokens then in the form, whatever was typed, flipped or
\* selected while quotes were under way.
QuoteMatchesForm ==
  CanSwap => <<quote.sell, quote.buy, quote.amount>> = form

\* A swap that is applied, however late and whatever happened to the form and
\* to the price since the click, exchanges what was on the screen and pays the
\* tolerated part of the quote shown.
PaysWhatWasShown ==
  \A i \in Txs : order[i].kind = "swap" /\ order[i].paid # Unknown =>
    LET shown == order[i].shown IN
      /\ <<order[i].sell, order[i].buy, order[i].amount>> = <<shown.sell, shown.buy, shown.amount>>
      /\ order[i].paid * 10000 + 9999 >= shown.amountOut * KeepBps

\* A balance on the screen is the one of the token to sell as soon as no
\* answer is awaited; until then the last token's stays there.
BalanceSettles ==
  sellBalance # Unknown /\ ~(\E c \in balanceCalls : c.live) => sellBalance.token = sellToken

-----------------------------------------------------------------------------
\* SwapCard.tsx, line 33: needsTrustline is null while it is not checked, and
\* true if a trust line is needed before the token to buy can be received.
\* So it is false only if that token can be received.
DocTrustlineChecked ==
  needsTrustline = FALSE /\ ~(\E c \in trustCalls : c.live) => buyToken \in trusted
=============================================================================
