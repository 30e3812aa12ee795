--------------------------- MODULE SwapPageProofs ---------------------------
(***************************************************************************)
(* What holds of the swap form for any tokens, amounts and prices, and     *)
(* any number of transactions and requests in flight.                      *)
(*                                                                         *)
(* Inv is inductive.  Its heart is QuotesCurrent: a quote that is shown    *)
(* may be for another form, but then another one is on its way, and the    *)
(* button waits for it; and a request whose answer will be used is for the *)
(* form as it is.  Orders carries what was true at the click to the moment *)
(* the ledger decides.                                                     *)
(***************************************************************************)
EXTENDS SwapPage, TLAPS

QuoteCall == [sell : Tokens, buy : Tokens, amount : Amounts, live : BOOLEAN]
TokenCall == [token : Tokens, live : BOOLEAN]
ShownQuote == [sell : Tokens, buy : Tokens, amount : Amounts, amountOut : Amounts]
Owned == [token : Tokens, amount : Balances]

SwapOrder == [kind : {"swap"}, sell : Tokens, buy : Tokens, amount : Amounts,
              min : Nat, shown : ShownQuote, paid : Amounts \cup {Unknown}]
TrustOrder == [kind : {"trust"}, token : Tokens]

FormTyped ==
  /\ sellToken \in Tokens /\ buyToken \in Tokens /\ sellToken # buyToken
  /\ sellAmount \in Amounts

RepliesTyped ==
  /\ quote \in ShownQuote \cup {Unknown} /\ quoteTimer \in BOOLEAN
  /\ needsTrustline \in BOOLEAN \cup {Unknown}
  /\ sellBalance \in Owned \cup {Unknown}
  /\ quoteCalls \subseteq QuoteCall /\ trustCalls \subseteq TokenCall
  /\ balanceCalls \subseteq TokenCall

QuotesCurrent ==
  /\ \A c \in quoteCalls : c.live => <<c.sell, c.buy, c.amount>> = form
  /\ quote # Unknown => <<quote.sell, quote.buy, quote.amount>> = form \/ quoteLoading

BalancesCurrent ==
  /\ \A c \in balanceCalls : c.live => c.token = sellToken
  /\ BalanceSettles

Screen == FormTyped /\ RepliesTyped /\ QuotesCurrent /\ BalancesCurrent

SwapKept(o) ==
  /\ <<o.sell, o.buy, o.amount>> = <<o.shown.sell, o.shown.buy, o.shown.amount>>
  /\ o.min = MinOf(o.shown.amountOut)
  /\ o.paid # Unknown => o.paid >= o.min

Orders ==
  /\ verdict \in [Txs -> Verdicts \cup {"none", "running"}]
  /\ order \in [Txs -> {NoOrder} \cup SwapOrder \cup TrustOrder]
  /\ \A i \in Txs : (verdict[i] = "none") <=> (order[i] = NoOrder)
  /\ \A i \in Txs : order[i].kind = "swap" => SwapKept(order[i])

Inv == Screen /\ Orders

-----------------------------------------------------------------------------
(* Arithmetic. *)

\* What is sent as the minimum is a natural number, less than one unit below
\* the tolerated part of the quote.
LEMMA MinOfQuote ==
  ASSUME NEW amount \in Nat
  PROVE  /\ MinOf(amount) \in Nat
         /\ \A paid \in Nat : paid >= MinOf(amount) => paid * 10000 + 9999 >= amount * KeepBps
<1> DEFINE n == amount * KeepBps
<1>1. n \in Nat
  BY PriceAssumption
<1>2. n \div 10000 \in Nat /\ (n \div 10000) * 10000 + 9999 >= n
  BY <1>1
<1> HIDE DEF n
<1>3. \A paid \in Nat : paid >= n \div 10000 => paid * 10000 + 9999 >= n
  BY <1>1, <1>2
<1> QED BY <1>2, <1>3 DEF MinOf, n

-----------------------------------------------------------------------------
(* The effects. *)

\* Cancelling requests leaves them requests of their kind, none of them live.
LEMMA CancelledCalls ==
  /\ \A calls \in SUBSET QuoteCall : /\ Cancelled(calls) \subseteq QuoteCall
                                     /\ \A c \in Cancelled(calls) : ~c.live
  /\ \A calls \in SUBSET TokenCall : /\ Cancelled(calls) \subseteq TokenCall
                                     /\ \A c \in Cancelled(calls) : ~c.live
BY DEF Cancelled, QuoteCall, TokenCall

\* The effects keep the screen consistent whatever happens to the form and to
\* the session.
LEMMA EffectsKeepScreen ==
  ASSUME Screen, FormTyped', Effects
  PROVE  Screen'
<1>1. /\ needsTrustline' \in BOOLEAN \cup {Unknown}
      /\ trustCalls' \subseteq TokenCall
  <2>1. buyToken' \in Tokens /\ Cancelled(trustCalls) \subseteq TokenCall
    BY CancelledCalls DEF Screen, RepliesTyped, FormTyped
  <2>2. [token |-> buyToken', live |-> TRUE] \in TokenCall
    BY <2>1 DEF TokenCall
  <2> QED BY <2>1, <2>2 DEF Effects, CheckTrustline, Screen, RepliesTyped
<1>2. /\ sellBalance' \in Owned \cup {Unknown}
      /\ balanceCalls' \subseteq TokenCall
      /\ BalancesCurrent'
  <2>1. CASE <<publicKey, sellToken>>' = <<publicKey, sellToken>>
    BY <2>1 DEF Effects, ReadBalance, Screen, RepliesTyped, BalancesCurrent, BalanceSettles
  <2>2. CASE <<publicKey, sellToken>>' # <<publicKey, sellToken>>
    <3> DEFINE asked == [token |-> sellToken', live |-> TRUE]
    <3>1. /\ sellToken' \in Tokens
          /\ Cancelled(balanceCalls) \subseteq TokenCall
          /\ \A c \in Cancelled(balanceCalls) : ~c.live
      BY CancelledCalls DEF Screen, RepliesTyped, FormTyped
    <3>2. asked \in TokenCall /\ asked.live /\ asked.token = sellToken'
      BY <3>1 DEF TokenCall
    <3> HIDE DEF asked
    <3>3. CASE isConnected'
      <4>1. sellBalance' = sellBalance /\ balanceCalls' = Cancelled(balanceCalls) \cup {asked}
        BY <2>2, <3>3 DEF Effects, ReadBalance, asked
      <4> QED BY <3>1, <3>2, <4>1 DEF Screen, RepliesTyped, BalancesCurrent, BalanceSettles
    <3>4. CASE ~isConnected'
      <4>1. sellBalance' = Unknown /\ balanceCalls' = Cancelled(balanceCalls)
        BY <2>2, <3>4 DEF Effects, ReadBalance
      <4> QED BY <3>1, <4>1 DEF Screen, RepliesTyped, BalancesCurrent, BalanceSettles
    <3> QED BY <3>3, <3>4
  <2> QED BY <2>1, <2>2
<1>3. /\ quote' \in ShownQuote \cup {Unknown} /\ quoteTimer' \in BOOLEAN
      /\ quoteCalls' \subseteq QuoteCall
      /\ QuotesCurrent'
  <2>1. CASE form' = form
    BY <2>1 DEF Effects, AskQuote, Screen, RepliesTyped, QuotesCurrent, quoteLoading
  <2>2. CASE form' # form
    <3>1. /\ Cancelled(quoteCalls) \subseteq QuoteCall
          /\ \A c \in Cancelled(quoteCalls) : ~c.live
      BY CancelledCalls DEF Screen, RepliesTyped
    <3>2. /\ quoteTimer' = hasAmount'
          /\ quote' = IF hasAmount' THEN quote ELSE Unknown
          /\ quoteCalls' = Cancelled(quoteCalls)
      BY <2>2 DEF Effects, AskQuote
    <3>3. hasAmount' \in BOOLEAN
      BY DEF hasAmount
    <3> QED BY <3>1, <3>2, <3>3 DEF Screen, RepliesTyped, QuotesCurrent, quoteLoading
  <2> QED BY <2>1, <2>2
<1> QED BY <1>1, <1>2, <1>3 DEF Screen, RepliesTyped

-----------------------------------------------------------------------------
(* The invariant. *)

\* A form that was just opened has no quote and nothing in flight.
LEMMA InitHolds == ASSUME Init PROVE Inv
<1>1. FormTyped
  BY FormAssumption DEF Init, FormTyped
<1>2. RepliesTyped /\ QuotesCurrent /\ BalancesCurrent
  BY DEF Init, RepliesTyped, QuotesCurrent, BalancesCurrent, BalanceSettles
<1>3. Orders
  BY DEF Init, SettlementInit, Orders, NoOrder
<1> QED BY <1>1, <1>2, <1>3 DEF Inv, Screen

\* What leaves the transactions alone keeps what is known of them.
LEMMA OrdersUntouched ==
  ASSUME Orders, UNCHANGED <<order, settlement>>
  PROVE  Orders'
BY DEF Orders, settlement, SwapKept

\* What leaves the form and the replies alone keeps the screen.
LEMMA ScreenUntouched ==
  ASSUME Screen, UNCHANGED <<form, replies>>
  PROVE  Screen'
BY DEF Screen, FormTyped, RepliesTyped, QuotesCurrent, BalancesCurrent, BalanceSettles,
       quoteLoading, form, replies

\* Whatever the user does to the session or to the form.
LEMMA UserStep ==
  ASSUME Inv, User
  PROVE  Inv'
<1>1. FormTyped' /\ Effects /\ UNCHANGED <<order, settlement>>
  <2>1. ASSUME NEW account \in Accounts \cup {NoAccount}, Session(account)
        PROVE  FormTyped' /\ Effects /\ UNCHANGED <<order, settlement>>
    BY <2>1 DEF Session, form, Inv, Screen, FormTyped
  <2>2. ASSUME NEW amount \in Amounts, Type(amount)
        PROVE  FormTyped' /\ Effects /\ UNCHANGED <<order, settlement>>
    BY <2>2 DEF Type, Edit, Inv, Screen, FormTyped
  <2>3. CASE Max
    <3>1. sellBalance.amount \in Amounts
      BY <2>3, FormAssumption DEF Max, Inv, Screen, RepliesTyped, Owned
    <3> QED BY <2>2, <2>3, <3>1 DEF Max
  <2>4. CASE Flip
    <3>1. (IF quote = Unknown THEN 0 ELSE quote.amountOut) \in Amounts
      BY FormAssumption DEF Inv, Screen, RepliesTyped, ShownQuote
    <3> QED BY <2>4, <3>1 DEF Flip, Edit, Inv, Screen, FormTyped
  <2>5. ASSUME NEW token \in Tokens, SelectSell(token) \/ SelectBuy(token)
        PROVE  FormTyped' /\ Effects /\ UNCHANGED <<order, settlement>>
    BY <2>5 DEF SelectSell, SelectBuy, Edit, Inv, Screen, FormTyped
  <2> QED BY <2>1, <2>2, <2>3, <2>4, <2>5 DEF User
<1> QED BY <1>1, EffectsKeepScreen, OrdersUntouched DEF Inv

\* Whatever is answered, in whatever order, late or not at all.
LEMMA ReplyStep ==
  ASSUME Inv, Reply
  PROVE  Inv'
<1>1. UNCHANGED <<form, order, settlement>>
  BY DEF Reply, QuoteTimerFires, QuoteAnswered, TrustAnswered, BalanceAnswered, Unaffected
<1>2. FormTyped'
  BY <1>1 DEF form, FormTyped, Inv, Screen
<1>3. RepliesTyped' /\ QuotesCurrent' /\ BalancesCurrent'
  <2>1. CASE QuoteTimerFires
    <3> DEFINE asked == [sell |-> sellToken, buy |-> buyToken, amount |-> sellAmount, live |-> TRUE]
    <3>1. asked \in QuoteCall /\ asked.live /\ <<asked.sell, asked.buy, asked.amount>> = form
      BY DEF QuoteCall, form, Inv, Screen, FormTyped
    <3> HIDE DEF asked
    <3>2. /\ quoteTimer' = FALSE /\ quoteCalls' = quoteCalls \cup {asked}
          /\ UNCHANGED <<quote, needsTrustline, sellBalance, trustCalls, balanceCalls>>
          /\ form' = form /\ sellToken' = sellToken
      BY <2>1, <1>1 DEF QuoteTimerFires, asked, form
    <3> QED BY <3>1, <3>2 DEF Inv, Screen, RepliesTyped, QuotesCurrent, BalancesCurrent,
                              BalanceSettles, quoteLoading
  <2>2. ASSUME NEW c \in quoteCalls, QuoteAnswered(c)
        PROVE  RepliesTyped' /\ QuotesCurrent' /\ BalancesCurrent'
    <3>1. /\ quoteCalls' = quoteCalls \ {c}
          /\ UNCHANGED <<quoteTimer, needsTrustline, sellBalance, trustCalls, balanceCalls>>
          /\ form' = form /\ sellToken' = sellToken
      BY <2>2, <1>1 DEF QuoteAnswered, form
    <3>2. CASE c.live
      <4>1. c \in QuoteCall /\ <<c.sell, c.buy, c.amount>> = form
        BY <3>2 DEF Inv, Screen, RepliesTyped, QuotesCurrent
      <4>2. \A p \in Prices : Bought(p, c.amount) \in Amounts
        BY <4>1, PriceAssumption DEF QuoteCall
      <4>3. \A r \in Quotes(c) :
              /\ r \in ShownQuote \cup {Unknown}
              /\ r # Unknown => <<r.sell, r.buy, r.amount>> = form
        BY <4>1, <4>2 DEF Quotes, ShownQuote, QuoteCall
      <4>4. quote' \in Quotes(c)
        BY <2>2, <3>2 DEF QuoteAnswered
      <4> QED BY <3>1, <4>3, <4>4 DEF Inv, Screen, RepliesTyped, QuotesCurrent, BalancesCurrent,
                                      BalanceSettles, quoteLoading
    <3>3. CASE ~c.live
      <4>1. quote' = quote
        BY <2>2, <3>3 DEF QuoteAnswered
      <4> QED BY <3>1, <3>3, <4>1 DEF Inv, Screen, RepliesTyped, QuotesCurrent, BalancesCurrent,
                                      BalanceSettles, quoteLoading
    <3> QED BY <3>2, <3>3
  <2>3. ASSUME NEW c \in trustCalls, TrustAnswered(c)
        PROVE  RepliesTyped' /\ QuotesCurrent' /\ BalancesCurrent'
    <3>1. /\ trustCalls' \subseteq trustCalls
          /\ needsTrustline' \in BOOLEAN \cup {Unknown}
          /\ UNCHANGED <<quote, quoteTimer, sellBalance, quoteCalls, balanceCalls>>
          /\ form' = form /\ sellToken' = sellToken
      BY <2>3, <1>1 DEF TrustAnswered, form, Inv, Screen, RepliesTyped
    <3> QED BY <3>1 DEF Inv, Screen, RepliesTyped, QuotesCurrent, BalancesCurrent,
                        BalanceSettles, quoteLoading
  <2>4. ASSUME NEW c \in balanceCalls, BalanceAnswered(c)
        PROVE  RepliesTyped' /\ QuotesCurrent' /\ BalancesCurrent'
    <3>1. /\ balanceCalls' = balanceCalls \ {c}
          /\ UNCHANGED <<quote, quoteTimer, needsTrustline, quoteCalls, trustCalls>>
          /\ form' = form /\ sellToken' = sellToken
      BY <2>4, <1>1 DEF BalanceAnswered, form
    <3>2. CASE c.live
      <4>1. c.token \in Tokens /\ c.token = sellToken
        BY <3>2 DEF Inv, Screen, RepliesTyped, BalancesCurrent, TokenCall
      <4>2. sellBalance' \in Owned /\ sellBalance'.token = sellToken
        BY <2>4, <3>2, <4>1 DEF BalanceAnswered, Owned
      <4> QED BY <3>1, <4>2 DEF Inv, Screen, RepliesTyped, QuotesCurrent, BalancesCurrent,
                                BalanceSettles, quoteLoading
    <3>3. CASE ~c.live
      <4>1. sellBalance' = sellBalance
        BY <2>4, <3>3 DEF BalanceAnswered
      <4> QED BY <3>1, <3>3, <4>1 DEF Inv, Screen, RepliesTyped, QuotesCurrent, BalancesCurrent,
                                      BalanceSettles, quoteLoading
    <3> QED BY <3>2, <3>3
  <2> QED BY <2>1, <2>2, <2>3, <2>4 DEF Reply
<1> QED BY <1>1, <1>2, <1>3, OrdersUntouched DEF Inv, Screen

\* The order of one transaction changes with its verdict.
LEMMA OrderChanged ==
  ASSUME Orders, NEW i \in Txs, NEW v \in Verdicts \cup {"none", "running"},
         NEW o \in {NoOrder} \cup SwapOrder \cup TrustOrder,
         verdict' = [verdict EXCEPT ![i] = v], order' = [order EXCEPT ![i] = o],
         (v = "none") <=> (o = NoOrder),
         o.kind = "swap" => SwapKept(o)
  PROVE  Orders'
<1>1. /\ verdict' \in [Txs -> Verdicts \cup {"none", "running"}]
      /\ order' \in [Txs -> {NoOrder} \cup SwapOrder \cup TrustOrder]
      /\ verdict'[i] = v /\ order'[i] = o
      /\ \A j \in Txs \ {i} : verdict'[j] = verdict[j] /\ order'[j] = order[j]
  BY DEF Orders
<1>2. \A j \in Txs : (verdict'[j] = "none") <=> (order'[j] = NoOrder)
  BY <1>1 DEF Orders
<1>3. \A j \in Txs : order'[j].kind = "swap" => SwapKept(order'[j])
  BY <1>1 DEF Orders
<1> QED BY <1>1, <1>2, <1>3 DEF Orders, SwapKept

\* At the click, the quote is for what is in the form.
LEMMA QuoteIsCurrent ==
  ASSUME Inv, CanSwap
  PROVE  quote \in ShownQuote /\ <<quote.sell, quote.buy, quote.amount>> = form
BY DEF CanSwap, Inv, Screen, RepliesTyped, QuotesCurrent

\* The click carries what is on the screen into the order.
LEMMA SwapClicked ==
  ASSUME Inv, NEW i \in Txs, HandleSwap(i)
  PROVE  Inv'
<1> DEFINE o == [kind |-> "swap", sell |-> sellToken, buy |-> buyToken, amount |-> sellAmount,
                 min |-> MinOf(quote.amountOut), shown |-> quote, paid |-> Unknown]
<1>1. /\ quote \in ShownQuote /\ quote.amountOut \in Amounts
      /\ <<quote.sell, quote.buy, quote.amount>> = <<sellToken, buyToken, sellAmount>>
  BY QuoteIsCurrent DEF HandleSwap, form, ShownQuote
<1>2. MinOf(quote.amountOut) \in Nat
  <2>1. quote.amountOut \in Nat
    BY <1>1, FormAssumption
  <2> QED BY <2>1, MinOfQuote
<1>3. o \in SwapOrder /\ o.kind # NoOrder.kind
  BY <1>1, <1>2 DEF SwapOrder, Inv, Screen, FormTyped, NoOrder
<1>4. SwapKept(o) /\ o # NoOrder
  BY <1>1, <1>3 DEF SwapKept
<1>5. /\ verdict' = [verdict EXCEPT ![i] = "running"] /\ order' = [order EXCEPT ![i] = o]
      /\ UNCHANGED <<form, replies>>
  BY DEF HandleSwap, Clicked, Start
<1> HIDE DEF o
<1>6. Orders'
  BY <1>3, <1>4, <1>5, OrderChanged DEF Inv
<1> QED BY <1>5, <1>6, ScreenUntouched DEF Inv

\* A trust line is ordered for the token to buy.
LEMMA TrustClicked ==
  ASSUME Inv, NEW i \in Txs, HandleEstablishTrustline(i)
  PROVE  Inv'
<1> DEFINE o == [kind |-> "trust", token |-> buyToken]
<1>1. o \in TrustOrder /\ o.kind = "trust" /\ NoOrder.kind = "none"
  BY DEF TrustOrder, Inv, Screen, FormTyped, NoOrder
<1>2. o # NoOrder
  BY <1>1
<1>3. /\ verdict' = [verdict EXCEPT ![i] = "running"] /\ order' = [order EXCEPT ![i] = o]
      /\ UNCHANGED <<form, replies>>
  BY DEF HandleEstablishTrustline, Clicked, Start
<1> HIDE DEF o
<1>4. Orders'
  BY <1>1, <1>2, <1>3, OrderChanged DEF Inv
<1> QED BY <1>3, <1>4, ScreenUntouched DEF Inv

\* A verdict is told, and the form cleared or the trust line believed in.
LEMMA TransactionEnded ==
  ASSUME Inv, NEW i \in Txs, NEW told \in Verdicts, Ended(i, told)
  PROVE  Inv'
<1>1. /\ verdict[i] = "running" /\ verdict' = [verdict EXCEPT ![i] = told]
      /\ order' = order /\ told # "none"
  BY DEF Ended, Answer, Told, Running, Verdicts
<1>2. Orders'
  <2>1. /\ order[i] \in {NoOrder} \cup SwapOrder \cup TrustOrder /\ order[i] # NoOrder
        /\ order[i].kind = "swap" => SwapKept(order[i])
        /\ order' = [order EXCEPT ![i] = order[i]]
    BY <1>1 DEF Inv, Orders
  <2> QED BY <1>1, <2>1, OrderChanged DEF Inv
<1>3. Screen'
  <2>1. CASE told = "success" /\ order[i].kind = "swap"
    <3>1. FormTyped' /\ Effects
      BY <2>1, FormAssumption DEF Ended, Inv, Screen, FormTyped
    <3> QED BY <3>1, EffectsKeepScreen DEF Inv
  <2>2. CASE told = "success" /\ order[i].kind = "trust"
    <3>1. /\ needsTrustline' = FALSE
          /\ UNCHANGED <<form, quote, quoteTimer, sellBalance, quoteCalls, trustCalls, balanceCalls>>
      BY <2>2 DEF Ended
    <3> QED BY <3>1 DEF Inv, Screen, FormTyped, RepliesTyped, QuotesCurrent, BalancesCurrent,
                        BalanceSettles, quoteLoading, form
  <2>3. CASE ~(told = "success" /\ order[i].kind \in {"swap", "trust"})
    <3>1. UNCHANGED <<form, replies>>
      BY <2>3 DEF Ended
    <3> QED BY <3>1, ScreenUntouched DEF Inv
  <2> QED BY <2>1, <2>2, <2>3
<1> QED BY <1>2, <1>3 DEF Inv

\* The ledger pays, at a price that gives at least the minimum.
LEMMA SwapPaid ==
  ASSUME Inv, NEW i \in Txs, NEW p \in Prices, SwapApplied(i, p)
  PROVE  Inv'
<1> DEFINE o == [order[i] EXCEPT !.paid = Bought(p, order[i].amount)]
<1>1. /\ order[i].kind = "swap" /\ Bought(p, order[i].amount) >= order[i].min
      /\ verdict[i] \in {"running", "error"} /\ UNCHANGED <<form, replies, verdict>>
      /\ order' = [order EXCEPT ![i] = o]
  BY DEF SwapApplied, Land
<1>2. order[i] \in SwapOrder
  BY <1>1 DEF Inv, Orders, NoOrder, TrustOrder
<1>3. Bought(p, order[i].amount) \in Amounts
  BY <1>2, PriceAssumption DEF SwapOrder
<1>4. /\ o \in SwapOrder /\ o.kind = "swap"
      /\ o.paid = Bought(p, order[i].amount)
      /\ o.sell = order[i].sell /\ o.buy = order[i].buy /\ o.amount = order[i].amount
      /\ o.shown = order[i].shown /\ o.min = order[i].min
  BY <1>2, <1>3 DEF SwapOrder
<1>5. SwapKept(order[i])
  BY <1>1 DEF Inv, Orders
<1> HIDE DEF o
<1>6. SwapKept(o)
  BY <1>1, <1>4, <1>5 DEF SwapKept
<1>7. o # NoOrder
  BY <1>4 DEF NoOrder
<1>8. verdict' = [verdict EXCEPT ![i] = verdict[i]] /\ verdict[i] # "none"
  BY <1>1 DEF Inv, Orders
<1>9. verdict[i] \in Verdicts \cup {"none", "running"}
  BY DEF Inv, Orders
<1>10. Orders'
  BY <1>1, <1>4, <1>6, <1>7, <1>8, <1>9, OrderChanged DEF Inv
<1> QED BY <1>1, <1>10, ScreenUntouched DEF Inv

\* A verdict, and what the ledger does, keep what holds of orders and of the form.
LEMMA TransactionStep ==
  ASSUME Inv, NEW i \in Txs, Transaction(i)
  PROVE  Inv'
<1>1. CASE TrustApplied(i) \/ Failed(i)
  <2>1. UNCHANGED <<form, replies, order, verdict>>
    BY <1>1 DEF TrustApplied, Failed, Land
  <2>2. Orders'
    BY <2>1 DEF Inv, Orders, SwapKept
  <2> QED BY <2>1, <2>2, ScreenUntouched DEF Inv
<1>2. CASE Reused(i)
  <2>1. /\ verdict' = [verdict EXCEPT ![i] = "none"] /\ order' = [order EXCEPT ![i] = NoOrder]
        /\ UNCHANGED <<form, replies>>
    BY <1>2 DEF Reused, Reset
  <2>2. NoOrder.kind # "swap"
    BY DEF NoOrder
  <2>3. Orders'
    BY <2>1, <2>2, OrderChanged DEF Inv
  <2> QED BY <2>1, <2>3, ScreenUntouched DEF Inv
<1> QED BY <1>1, <1>2, SwapClicked, TrustClicked, TransactionEnded, SwapPaid DEF Transaction

-----------------------------------------------------------------------------
(* The theorems. *)

\* The invariant holds in every reachable state.
THEOREM InvHolds == Spec => []Inv
<1>1. Init => Inv
  BY InitHolds
<1>2. Inv /\ [Next]_vars => Inv'
  <2>1. ASSUME Inv, Next
        PROVE  Inv'
    BY <2>1, UserStep, ReplyStep, TransactionStep DEF Next
  <2>2. ASSUME Inv, UNCHANGED vars
        PROVE  Inv'
    <3>1. UNCHANGED <<form, replies>> /\ UNCHANGED <<order, settlement>>
      BY <2>2 DEF vars
    <3> QED BY <2>2, <3>1, ScreenUntouched, OrdersUntouched DEF Inv
  <2> QED BY <2>1, <2>2
<1> QED BY <1>1, <1>2, PTL DEF Spec

\* The form never has one token on both sides, and a transaction that is
\* under way or has a verdict has an order.
THEOREM TypeCorrect == Spec => []TypeOK
<1>1. Inv => TypeOK
  BY DEF Inv, Screen, FormTyped, RepliesTyped, Orders, TypeOK
<1> QED BY <1>1, InvHolds, PTL

\* For any tokens, amounts and prices, and however many requests are in
\* flight: the button swaps only on a quote for what is in the form.
THEOREM QuotesMatch == Spec => []QuoteMatchesForm
<1>1. Inv => QuoteMatchesForm
  BY QuoteIsCurrent DEF QuoteMatchesForm
<1> QED BY <1>1, InvHolds, PTL

\* For any tolerated slippage: what a swap pays is within it of what was on
\* the screen at the click, for the tokens and the amount on the screen.
THEOREM SwapsPayWhatWasShown == Spec => []PaysWhatWasShown
<1>1. Inv => PaysWhatWasShown
  <2> SUFFICES ASSUME Inv, NEW i \in Txs, order[i].kind = "swap", order[i].paid # Unknown
               PROVE  /\ <<order[i].sell, order[i].buy, order[i].amount>> =
                           <<order[i].shown.sell, order[i].shown.buy, order[i].shown.amount>>
                      /\ order[i].paid * 10000 + 9999 >= order[i].shown.amountOut * KeepBps
    BY DEF PaysWhatWasShown
  <2>1. order[i] \in SwapOrder
    BY DEF Inv, Orders, NoOrder, TrustOrder
  <2>2. order[i].paid \in Nat /\ order[i].shown.amountOut \in Nat
    BY <2>1, FormAssumption DEF SwapOrder, ShownQuote
  <2>3. SwapKept(order[i])
    BY DEF Inv, Orders
  <2> QED BY <2>2, <2>3, MinOfQuote DEF SwapKept
<1> QED BY <1>1, InvHolds, PTL

\* For any accounts and tokens: a balance that is shown when no answer is
\* awaited is the one of the token to sell.
THEOREM BalancesSettle == Spec => []BalanceSettles
<1>1. Inv => BalanceSettles
  BY DEF Inv, Screen, BalancesCurrent
<1> QED BY <1>1, InvHolds, PTL
=============================================================================
