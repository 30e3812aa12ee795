# AquaSwap in TLA+

AquaSwap is a constant-product market maker on Soroban (Stellar): Rust contracts, an
event indexer with a REST API, a TypeScript SDK and a web client.  This directory
models what the program does, checks it with TLC on small instances and proves the
properties of its core for every instance.

## 1. The system

| Part | Source | State | Operations |
|---|---|---|---|
| Token | `contracts/token/src` | balances, total supply, allowances with an expiration ledger | `mint`, `burn`, `transfer`, `transfer_from`, `approve`, views |
| Pair | `contracts/pair/src` | two reserves, LP supply, LP balances, LP allowances; the tokens it owns are balances of the token contracts | `initialize`, `add_liquidity`, `remove_liquidity`, `swap`, `sync`, `skim`, `lp_*` |
| Arithmetic | `contracts/shared/src/math.rs` | none | `get_amount_out`, `get_amount_in`, `quote`, `sqrt`, checked operations |
| Factory | `contracts/factory/src` | pair by sorted token pair, list of pairs, count, fee setter, pair code hash | `create_pair`, lookups, `set_fee_to`, `set_fee_to_setter`, `update_pair_wasm_hash` |
| Router | `contracts/router/src` | factory address, admin | `add_liquidity`, `remove_liquidity`, `swap_exact_tokens_for_tokens`, `swap_tokens_for_exact_tokens`, `upgrade` |
| Indexer | `indexer/src` | a cursor in memory and in Postgres, tables of pairs, swaps, liquidity events and reserve snapshots | `startIndexer` and its `tick` every five seconds, `processEvent`, `migrate` |
| REST API | `indexer/src/api` | none | read-only queries on the tables |
| Web client: transactions | `apps/web/src/lib/soroban.ts`, `trustline.ts`, `wallet.ts`, `txStatus.ts` | for each transaction the await it is at, its sequence number and time bound, a deadline | build, simulate, sign, send, wait for the verdict |
| Web client: forms | `apps/web/src/components/swap`, `components/pool` (`frontend` is an older copy) | the form, the quote, what is known of the account, requests in flight | type, flip, select, quote, check trust lines, swap, deposit, withdraw |
| Web client: session | `apps/web/src/context/WalletContext.tsx` | the connected account | connect, disconnect, restore at page load |
| SDK | `sdk/typescript/src` | none | the contract formulas in TypeScript, call wrappers |
| Simulation harness | `scripts/testing/simulate-users.mjs` | for each test user the steps done, swaps recorded by status | one user's journey after the other: fund, trust line, approve, buy, sell |

**Who talks to whom.**  The router asks the factory for pair addresses, reads reserves
from pairs, moves the caller's tokens into the first pair and calls `swap` on one pair
after the other, each paying into the next.  A pair calls `transfer` and `balance` of
its two tokens and learns what came in only from its balances.  The indexer reads the
events pairs and the factory publish, and reads reserves from pairs; the web client
reads reserves and quotes through the SDK's formulas and sends transactions built
against what it read.

**What is hard.**  A Soroban transaction is atomic and transactions are serial: a panic
undoes all of it.  Inside the contracts what interleaves is therefore whole
transactions, and the difficulties are the order of those, rounding, the i128 range,
amounts that are signed where nothing asks for their sign, and
the gap between a token balance and the reserve that is meant to record it.  Between
contracts and the off-chain programs there is real concurrency: readings that are
stale when used, polls that overlap, crashes between two writes, answers that come
after a timeout.

**What makes each part correct.**

- Pair: nobody who holds LP units loses value to a deposit, withdrawal or swap of
  another; the books of the LP token add up; the pool can pay what its reserves say;
  the pool is never emptied; the swap check and the quote formula agree; units leave a
  holder only with consent.
- Token: the total supply is the sum of the balances; an allowance is spent at most
  once and not after its ledger; tokens leave an owner only with consent.

Most of what is said of the pair and the token is only true until somebody passes a
negative amount.  Which negative amounts break which promise is part of each property
(section 2, *Signed amounts*).

- Factory: one pair per set of two tokens, found under both orders, listed once.
- Router: the caller pays at most, and receives at least, what was stated, or nothing
  happens at all; the router owns nothing between transactions.
- Indexer: every event of a followed contract is recorded once, whatever crashes.
- Client: a verdict shown is true of the ledger, and nothing happens to a transaction after
  it was reported as timed out; a swap exchanges what was on the screen and pays the tolerated
  part of the quote shown; what a dialog announces is what the contracts do.
- Harness: what it records of a user is true of the ledger; every journey ends.

## 2. The modules

| Module | Models |
|---|---|
| `Int128` | the integers of the contracts: their range, and their division |
| `AmmMath` | `math.rs`: value and panic condition of every formula |
| `TokenLedger` | balances, transfers and the rule for spending an allowance, common to the token contract and the LP token |
| `PairMath` | what the pair computes: the amounts a deposit settles on, LP units minted, shares, inputs from balances, the product check, surplus |
| `Pair` | the pair contract: one action per entry point, with the token transfers it makes |
| `Token` | the token contract |
| `Exchange` | factory, router and several pairs over shared token ledgers; extends `PairMath` and `TokenLedger` |
| `Vault` | what a pool promises to those who hold a share of it, without formulas; `Pair` and every pair of `Exchange` implement it |
| `Clients` | what the web client and the SDK compute before they send a transaction, over the `Exchange` that will meet it |
| `Indexer` | the event indexer, the chain it reads and the database it writes |
| `Network` | external: the Stellar network as its clients rely on it |
| `Submission` | one transaction of the web client from the click to the verdict; extends `Network` |
| `Settlement` | what a page is promised of a transaction it awaits; `Submission` implements it |
| `SwapPage` | the swap form, its effects and requests, its swaps and trust lines; extends `Settlement` |
| `UserSimulation` | the harness; extends `Submission` |
| `MCPair`, `MCToken`, `MCExchange`, `MCIndexer`, `MCSwapPage` | instances for TLC |
| `TokenLedgerProofs` | transfers keep the sum of all balances, for any set of accounts |
| `PairMathProofs` | arithmetic: floor division, the integer square root, the equivalence of the swap check and `get_amount_out`, what deposits, withdrawals and trades do to the product behind a unit |
| `PairProofs`, `TokenProofs`, `IndexerProofs`, `SwapPageProofs` | the inductive invariants of these components and the theorems below |
| `ExchangeProofs` | the same for `Exchange`, and what follows for `Clients` |
| `SubmissionProofs` | the same for `Submission`, its refinement of `Settlement`, and `UserSimulation` |

A definition whose comment begins "Mutation of" is a bug the code does not have.  No
specification uses it; it is there to be put in the place of the right definition, to see
that a property notices.

### Signed amounts

Every amount is an `i128`, and few entry points ask for its sign.  `get_amount_out`,
`get_amount_in`, `quote` and `remove_liquidity` do, so the router's swaps, withdrawals and
deposits into a pair with reserves only pass positive amounts.  These do not, and take any
integer in the models:

| Code | What a negative amount does | Model |
|---|---|---|
| `token/src/contract.rs` 27-106, 153-181 | `mint` takes; `burn` makes tokens; `transfer` and `transfer_from` take from the recipient, and the latter raises the allowance; `approve` stores it | `Token`; to and from pools `TransferX` and `TransferY` of `Pair`, `Transfer` of `Exchange` |
| `pair/src/lp_token.rs` 42-71 | the same of LP units | `LpTransfer`, `LpTransferFrom`, `LpApprove` of `Pair` |
| `pair/src/contract.rs` 186-191 | the output of `swap` that is not paid may be negative: less of the balance counts as input, and bears the fee | `Swap` of `Pair` |
| `pair/src/contract.rs` 67-68, 89-97 | into an empty pool both amounts may be negative: they are paid to the caller, and their product is positive | `AddLiquidity` of `Pair` and of `Exchange` |

The code therefore does not keep the promises one would like to make without condition.
What it does keep is stated with the condition in the property.  A history variable,
`negatives`, counts the negative amounts that were passed: in `Token` by the account whose
balance they were to change, in `Pair` by what they meddle with (`"pool"`: a token transfer to
the pool, `"user"`: to anybody else, `"lp"`, `"deposit"`, `"swap"`), in `Exchange` by the address
they were paid to (`Clean`: none was).

| Property | Holds until | Whatever else is passed, for instance |
|---|---|---|
| `SupplyIsTotal` (`Token`) | always | a negative burn |
| `OwnersConsent` | of each transaction, for accounts it aims no negative amount at | negative amounts before it, or aimed at others in it |
| `LpAccounted` | `"lp"` | token transfers that take from the pool, negative deposits and outputs |
| `ReservesBacked` | `"pool"` | negative deposits, outputs and LP transfers |
| `SupplyBounded`, `ShareValueKept`, `ImplementsVault` | `Intact`: `"pool"`, `"lp"` or `"deposit"` | negative outputs, negative transfers between users |
| `TradesAtQuotedPrice` | `"pool"`, and of transactions that pass no negative amount themselves | negative deposits, outputs and LP transfers before |
| `HoldersConsent` | of each transaction that passes no negative amount | anything before it |
| `TypeOK`, `PoolsSound`, `PairsAreVaults` (`Exchange`) | per address, until it is paid a negative amount; the LP books, the registry and the sum of all tokens always | the same of any other pair |
| `QuotesExecute`, `InputsSuffice` | where every pair of the route has what it records | pairs that were drained and then synced |
| `SwapDelivers`, `DepositsDoNotPay`, `ClientsQuoteTheRouter`, `EstimatesHold`, `WithdrawalsKeepWorth`, `RegistrySound` | always | anything |

No condition is there in vain: without it, or without one of the kinds it names, TLC finds
in the instance of the run a behaviour of the code that breaks the property.  So the instances
reach the negative amounts, and the mutants show that they reach the rest.

### Pair: state and actions

| Variable | In the code |
|---|---|
| `balX`, `balY` | `Balance` entries of the two token contracts |
| `reserveX`, `reserveY`, `totalSupply` | instance storage of the pair |
| `lpBalance`, `lpAllowance` | `LpBalance`, and `LpAllowance` with `LpAllowanceExp`, in persistent storage |
| `seq` | `env.ledger().sequence()` |
| `signer`, `negatives` | history: who signed the last transaction; the negative amounts passed, by kind |

`AddLiquidity` (`Settled` gives its three ways to settle the amounts: into an empty pool,
all of X, all of Y), `RemoveLiquidity`, `Swap`, `Sync`, `Skim`, `LpTransfer`,
`LpTransferFrom` and `LpApprove` are the entry points.  Each is one step because a
transaction is; its guards are the negations of the panics, in the terms the code uses
(`F`, a value, and `FOk`, the condition under which it exists).  `TransferX` and
`TransferY` are token transfers by anybody, which is also how a swap is paid when it is
not sent through the router.  `CloseLedger` advances the ledger sequence.

Abstractions: authorisation is the choice of the caller (`require_auth` holds for the
account that signs); the fee is `FeeNum / FeeDen`, 997/1000
in the contracts; `MinLiquidity` is 1000 in the contracts and 1 in the instances;
`MaxInt` is the largest i128, and whatever leaves the range (`Fits`) panics.  `KLast`, written
once and never read, the bumps of
storage time-to-live and the events are left out: no property is about them.

### Token: state and actions

`balance`, `totalSupply`, `allowance` (with its expiration) and `admin` are the contract's
storage, `seq` is the ledger sequence, `signer` is who signed the last transaction, and
`negatives` counts the negative amounts aimed at each account.  `Mint`, `SetAdmin`, `Transfer`, `TransferFrom`,
`Burn` and `Approve` are its entry points.  An allowance is stored as approved and read
as zero after its ledger (`Reported`); `MaySpend` is the check that spending makes, which
reads the expiration on its own.

### Exchange: state and actions

| Variable | In the code |
|---|---|
| `bal` | `Balance` entries, by token and address, pairs included |
| `pool` | instance storage and LP balances of each deployed pair |
| `registry`, `pairList` | the factory's `Pair(lo, hi)` and `PairList(i)` entries; `PairCount` is the length of the list |
| `negatives` | history: the negative amounts paid to each address |
| `now` | the ledger timestamp that deadlines are compared with |

A router transaction calls the factory, tokens and pairs, and a panic in any of them undoes
it.  Each call is therefore an operator from a world (the record of all variables but
`now`) to the set of worlds it may leave, which is empty if it panics: `Pay` is a token
transfer, `PairAdd`, `PairRemove` and `PairSwap` are the entry points of a pair,
`Created` deploys and registers one, `RouterAdd`, `RouterRemove`, `SwapExactIn` and
`SwapExactOut` are the router's.  The contracts are deterministic, so a set holds at most one
world; as sets, calls chain by `After`, and the hops of a swap by the function `chain` of
`RunSwapChain`.  The actions
(`CreatePair`, `AddLiquidity`, `RemoveLiquidity`, `SwapExactTokensForTokens`,
`SwapTokensForExactTokens`, `Transfer`, `Sync`, `CloseLedger`) run one call and take its
world as the next state.  Because a call is an operator, a property can ask what a call
would do in every reachable state, and can chain calls (`DepositsDoNotPay`).

The state itself is the subject of `PoolsSound`, which is what a pair on its own promises
(`ReservesBacked`, `SupplyBounded`, `LpAccounted`) in ledgers that many pairs and the router
share, and of `PairsAreVaults`, which takes a transaction through several pairs as a step
of the vault that each of them is.

Abstractions: token addresses are numbers, because the factory compares addresses; token
addresses do not receive tokens.  A pair here has no LP allowances, LP transfers or skim;
`Pair` has them.  Swaps that go around the router, which alone can name a negative output, are
`Pair`'s as well.  What holds of every pair of `Exchange` is therefore said of pairs whose LP
units are not transferred.

### Indexer: state and actions

| Variable | In the code |
|---|---|
| `chain`, `height` | all events so far with ledger and position, the last closed ledger |
| `up` | whether the process runs |
| `lastLedger` | the variable of `startIndexer` |
| `scheduled`, `tick` | whether `setInterval` was reached; for each tick under way, the await it is in and what it holds |
| `rows` | tables `pairs`, `swaps` and `liquidity_events` |
| `snapshots` | table `pair_snapshots`; reserves are told apart by the ledger that set them |
| `cursor` | `last_indexed_ledger` in `indexer_state` |

Every await of a tick is a step: `StartTick` computes the start ledger and sends the
request, `Receive` or `RpcFails` ends it, `Insert` or `InsertFails` writes the row of an
event, `ReadReserves` and `StoreSnapshot` (or `SnapshotFails`) snapshot its pair,
`SaveCursor` or `SaveFails` ends the tick.  `Advance` is the loop around `processEvent`.
The three tables of events are one set of events; swaps and liquidity events are one kind,
`trade`, as they are treated alike.  A trade whose pair has no row fails at the foreign key,
and the failure is caught: `Inserted`'s last disjunct.  The chain and the page of a tick are
sets of events with ledger and position; `First` is the next one of the page.  `CloseLedger` lets the chain grow by a
ledger out of `Blocks`, at any moment; `Crash` and `Restart` are the process being killed and
started.

Abstractions: the node keeps all events and answers from the newest ledger, for events and
for reserves alike (a node that lags behind, or two that disagree, are not modelled); a query that an await waits for takes effect at
once or not at all; the read of the cursor at start succeeds.

### Network and Submission: state and actions

| Variable | In the code |
|---|---|
| `tx` | for each transaction what the network made of it, its source account, whether its sequence number is still the account's next, and for how long it is still valid |
| `stage` | the await of `buildSimSignSubmit` or `establishTrustline` a transaction is at, or its verdict |
| `wait` | what is left of `timeoutMs` in `waitForTransaction` |

`Submit`, `GotAccount`, `Simulated`, `Signed` and `Sent` are the awaits up to the answer of
`sendTransaction`; `Waited` ends `waitForTransaction` in one of its three ways (`Confirmed`,
`Rejected`, `TimedOut`); `Throws` is an exception at any of them, in the last two stages also
of a transaction the network has.  `Include`, `Lose`, `Accept` and `Build` are the network's,
`Pass` is time.  A place is used again (`Reused`) when nothing can happen to its transaction any
more, so that any number of transactions go through few places.

Abstractions: time is a countdown, so that no clock grows, and one for all: that the
browser's clock, from which the code takes its deadline, is off, and that a ledger closes some
seconds after its transactions were collected, is not modelled; a sequence number is a Boolean, so
that no number grows; the loop of `waitForTransaction` is one await, because an answer of 404
changes nothing.

### SwapPage: state and actions

| Variable | In the code |
|---|---|
| `publicKey` | of `useWallet` |
| `sellToken`, `buyToken`, `sellAmount` | the form |
| `quote`, `quoteTimer`, `quoteCalls` | the quote, the timer that delays a request, the requests under way |
| `needsTrustline`, `trustCalls`, `sellBalance`, `balanceCalls` | what is known of the account, and the requests for it |
| `order` | what each transaction swaps, or trusts, and what was on the screen at the click |
| `verdict`, `outcome` | of `Settlement` |
| `trusted` | external: the account's trust lines |

An effect of React runs right after a change of what it depends on, so every action that
changes the form or the account ends with `Effects`: the three effects, each with its
condition, its cancellation (`Cancelled`) and its request.  A request that was cancelled
stays in flight (`live` is the negation of the closure's `cancelled`).  `Session`, `Type`,
`Max`, `Flip`, `SelectSell` and `SelectBuy` are the user's; `QuoteTimerFires`, `QuoteAnswered`,
`TrustAnswered` and `BalanceAnswered` the answers; `HandleSwap` and `HandleEstablishTrustline`
the two meanings of the button; `Ended` what follows a verdict.

Abstractions: a pool is a price, another one each time it is looked at, so that quotes are
as stale as they like; the ledger pays what the price gives then, and not less than the
minimum, as `SwapDelivers` of `Exchange` has it.  What `Flip` and `Max` write to the form is
the amount itself; the decimals `formatUnits` cuts off there are `Typed` of `Clients`.  A balance of `sellBalance` carries the
token it was asked for, which the code forgets.

### Clients: definitions

No state of its own: `GetAmountsOut` and `GetAmountsIn` along the pairs a client lists
(`Row`, `ReservesFor`), the two fields and the estimate of the deposit dialog
(`FormAmounts`, `EstimatedLp`, `Minimum`), the two amounts of the withdrawal dialog
(`ShownOut`), Newton's square root (`Newton`), and what `handleSubmit` of both dialogs sends
(`DialogDeposit`, `DialogWithdrawal`).  `Unit` is the digit that `formatUnits` cuts off.
Wherever the contracts take a root the models use its specification, `Sqrt`;
`NewtonFindsTheRoot` proves that Newton's method computes it (`MCExchange` has it as an
assumption that TLC evaluates up to 400).

`EstimatesHold` says how far the announced LP units may be above the minted ones: two
units, and what one unit of each token is worth in LP units, the last because both
the dialog and the contracts settle one of the two amounts by rounding down.  The worth of
both is in the bound because a pair from which tokens were taken may record reserves of any
proportion to its LP units.

### UserSimulation: state and actions

| Variable | In the code |
|---|---|
| `user`, `step` | `idx` of the loop over users, and the place in `runUser` |
| `awaiting`, `job` | the transaction that `invoke` awaits, and what each transaction does |
| `usdcOut`, `record` | `usdcOut` of `runUser`, and the swaps it collects, counted by status |
| `usdc`, `applied` | external: the user's balance, and swaps applied to it |
| `unsure` | history: swaps recorded as `FAILED` that were sent and not seen to fail |

`Onboard` is friendbot and the trust line, `Approve` and `Swap` begin an `invoke`, `Invoking`
goes through its awaits, and it ends in `Succeeds`, `Fails` or `Breaks`; `NotQuoted` is a swap
without a quote.  `AfterStep` is the order of the steps with its two conditions on the
number of the user.  `NextUser` starts over with a new account; transactions of an earlier
user (`Earlier`) may still be applied, to that user's account.

## 3. The runs

| Run | What it asks | Instance |
|---|---|---|
| `pair` | do the LP books add up, are the reserves backed, is the supply at most the root of the product of the reserves (so that no side is ever drained), is the value behind an LP unit kept, does no trade beat the quote, do units leave a holder only with consent, is the pair a vault? | two users, one with 6 of each token, and the pool itself as recipient; amounts -2, 2 and 3, of which one negative amount may be passed; minimum 0, fee 3/10, two ledgers, allowances that end with the first |
| `token` | is the supply the sum of the balances, does nobody lose tokens without consent, is nobody in debt? | two accounts, amounts -2, 1 and 2, of which one negative amount may be aimed at each account; supply up to 3, three ledgers, expirations 0 and 1, allowances of 1, 2 and -2 |
| `exchange_routes` | is there one pair per set of tokens, and each a vault, does what is quoted execute, does a swap deliver exactly what it says to exactly whom it says, do the clients compute what the router does? | three tokens, up to two pairs, every path of up to three tokens (repeated and unknown ones included), five of each token, negative transfers of 1 to one of the pairs, fee 1/10 |
| `exchange_pool` | the same of quotes for every shape of one pool, with donations; is it backed and are its books right; do computed inputs suffice; does depositing and withdrawing never pay; do the two dialogs announce what happens? | two tokens, seven of each, deposits 2, 3, 5 and -2, transfers of 1 and -1 to the pair, fee 3/10, a deadline that passes, a slippage of a half, withdrawals of a half and of all |
| `indexer` | is nothing behind the cursor missing, is the newest snapshot current, wherever the process is killed; is every event stored in the end? | two followed pairs, three ledgers of zero or two events, one tick at a time, two kills, polls and saves that fail |
| `indexer_faults` | is a snapshot never filed under a later ledger than its reserves are from? | two pairs, one of them followed, two ledgers of one or two events, syncs, two ticks, everything fails that can |
| `submission` | are verdicts true, is nothing applied after a timeout, does every wait end? | two places for transactions of two accounts, a validity and a wait of 2 |
| `swap_page` | does the button swap on a quote for what is in the form, does a swap pay what was shown, does the balance settle? | one account, two tokens, amounts 0, 1 and 2, two prices, one transaction at a time, one cancelled request in flight |
| `user_simulation` | is the evidence backed by the ledger, does nobody sell what was not bought, does the harness end? | four users, two places for transactions, a validity of 2 and a wait of 1, quotes of 5 and 101 |
| `doc_*` | three statements of the documents and comments that the code does not keep | as small as shows it |

**Pair and token.**  The instances reach what matters: a supply that grows, shrinks and
returns to the locked minimum, pools lopsided enough that shares round to zero, swaps with
inputs left behind by donations, transfers to oneself and to the pool.  A fee of 3/10 makes
the fee visible in amounts of one digit.  The properties of the pool do not ask who acts;
those of the LP token need an owner and a spender.  `MaxNegative` is 1 in both: a property
with a condition is about what one negative amount of another kind does, and the properties
without one (`SupplyIsTotal`, `HoldersConsent`) about what follows it.  The minimum of a caller
is 0: one only refuses what the model then does not do, and the router's minimums are checked in
`Exchange`.  `MaxInt` is 3 in `token`, so that the range ends a series of mints, and out of
reach in `pair`.  The theorems carry all of them to every size, users, fee and number of
negative amounts.

**Exchange and clients.**  The properties of `exchange_routes` and `exchange_pool` are about
every call that a reachable state permits, so the callers, recipients, amounts and paths of a
property are not those that built the state.  Two hops are enough to tell apart the first hop
(paid by the caller), the last (pays the recipient) and the handing over between them.
`QuotesExecute` and `InputsSuffice` leave out paths that use a pair twice: their amounts come
from the reserves before the first use, and the chain may be refused.  `DepositsDoNotPay`
leaves out pools with donations, which a depositor may share in; pools that were drained and
synced are in it.  `EstimatesHold` leaves out
pools that have reserves and no LP units, to which the dialog announces nothing.

**Indexer.**  `indexer` takes what the code needs to be right: ticks that end before the next
is due (`Ticks = {1}`), pages that end with a ledger (zero or two events in a ledger, pages
of two), inserts and snapshots that do not fail, followed pairs, no syncs.  Each is a
CONSTANT, and a promise breaks without it: see the next section.  `indexer_faults` drops all
of them at once, for a property that holds nevertheless.
The fairness of `LiveSpec`: the interval timer fires, a query ends in one of its two ways, and
a node that is asked again and again replies in the end (strong fairness of `Receive`).
Nothing is assumed to restart a killed process, so `EventuallyStored` is about behaviours in
which it is up from some point on.  `MaxHeight` ends the chain, not the indexer.

**Submission.**  The code waits 30 seconds for transactions valid for 30 seconds: `Wait =
TimeBound`, and both are 2, which leaves room for an answer before, at and after the
deadline.  The fairness: time passes, and requests to the network are answered, or time out.
Nothing is asked of the ledger (a transaction may be lost), of the user (who need not
answer the wallet: `SubmissionsEnd` is about signed transactions), nor of exceptions.

**SwapPage.**  One transaction at a time comes back to life through `Reset`; that two may be
under way is `Submission`'s subject, and the theorems are about any number.  `KeepBps` is
10000, no slippage at all, as a custom slippage gives that is small enough to be rounded to
zero: the tightest minimum there is, against prices that halve between quote and swap.
`MaxStale` bounds what the user's actions leave in flight, not what the answers do.

**UserSimulation.**  The code waits for 60 seconds and its transactions are valid for 120:
`Wait < TimeBound`, so swaps are applied after they were recorded as failed.  Four users
take every path through `AfterStep`: the purchase that is repeated (users 0 and 3), the sale
(1 and 3), neither (2).  A quote of 5 is not worth selling from, one of 101 is.  The fairness:
the harness goes on (a node process that is not killed, its requests answered), time passes,
and places become free again.  A purchase pays between half of its quote and all of it; the
code may pay more than was quoted, if the price moves that way, and the sale is then covered all
the more.

No run has a CONSTRAINT.  Tokens are conserved; ledgers, timestamps and kills have a bound
each (`MaxSeq`, `MaxNow`, `MaxHeight`, `MaxCrashes`), `MaxNegative` bounds the negative
amounts, `MaxInt` what is minted, and `MaxStale` what is cancelled and not yet answered.

### Where the documents and the code differ

With a run that shows it:

- `router/src/contract.rs`, line 3, says every call has slippage protection.  `add_liquidity`
  checks the minimums, then lets the pair settle again without; rounding takes one token below
  its minimum (`doc_deposit_minimums`).
- `docs/ROADMAP.md`, line 868, says the indexer syncs all events.  A page that ends inside a
  ledger moves the cursor past the rest of it (`doc_indexer_events`).
- `SwapCard.tsx`, line 33, says what `needsTrustline` means.  The success of a trust line clears
  it for whichever token is selected by then (`doc_trustline_checked`).

Without a run of their own:

- `docs/SECURITY.md`, line 32, says contracts verify all inputs, and from line 498 on that every
  public function validates them, `add_liquidity` that both desired amounts are positive.  The
  sign of an amount is not validated where the table of *Signed amounts* says, and the pair's
  `add_liquidity` looks at it only if it has reserves.  Whatever the conditions of the
  properties exclude is a behaviour of the code: tokens and LP units leave their owners without
  consent, `burn` makes tokens, a pool has less than it records, a swap avoids most of the fee.
  Requiring `amount >= 0` (in `lp_token.rs` and the token contract) and that the output which is
  not paid be 0 (in `swap`) would remove the conditions, and with them `negatives`.
- `lp_token.rs`, line 22, says that the locked minimum can never be redeemed.  That is
  `LiquidityStays`, until a negative amount of LP units is passed: a holder may then have more
  units than are unlocked, and `burn` looks at that balance alone.
- `pair/src/contract.rs`, line 181, calls the check that ends `swap` the last line of defense.  It
  is of the value of the pool (`ShareValueKept`), not of the fee, which an output below zero
  evades.
- `docs/SECURITY.md` 7.2 says events let the state be reconstructed.  The event of a swap
  that finds input on both sides names one of them only (`pair/src/contract.rs`, line 255).
- `math.rs`, lines 11 to 13, states a reserve cap, `docs/SECURITY.md`, line 549, says it is
  enforced.  It is not used.  Nor would it do what its comment says, keep `(balance * 1000)^2`
  within the i128 range: 10^18 units give 10^42.  The bound that does is about 1.3 * 10^16
  units; the theorems that need one take it as their hypothesis (`SmallCirculation`,
  `SmallNumbers`).
- `docs/TESTING.md` I2 says the LP balances sum to the supply.  They sum to the supply
  less the locked minimum: `LpAccounted` is what holds (until a negative amount of LP units is
  passed), and is proved.
- `docs/TESTING.md` I3 says the reserves are the balances at all times.  They are at most
  the balances (`ReservesBacked`, proved, until a negative amount is transferred to the pool), and
  equal them after each deposit, withdrawal, swap
  and sync; `TransferX` raises a balance alone.
- `docs/PRD.md` says a provider can withdraw at any time.  The guard of `RemoveLiquidity`
  refuses a share that rounds to zero on one side.
- The indexer also loses events when an insert fails (`InsertFails`), when a tick overlaps
  another that is inside a ledger and the process is then killed (`Advance` moves `lastLedger`
  after the first event of a ledger), and of pairs created after it started (`Matches`).
- `analytics.ts` calls the sum of the newest snapshots the current TVL.  A sync changes
  reserves and is ignored: `Inserted` leaves `snapshots` as they are.
- The final report of `simulate-users.mjs` counts every swap among `totalOnChainTxns`, also
  those that were never sent (line 327).

## 4. The proofs

Everything below holds for every value of the constants, under the named assumptions of the
modules: the fee is a fraction between 0 and 1, the minimum is positive, pools, tokens and
users have distinct addresses, what users own at the start is finite in total, amounts are
integers, a slippage and the part of a position are at most all of it, a form offers
numbers, waits and validities are positive, there are finitely many places for the
transactions of the harness.  No theorem assumes the sign of an amount: what the properties say
of negative ones is in *Signed amounts*.  What a theorem assumes beyond that is in the table.

| Theorem | States |
|---|---|
| `TypeCorrect` (`PairProofs`) | `Spec => []TypeOK` |
| `LpUnitsAccounted` | `Spec => []LpAccounted` |
| `ReservesAreBacked` | `Spec => []ReservesBacked` |
| `SupplyIsBounded` | `Spec => []SupplyBounded` |
| `PoolNeverDrained` | `Spec => [](Intact /\ totalSupply > 0 => reserveX > 0 /\ reserveY > 0)` |
| `ShareValueIsKept` | `Spec => ShareValueKept` |
| `LiquidityStays` | `Spec => [][Untouched({"lp"})' /\ totalSupply > 0 => totalSupply' >= MinLiquidity]_vars` |
| `TradesAreFair` | `Spec => TradesAtQuotedPrice` |
| `PairIsAVault` | `Spec => ImplementsVault` |
| `HoldersHaveConsented` | `Spec => HoldersConsent` |
| `TypeCorrect` (`TokenProofs`) | `Spec => []TypeOK` |
| `SupplyIsTheTotal` (`TokenProofs`) | `Spec => []SupplyIsTotal` |
| `OwnersHaveConsented` (`TokenProofs`) | `Spec => OwnersConsent` |
| `CheckIsQuote` (`PairMathProofs`) | the swap check holds exactly if the output is at most `get_amount_out` of the input |
| `SqrtIsRoot` (`PairMathProofs`) | the integer square root exists and is a floor |
| `TotalMoved` (`TokenLedgerProofs`) | a transfer, of either sign, keeps the total |
| `TypeCorrect` (`ExchangeProofs`) | `Spec => []TypeOK` |
| `PoolsAreSound` | `Spec => []PoolsSound` |
| `EveryPairIsAVault` | `Spec => PairsAreVaults` |
| `RegistryIsSound` | `Spec => []RegistrySound` |
| `SwapsDeliver` | `Spec => []SwapDelivers` |
| `QuotesAreExecuted` | `Spec => [](SmallCirculation => QuotesExecute)` |
| `InputsAreEnough` | `Spec => [](SmallCirculation => InputsSuffice)` |
| `DepositsNeverPay` | `Spec => []DepositsDoNotPay` |
| `WithdrawalsAreWorthWhatIsShown` | `Spec => []WithdrawalsKeepWorth` |
| `ClientsQuoteWhatTheRouterComputes` | `Spec => [](SmallNumbers => ClientsQuoteTheRouter)`, if `FeeDen > 1` |
| `EstimatesAreClose` | `Spec => []EstimatesHold` |
| `NewtonFindsTheRoot` (`ExchangeProofs`) | `Newton(y) = Sqrt(y)` for every natural number |
| `IndexerTyped` (`IndexerProofs`) | `Spec => []TypeOK` |
| `SnapshotsAreNotOlder` (`IndexerProofs`) | `Spec => []SnapshotsNotOlder` |
| `CursorIsSafe` (`IndexerProofs`) | `Spec /\ []PagesEndWithLedgers => []CursorCovers`, if there is one tick and inserts do not fail |
| `SnapshotsAreCurrent` (`IndexerProofs`) | `Spec /\ []PagesEndWithLedgers /\ []NoSyncs => []SnapshotsCurrent`, if moreover snapshots do not fail |
| `TypeCorrect` (`SubmissionProofs`) | `Spec => []TypeOK` |
| `VerdictsAreTrue` (`SubmissionProofs`) | `Spec => []VerdictsHold` |
| `PromiseIsKept` (`SubmissionProofs`) | `Spec => KeepsPromise`, if `Wait >= TimeBound` |
| `TypeCorrect` (`SwapPageProofs`) | `Spec => []TypeOK` |
| `QuotesMatch` (`SwapPageProofs`) | `Spec => []QuoteMatchesForm` |
| `SwapsPayWhatWasShown` (`SwapPageProofs`) | `Spec => []PaysWhatWasShown` |
| `BalancesSettle` (`SwapPageProofs`) | `Spec => []BalanceSettles` |
| `HarnessTypeCorrect` (`SubmissionProofs`) | `HarnessSpec => []HarnessTypeOK` |
| `RecordsAreBacked` (`SubmissionProofs`) | `HarnessSpec => []EvidenceBacked` |
| `SalesAreCovered` (`SubmissionProofs`) | `HarnessSpec => []SellsWhatWasBought` |
| `HarnessVerdictsAreTrue` (`SubmissionProofs`) | `HarnessSpec => []VerdictsHold` |

**Pair.**  `PairProofs` proves `InvHolds`: the conjunction of `TypeOK`, `LpAccounted`,
`ReservesBacked` and `SupplyBounded` (and that LP balances form a finite ledger) holds in
every reachable state, each part under its own condition on `negatives`.  None of its parts is
inductive alone.  A burn leaves the supply
natural because `LpAccounted` bounds each holder's units by the supply less the minimum; a
withdrawal can be paid because `ReservesBacked`; a mint divides by a positive reserve because
`SupplyBounded` excludes an empty reserve under a positive supply; and `SupplyBounded` is
kept because a step keeps the value behind an LP unit, which for a swap is
the product check with the fee taken off (whatever counts as input: the adjusted balances are at
most the balances), for a deposit the minimum of two floors, for a withdrawal two floors.  Conditions only ever cease to hold, so a step has to be looked at only
where the condition holds after it, and hence before it.  The refinement of `Vault` uses the
same lemmas once more, action by action,
to map the pair's reserves and supply to the vault's two amounts and shares: a first deposit
opens it, later ones join, withdrawals leave, a swap trades, a sync is a gift,
the rest is invisible, and what ends `Intact` is `Damage`, after which the vault promises
nothing.  The Locked shares of the vault are what makes it impossible to empty.

**Token.**  `TokenProofs` has an invariant of its own, `TypeOK` with `SupplyIsTotal` and the
finiteness of the ledger.  `SupplyIsTotal` needs no condition: a balance below zero is a debt,
and the total counts what is held less what is owed.  `OwnersConsent`
follows step by step from `TypeOK`; its one hard case is `TransferFrom`, where what leaves the
owner must be within an allowance that has not expired and leave it smaller by as much.
The total of a ledger is a difference of two cardinalities, of its units and of those it owes
(`Units`, `Owed`), not a recursive sum, so that
the library's theorems on finite sets apply; `TotalSplits` takes one account out of the sum, on
whichever side of zero it is.  The root's existence is the
least number principle, from the well-foundedness of strict subset on finite sets.

**Exchange.**  A transaction is a chain of calls, and between two calls tokens are on their way:
paid into a pair that has not seen them.  The invariant `WorldOk` is therefore stated of a
world and proved of every call (the lemmas named `...Step`), so that it holds in the middle
of a transaction too.  It says that no token is made (`LedgersOk`), that LP units are
accounted for (`PoolsOk`), that registry, list and pools
describe the same pairs (`RegistryOk`), and, of each pair that was never paid a negative amount,
that its reserves are backed in the shared ledgers and bound its supply (`Solvent`, with the
arithmetic of `PairMathProofs`).  That is an inequality because tokens may be on their way.  A
payment to one pair disturbs `Solvent` of that pair only, which is then no longer `Clean`: this
is why what is done to one pair does not reach the others.  The
hops of a swap are an induction over the path, in the form the library can cite:
a set of natural numbers with 0 and every successor is all of them.  What `SwapDelivers` says
is carried from hop to hop by `Traded` and by who is owed what (`ChainRouted`), and needs no
`Simple` path and no condition on the pairs.  `QuotesExecute` does: `HopReady` says the pairs ahead are as they were
when the amounts were computed, and have been paid.  `CheckIsQuote` then turns a quote into
the check that ends `swap`, and `OutBuys` and `InBuys` the amounts in both directions.

`SmallCirculation` is needed there.  The check multiplies both balances by 1000 and then with
each other, and panics when that leaves the i128 range; a quote multiplies less.  So
`get_amount_out` may answer where `swap` refuses, unless `(1000 * k)^2` is an i128 for a bound
`k` on what circulates of each token, which it is up to 13 * 10^15 units, more than 10^9 tokens
of seven decimals.  What circulates is the sum of the balances above zero: it is the supply while
nobody is in debt, and a negative transfer to an account that has less raises it, which is why it
is a condition on the state and not on the constants.  A hypothesis of
this kind is a limit of the code, not of the proof: in larger pools a quote may not be executable.

`DepositsNeverPay` composes four roundings (the router's settling, the pair's, `mint`, `burn`;
`RoundTrip`).  The refinement `EveryPairIsAVault` composes too: a swap whose path comes back to a
pair makes several trades there in one transaction, which together are one trade of the vault
(`TradesCompose`).

**Clients.**  The amounts along a route are recursive functions; that the clients' and the
router's are the same is that both satisfy the same equations, which have one
solution (`ClientOutUnique`, `ClientInUnique`).  The clients' numbers have no bound, so their
amounts are the router's only where the latter's products fit: hence `SmallNumbers`, the same
bound for the reserves recorded and the amounts asked for.  `FeeDen > 1` (1000 in the code)
excludes a market without any fee, where that bound would not leave room for a sum.  `WithdrawalsKeepWorth`
is arithmetic on products (`WorthKept`): the product of the reserves does not fall in a
trade, and a floor loses less than one.  `EstimatesHold` bounds what two settlings cost
(`TwiceSettled`, `EstimateNumbers`); an earlier version of the property, one unit tighter, was
met by every state of the instance and is not true: reserves 75 and 99, 65 LP units and deposits
of 23 and 29 break it; a later one, with the worth of one token only, is not true of pairs that
were drained on one side.  Newton's method descends because an iterate above the root has its next
one below it and not below the root (`NextIterate`), the integer form of the inequality of the
arithmetic and the geometric mean; so the first iterate that does not descend is the root
(`DescentEnds`).

**Indexer.**  `SnapshotsNotOlder` rests on what a tick holds while it waits for the insert of a
snapshot (`TickTyped`): reserves as of a ledger that is not before that of its event, since
`LastChange` bounds the ledger of every trade on the chain.  `CursorCovers` needs to know how
far a page has been worked off (`Reached`): every event to store is stored, on the rest of the
page, or in a later ledger than all of it.  A new pair lies before its trades, so a trade at
the front of a page finds its row.  `OneTick` and `PagesEndWithLedgers` are the hypotheses
under which the code keeps its cursor safe; the latter says no page ends inside a ledger, and
the instance of `indexer` has it by its sizes.  Overlapping ticks, failed inserts and long
ledgers are what the hypotheses exclude, and what section 3 says goes wrong.
`SnapshotsCurrent` has an argument of its own shape: every trade behind the cursor has a snapshot
filed under its ledger (`Shown`, with what is on the page or under way left out:
`ShownBut`, `ShownButFor`).  A kill between a trade's row and its snapshot does not lose the
snapshot, because the row's conflict does not stop `processEvent` from taking one and the cursor
has not moved.  The newest snapshot of a pair is then filed no earlier than its last trade, shows
nothing older (`SnapshotsNotOlder`), and there is nothing newer to show.  `NoSyncs` is needed
because a sync changes reserves and is not indexed; that snapshots may not fail, because the
failure of one is caught and the cursor moves on.

**Submission.**  The invariant says what the network can have at each stage (`Unsent`: nothing
before the transaction was sent) and that verdicts are true.  The refinement of
`Settlement` needs one more part, `Waiting`: while a transaction is awaited its validity ends
no later than the wait, because both run down together and the wait starts later and is
not shorter.  A transaction reported as timed out is therefore not valid any more.  The
assumption `Wait >= TimeBound` is where the constants of `txStatus.ts` and `soroban.ts` must
agree; the harness, where they do not, has no such theorem.

**SwapPage.**  The part of the invariant that matters is `QuotesCurrent`: a quote that is
shown is for the form, or another is on its way (a timer or a request that is not
cancelled) and the button waits; and a request that is not cancelled is for the form as it
is.  `SwapKept` carries what was true at the click to whenever the ledger decides.

**UserSimulation.**  Between two steps `EvidenceBacked` is a sum, and it is not inductive: a
swap that was given up may be applied at any later time, and one that is awaited may have been
applied before it is recorded.  `Evidence` counts both: applied swaps and loose ones (given
up, still pending) are at most those recorded as successful, the one owed a record, and those
given up unseen.  Each step changes these counts in one of four ways (`Quiet`, `Settled`,
`GivenUp`, `Happens`), and `EvidenceStays` adds them up.  The proof makes no assumption on how
the wait and the validity relate.  That the steps of the harness are steps of `Submission`
(`HarnessSubmits`) brings in the latter's invariant.

`SellsWhatWasBought` is about one user (`Bought`): the sale is the user's last step and follows a
purchase that was seen applied, of a quote above 100 (`SellsLast`, `WorthSelling`); an applied
purchase pays its minimum (`PaidMinimum`), half of the quote is within it
(`MinimumSuffices`), and nothing else takes from the balance before the sale is applied
(`StillOwned`).  Late transactions of earlier users are paid to those users' accounts.

**Only model-checked.**  Every invariant and every action property that a passing run checks
is stated by a theorem of the table; where the theorem has hypotheses the run meets them by its
instance.  With TLC alone stay what is liveness under fairness (`EventuallyStored`,
`SubmissionsEnd`, `HarnessEnds`), which with ENABLED is out of the prover's reach, and the
document statements, which are false.  The library's induction principles take an operator as a
parameter and cannot be cited here; the inductions above, over paths and over the iterates of
Newton's method, go through the set of the numbers for which a statement holds, and recursion is
written as recursive functions throughout.

## 5. What remains

`SmallCirculation` bounds all that circulates of a token; what the check needs is a bound on what
one pair has.  LP transfers and negative outputs are in `Pair` and not in `Exchange`, so what a
drained or meddled-with pair does to a *route* is only checked for negative token transfers and
deposits.  A node that lags behind would be a second height in `Indexer`, from which reserves are
read; the race of two ticks for the cursor is described, not checked.  `CursorCovers` could be stated as a refinement: an abstract log of events and a
reader of it, which `Indexer` implements when pages end with ledgers.  `Exchange` and `Pair` model
the same contract at two grains, and share their arithmetic and `Vault`; that a step of
`Exchange` is, for one of its pairs, a step of `Pair` is not stated.

## 6. What is not modelled

- **The wallet session** (`WalletContext.tsx`).  Its state is the connected account, which
  `SwapPage` changes at any moment.  The one difficulty, a lookup at page load whose answer
  overwrites what the user has chosen since, is listed as a hazard.
- **Storage time-to-live.**  The contracts say by how many ledgers an entry is extended;
  expiry and restoration are the network's, and outside the horizon of the instances.
- **The administration of the factory and the router** (fee setter and recipient, pair code
  hash, upgrade).  Nothing else that is modelled reads what they set, except the code of
  contracts deployed later.
- **The REST queries and the presentation layer**, which keep no state of their own, and the
  opening, closing and loading of the dialogs.
- **The SDK's call wrappers, deployment scripts and container files.**  No state, one
  request each.
- **Most of the JavaScript by lines**: the component library under `components/ui`, markup,
  styles, and `frontend`, a copy of `apps/web/src`.  The logic of the exchange is in the
  Rust contracts, the indexer, `lib/` and the forms, which the modules above stand for.
