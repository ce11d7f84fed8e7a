# Perpetual-Event: a TLA+ verification project

This directory models the protocol of the repository: perpetual and binary
event markets on chain, the factories that create and resolve them, the matcher
service with its workers, and the pages people trade and administer with. Each
module is translated from the source; `PROJECT.json` maps every definition to the lines it
models. TLC checks small instances, TLAPS proves theorems for every value of the
constants.

## 1. The system

| Part | Source | State it keeps | Who calls it |
|---|---|---|---|
| Perpetual market | `src/src/EventMarketUpgradeable.sol` | collateral, positions, nonces, filled amounts, mark and index, funding index and clock, caps, insurance fund, phase | traders, liquidators, relayers; the factory for parameters and resolution |
| PnL | `src/src/libraries/EventPerpMath.sol` | none | the market |
| Event factory | `src/src/EventFactoryUpgradeable.sol` | events, admin, oracle, beacon, pause flags | admin and oracle; it calls the markets |
| Binary market | `src/src/binary/BinaryMarket.sol` | collateral, YES and NO shares, nonces, filled amounts, outcome | traders, relayers; its factory resolves |
| Binary factory | `src/src/binary/BinaryMarketFactory.sol` | markets, admin, beacon | admin |
| Matcher API | `src/matcher/index.js` | none of its own; it reads and writes the database and Redis at every `await` | HTTP clients |
| Order book | `src/matcher/src/services`, `src/matcher/src/db/orders.js` | tables `orders`, `fills`, `cancels`, `order_events` | the API, the reconciler |
| Idempotency | `src/matcher/src/db/idempotency.js`, `src/matcher/src/redis.js` | table `idempotency_keys`, a Redis entry per key | the API |
| Rate limiter | `src/matcher/src/middleware/rateLimit.js` | a counter and an expiry per address and per maker | the API |
| Chain indexer | `src/matcher/src/indexer/chainIndexer.js` | tables `chain_fills`, `chain_cancels`, cursor, block hashes | a scheduled process; reads the node |
| Reconciler | `src/matcher/src/reconciler/run.js` | `applied_at` of `chain_cancels` | a scheduled process; calls the order book |
| Index publisher | `src/matcher/src/index-publisher/worker.js` | table `index_publish_log` | a scheduled process; reads the book, calls the factory |
| Trade panel | `components/TradePanel.tsx` of both frontends | signed orders in localStorage (shared by the tabs), a form, a dropdown, nonces as read | a user, in several tabs |
| Market page | `pages/Market.tsx` of both frontends | allowance, shares and outcome as read; transactions waiting for a receipt | a user, in several tabs |
| Admin pages | `pages/Admin.tsx`, `CreateEvent.tsx`, binary `Home.tsx` | admin, count and rows as read | operators |
| Scripts | `src/scripts` | none | people |

How they interact. A maker signs an order and posts it to the matcher; a taker
reads the book and submits the fill to a market with the maker's signature. The
market alone decides: it checks phase, price, expiry, side, what is left of the
order and the signature, settles funding of both sides, moves positions, fees
and the mark. It emits `Fill` and `OrderCanceled`; the indexer copies them into
tables and the reconciler takes cancelled orders out of the book. The publisher
turns the middle of the book into an index price that the factory hands to the
market, where it clamps the mark and drives funding.

### What is hard, and what makes each part correct

* **Perpetual market.** Transactions of any accounts interleave in any order;
  each is atomic and reverts as a whole. Hard: amounts taken one after the other
  from one balance, truncating divisions, an unsigned funding index that carries
  signed accruals, two kinds of orders with different replay protection, a hash
  that leaves the side out, phases (open, close-only, resolved) that cut through
  everything. Correct when nobody trades beyond a signature, open interest is
  balanced, value is moved and never made, a liquidation heals, and a resolved
  market pays.
* **Binary market.** The same order books over shares. Correct when every token
  has an owner and every share a token, and every winner is paid.
* **Factories.** Roles, a record of each event beside the market it describes,
  proxies whose storage starts from zero. Correct when the copies of a resolution
  agree and the first one stays.
* **Matcher.** Handlers interleave at every `await`; a crash may fall between any
  two statements; a client retries what was already done; Redis and the database
  may disagree. Correct when a retry does nothing twice and the book shows no
  more than the chain would still fill.
* **Indexer and reconciler.** Reorganisations, crashes between the inserts of a
  block and its cursor, cancels applied twice. Correct when nothing final is
  missed and nothing else is in the tables, but for heights the code gives up,
  and when a cancel that is marked as applied is in force.
* **Publisher.** Logged and published prices that part ways; steps that round to
  zero. Correct when the index moves in bounded steps and reaches the book's price.
* **Pages.** Every button acts on what was read before, and the transaction is
  mined later. Correct when nothing signed is lost and a call that reverts does so
  because something changed in between.

The hazards are listed with their lines and their properties in `PROJECT.json`.

## 2. Modules

| Module | What it is |
|---|---|
| `OrderLifecycle` | abstract specification: what an exchange promises the signer of an order. `traded` only grows, in pieces that never exceed the size; a dead order never trades and stays dead. Dead is an order whose nonce is spent (`spent`), and an order on record as filled or cancelled (`marked`) if the exchange looks at that record before it trades (`Revocable`). On chain these are the V2 orders alone: a V1 fill reads the nonce and no record, so the cancel of a V1 order, which succeeds and is announced, does not end it (section 4). In the matcher's table every order is revocable. |
| `EventPerpMath` | `PRECISION`, Solidity's truncating division, `Pnl`. |
| `EventMarket` | the perpetual market: state, one action per transaction, `Spec`, the properties that need no sum, and the `INSTANCE` of `OrderLifecycle`. |
| `EventMarketAccounting` | extends it with the properties that add up over traders: open interest, claims against tokens, margin, liquidation, settlement. |
| `EventMarketMC` | the instances TLC checks. |
| `EventMarketProofs` | theorems about `EventMarket` and `EventMarketAccounting`. |
| `SumLemmas` | lemmas about the sum of a function over a finite set, for the proof modules of the markets, the matcher and the publisher. |
| `BinaryMarket`, `BinaryMarketMC`, `BinaryMarketProofs` | the same for the binary market. |
| `OrderBook`, `OrderBookProofs` | the `orders` table, its statements, its `INSTANCE` of `OrderLifecycle`; used by the three modules below. |
| `RateLimit` | one entry of the rate limiter. |
| `Matcher`, `MatcherMC`, `MatcherProofs` | the API: `OrderBook`, `RateLimit`, handlers, the two answer stores. |
| `ChainIndexer`, `ChainIndexerMC`, `ChainIndexerProofs` | the chain, the indexer and the reconciler, composed with `OrderBook`. |
| `IndexPublisher`, `IndexPublisherMC`, `IndexPublisherProofs` | the publisher, composed with `OrderBook`. |
| `TradePanel`, `FundsPanel`, `AdminPage` | the pages, each with the part of the chain it talks to. |
| `Frontend`, `FrontendMC`, `FrontendProofs` | the pages together, their instance and theorems. |

### EventMarket and the contract

Every storage variable has the contract's name. `held` and `wallet` are the
ERC-20 balances, `now` is `block.timestamp` counted from initialisation, and
`executed` is a history variable: the size really filled against each order key,
which the contract does not keep and the promises are about.

| Action | Function |
|---|---|
| `Deposit`, `Withdraw` | `deposit`, `withdraw` (funding and margin included) |
| `SubmitFill` | `submitFill`, `submitFillV1`, `_submitFillCore`, `_executeFill`, `_updatePosition`, `_updateMarkPrice` |
| `CancelOrder` | `cancelOrder` |
| `Liquidate` | `liquidate` |
| `UpdateFunding` | `updateFunding` called on its own; `AdvanceFunding` is the same call inside the others |
| `SettleAndWithdraw` | `settleAndWithdraw` |
| `SetIndexPrice` … `Resolve` | the factory's calls (`FactoryStep`) |
| `Tick` | time |

* A transaction is one step. A revert is a step the guard excludes, so every
  checked subtraction of the contract is a conjunct: `SideOK` says that funding,
  loss and fee of one side are each covered, in that order; `FundingFits` is the
  checked addition to the index.
* An order is a record; that its signature is the maker's is its membership in
  `Orders`. `Key` is the hash without the side. A V1 order is one with salt 0,
  as in `_submitFillCore`, whichever entry point it came through.
* `fundingIndex` is a number below `WORD`; `AsSigned` is the cast of
  `settleFunding`. Other amounts are unbounded: the runs stay far from 2^256 and
  an overflow would revert.
* `Params` are the slots no transaction changes. `ProxyParams` (zero) is what a
  market created by the factory has; `DeclaredParams` is what the declarations
  say, what a directly deployed contract would have. Runs name which they use.
* Calls with amount zero return without a change and are left out.

### BinaryMarket and the contract

`collateralBalance`, `yesBalance`, `noBalance` and the order books are the
contract's; the actions are its functions. `makerFeeBps` and `takerFeeBps` are
definitions because nothing ever sets them. `Swap` is `_executeFill`, seen from
the buyer and the seller of YES.

### OrderBook, Matcher and the API

`row` and `remaining` are the table's rows and `remaining_size`; `applied` is a
history variable, what `applyFill` took off. Each SQL statement is one step.

| Action | Code |
|---|---|
| `Receive` | everything of a handler before its first `await`: both rate limits, internal auth, and, for a request without a key, validation and signature |
| `ReadRedis`, `ReadDb` | `getIdempotency`: the look at the stored answers, outside the handler's try block |
| `FindOrderByMakerSalt`, `Cancel` | `POST /cancel` |
| `AddOrder` | `POST /orders` |
| `ApplyFillRequest`, `InvalidateNonce` | `POST /apply-fill`, `POST /invalidate-nonce` |
| `StoreRedis`, `StoreDb` | `setIdempotency`; Redis keeps the last answer, the database the first |
| `QueryFails`, `Crash` | a query that throws; the end of the process, after which rate limits are empty and the stores are not |

A Redis error is swallowed by the code: `ReadRedis` may find nothing and
`StoreRedis` may write nothing. `effects`, `excused`, `confirmed`,
`toldCanceled` and `admitted` are history variables the properties speak of.

### ChainIndexer

Blocks are records with a hash that no other block has. `Mine`, `Reorg` and
`Post` are the environment. A worker's actions are the queries of `runIndexer`
(`ReadHead`, `ReadCursor`, `GetBlock`, `SkipBlock`, `Compare`, `QueryLogs`,
`InsertEvent`, `SetCursor`, `SetBlock`), of `rollbackTo` (`DropFills`,
`DropCancels`, `DropBlocks`, `ResetCursor`) and of `applyChainCancels`
(`SelectCancels`, `CancelInBook`, `MarkApplied`); `Crash` falls between any two.
`lost` collects the heights the code gives up: a block the node did not return, a
reorganisation deeper than the finality window, the block a rollback skips,
what a rollback deletes that is not indexed again because it was broken off or
another worker was past it (`Overtaken`), and what lies between two rollbacks
that overlap, of which the one further up sets the cursor last (`Abandoned`).
`BigIntHead` says what type the head has. TRUE is what chainIndexer.js:94 is
written for and not what ethers 6 returns, so everything the project says of the
two workers, the `chain` run and the theorems about them, is about that program;
with FALSE nothing of it is ever executed (section 4).

### IndexPublisher

`FetchBook`, `Clamp`, `LogPublish`, `SetMarketIndexPrice` are the awaits of
`runPublish`; `last` is the newest row of the log, `index` what the factory was
sent. The market clamps to that index and pays funding towards it
(`EventMarket.SetIndexPrice`).

### The pages

`TradePanel`: `Render` is a React render with the effect that refills the form;
`PlaceOrder` and `Sign` are the two halves of `placeOrder` around the wallet
prompt, with the render's list length in the first and the fresh list in the
second; `FillOrder` is the taker's call behind `Precheck`, `Mine` its receipt, and
`Accepted` the checks it meets on chain; `MarketResolved` may come at any time and
`Unmount` is the page that reads it and drops the panel with its state, while a
signature or a receipt the panel waits for still arrives. `binary` chooses the
frontend. `FundsPanel`: one action per button and `Receipt` for each transaction;
every value of the market is read by an action of its own, because the page has a
query for each and they age apart; `Filled` is a fill of one of the wallet's orders
by somebody else. `outdated` holds the values a tab has not read or the chain has
overtaken, `doubtful` the transactions in flight that rest on one. `AdminPage`: `ReadAdmin`, `ReadCount`, `ReadRow` are the
reads of a page; `CreateEvent`, `CreateMarket`, `ResolveRow`, `ToggleCloseOnly`
its buttons; `CallFactory` the calls no page makes (`setAdmin`,
`setMarketBeacon`, `pauseEvent`, an oracle's `resolveEvent`); `MineNext` mines
the oldest call of a wallet with the factory's checks. `Frontend` puts them side by
side: they share nothing but the wallet, so a behaviour exercises one of `Parts`.

## 3. Runs

All runs finish; they do not check for deadlock because every part may really
stop (no order left, no time left, nothing deposited, no request sent).

| Run | Bounds | What it shows |
|---|---|---|
| `ledger` | 2 traders, 6 orders: twins with one hash, rivals for a V1 nonce, a next nonce, one that expires; fill sizes 1 and 2; 1 tick | no interleaving of fills, cancels and expiry overfills an order, spends a nonce twice, or trades an order whose nonce is spent or a V2 order that is filled or cancelled; the market implements `OrderLifecycle` with that notion of a dead order |
| `trading` | 3 traders, 2 orders, created market, prices 1 and 3 of 4, sizes 3 and 4 (an order of 8 is filled in up to three parts), so that averages and losses are exact or truncated; deposits, withdrawals, both outcomes | no balance is ever negative; open interest is balanced until resolution; value is conserved up to counted dust; if no payout of a resolved market is negative and together they are within the tokens held, everybody who asks is paid, in any order (that covered losses alone do not suffice is `settlement_short`) |
| `funding` | 2 traders, 2 ticks, caps 1 and -1, index 2 and 4, word 64 | funding of both signs conserves value, nobody pays for a time before the position, the mark stays inside the scale and away from zero |
| `risk` | 3 traders, declared parameters, sizes 1000 and 10000 (so that fees and penalties are not zero), liquidation cap 45%, `RiskBound`: nothing after resolution or close-only mode, chains of liquidations down to a tenth of the large position | no balance and no insurance fund goes below zero; value is conserved at the mark, penalties and rewards included; a liquidation leaves the deficit no deeper, up to one token of rounding |
| `shares` | 2 traders, 4 orders, amounts 1 and 2, prices at which notionals round down | the binary market is fully backed before and after resolution, implements `OrderLifecycle`, and pays its winners |
| `api` | 2 handlers, 11 requests with no key, a key the database keeps or one too long for it, 2 hashes (one with two twin orders), 3 requests sent, of which 2 orders per tick pass the maker's limit, 1 fault, 1 tick | for a key of at most 128 characters a retry repeats nothing, however Redis forgets, and double effects come only from overlaps or lost answers; the stores agree; the table implements `OrderLifecycle`; a cancel that was confirmed is final |
| `chain` | 4 blocks up to height 3, finality 1, 1 reorganisation of any depth, 1 fault, an indexer and a reconciler, one order, its cancel and a fill; `BigIntHead = TRUE` | nothing final is missed, nothing else is in the tables, unless given up; an applied cancel is in force |
| `publish` | a cron job and a dry run, 3 orders, prices from 6 to 20 with a largest step of a tenth, 3 changes of the book, 1 fault, 2 switches of the kill switch | the index moves by bounded steps unless a logged price was not sent, and reaches the book's price unless its step is zero |
| `pages` | 2 tabs or operators, 2 wallets, both frontends and factories, one of the three pages in a behaviour. Trade panel: 2 orders, `MaxExtras = 1` (one edit by hand or the resolution). Market page: 3 transactions or fills of amount 2 with a wallet of 3, `SharesInit = 1` (so that there is something to redeem without a mint). Factory: 3 calls, clock 0 and 1 | see the table in section 5; every property here speaks of several tabs or operators |

Why the bounds are enough to be interesting: a flip, an average and a reduction
need two fills of one trader and a third account; a twin, a rival and a cancel
need one maker; a wrap of the index needs one negative accrual and two ticks. A
mutation for each property (the definitions marked "Mutation") shows that the
runs reach the states in which it would break. `PRECISION` is 4 or 10: all that
depends on it is truncation, which small values make more frequent.

`ClaimsConserved` compares what the market owes beyond its tokens, in units of
`1/PRECISION` and before any division, with what it was; `Dust` is the most that
the divisions of a step can move, so every unit is accounted for.
It speaks of every step but two kinds, which `FundingNetted` names: while open
interest is unequal, after a liquidation, funding is paid from one side alone, and
a settlement drops the funding that is pending (both in section 4).
`ClaimsConservedTrading` has no such exception and ends with resolution.
`LiquidationHeals` measures the deficit before the call with the funding that the
call settles first, so that it is about the liquidation and not about the time
that passed; the `risk` run has no funding, the theorem any.

### Fairness

* `SettleFairness`, `RedeemFairness`: a trader who can be paid calls the function
  for it. Nobody can block the call except by a revert of its own guard, which is
  what the properties are about; nothing is assumed of other actions.
* `FundingFairness`: anybody may call `updateFunding()`, and traders, liquidators
  and the matcher's operators do.
* `ChainIndexer.Fairness`: both programs are meant to be started again and again
  (cron), so each worker keeps taking steps; nothing is assumed of the chain, the
  clients or of the faults, whose number is bounded.
* `IndexPublisher.Fairness`: the same for a publisher that is no dry run.

The bounds on the environment (`MaxMined`, `MaxBookOps`, `MaxKills`, `MaxFaults`)
are what makes chain and book come to rest; "in the end" means after that.

## 4. Where the code and its documents disagree

Three disagreements are runs that TLC finds violated.

| Run | Said | Done |
|---|---|---|
| `funding_stuck` | PROTOCOL_V2_SPEC.md:94: the funding index is signed | unsigned with a checked addition: two negative updates stop `updateFunding` and all that calls it |
| `settlement_short` | PROTOCOL_V2_SPEC.md:162: each trader calls `settleAndWithdraw()` and the full balance is transferred | losses are truncated toward zero one by one (:532) and averages are truncated (:389): losers who can all pay may pay less than the winner is owed, whose transfer (:541) then reverts for ever. The run has the bounds of `trading`, whose `PayableMarketSettles` says what is left to hold |
| `reconcile_throws` | matcher/reconcile.js:2: runs the indexer, then applies chain cancels to the book | ethers 6 returns the head as a number, `head - BigInt(n)` (chainIndexer.js:94) throws, and neither the indexer nor the reconciler does anything |

The others were seen while modelling; a step or two of the code shows each, so they
have no run.

**Perpetual market.**
* The cancel of a V1 order does not bind. `cancelOrder` (:330-337) "marks order as
  fully filled" (:329) and announces `OrderCanceled`, PROTOCOL_V2_SPEC.md:31 names it
  as a way to end an order, and a V1 fill (:293-297) compares the nonce only: the
  order trades all the same. BinaryMarket.sol:250-256 and :215-219 are the same
  code. `OrdersKeepPromise` therefore promises of a V1 order that it is dead once its
  nonce is spent and nothing about its cancel.
* A loss above the collateral makes the checked subtraction of `liquidate` revert
  (:438), and so does a reward the insurance fund cannot pay (:448): such a position
  is below maintenance and nobody can liquidate it, where PROTOCOL_V2_SPEC.md:173
  says that a trader is safe or liquidatable. `withdraw` can bring a position there,
  because it checks the margin before it subtracts (:127).
* A liquidation closes a part of one position with nobody on the other side (:430),
  so open interest is unequal from then on (PROTOCOL_V2_SPEC.md:169).
* `settleAndWithdraw` settles no funding (:523): if one side settled a period before
  the resolution, the other side's part is never paid (PROTOCOL_V2_SPEC.md:170).
* Close-only mode refuses every fill, the reducing ones too
  (EventMarketUpgradeable.sol:53 says reducing is allowed).
* Behind a proxy the parameters that `initialize` does not write are zero, the
  maintenance margin among them; src/README.md:112 says 10%.
* The initial margin is never compared (all callers of `_checkMargin` pass
  `addSize = 0`; PROTOCOL_V2_SPEC.md:117 says it is); a profit is credited before the loser pays, so the
  sum of balances can exceed the tokens held (:168); a V2 order is not compared
  with the nonce (:172); an index above 1e18 is accepted (:85); the
  initial mark of zero makes the first long need its whole notional; the
  liquidator's reward is 40% of the penalty (README.md:116 says 2%).

**Binary market.** `mergeShares` reverts after resolution (BinaryMarket.sol:113
says it is for then), and collateral that lies in a market at resolution has no
way out.

**Factory.** `resolveEvent` is open to the admin and the oracle at any time
(README.md:75: the oracle only, after `resolutionTime`); the pause flag is read
by nobody (TESTNET_RUNBOOK.md:71 leaves it to the frontend, which ignores it).

**Matcher.** `POST /orders` answers 500 whenever it inserts, because the body
holds BigInts, and the retry gets 409; V1 signatures are verified only for an
order whose salt is the empty string; `UPDATE ... ORDER BY ... LIMIT`
(index-publisher/worker.js:107) is not PostgreSQL and its error is swallowed;
`nonce_watermarks` is never used; simulate-fill counts a cancelled order at its
full size (index.js:189). A key of more than 128 characters is accepted and
neither looked up (idempotency.js:16) nor stored (:33) in the database, where
idempotency.js:3 promises the stored answer and no mutation: without Redis, or
when Redis forgot, a retry acts again. `RetryIsSafe` and `OneEffectPerKey` are about
keys of at most 128 characters. A limit per maker counts the string in the body
(rateLimit.js:52-55), before it is trimmed and brought to one form
(validation.js:14): an account that spells its address in several ways has as many
limits. A limit per address counts what the client writes into `x-forwarded-for`
(rateLimit.js:26), if it sends that header. `RateBounded` is about the strings.

**Frontends.** The perpetual panel encodes six fields where the contract decodes
seven (EventMarketUpgradeable.sol:247), so each of its fills reverts;
`submitFillV1` needs a size not below the order's while the panel refuses only a
larger one; a tab that signs while another stores ends up with the other's order
selected; the effect of the dropdown overwrites a pasted order; Approve stays
hidden after a deposit until the allowance is read again; the perpetual page has
no button to settle; binary `Home.tsx:32` shows "Resolved: NO" for every
unresolved market; the binary Admin page shows its buttons to everybody;
PreTradeSimulation always fails on a BigInt in `JSON.stringify`.

## 5. Theorems

Each proof module states what it assumes of the constants by the name of the
assumption; TLC evaluates all of them in the runs.

`EventMarketProofs`, for every set of traders, orders, prices and amounts, every
`PRECISION`, `WORD` and period, from `MarketAssumption` (the constants have their
types) and `PrecisionAssumption`:

* `TypeCorrect`: `Spec => []TypeOK`. `TypeOK` is inductive by itself. Its content
  is that no transaction takes a balance, the insurance fund, the tokens held or
  an order's record below zero, and that the index stays a word. The lemmas go
  from the arithmetic (`Pnl`, `TruncDiv`, margins) over the account operators
  (`Settled`, `Moved`, `Crossed`, `Added`) to one lemma per transaction.
* `LedgerCorrect`: `LedgerInv` is invariant. What the promises speak of is
  `executed`, which the contract does not store; `LedgerInv` ties it to
  `filledAmount` (V2) and to the nonce (V1), and is the inductive invariant
  behind the next three.
* `NeverOverfilled`, `NoncesSpentOnce`: `NoOverfill` follows from `LedgerInv`;
  `NonceSpentOnce` needs an induction of its own, in which a fill finds every
  rival of its order unexecuted because the nonce has not moved.
* `OrdersImplementLifecycle`: `Spec => Lifecycle!Spec`, under the mapping
  `traded <- executed`, `marked <-` the keys whose record is full (by fills or by
  `cancelOrder`), `spent <-` the V1 keys whose nonce is past, `Revocable <-` the
  V2 keys. A fill maps to `Trade` (to `Retire` for a V1 order of size zero), a
  cancel to `Retire`, everything else to a stutter. The cancel of a V1 order marks
  it and leaves it alive, as the code does (section 4).

On top of these, the mark and the funding index of a position:

* `MarkNeverForgotten`: once a trade has set the mark no step brings it back to
  zero, which the code reads as "no trade yet". The EMA weighs two positive prices
  with weights that add up to `BPS`, so its quotient is at least 1; the clamp's
  upper end is not below the index, which is positive when the clamp applies.
* `MarkKeepsScale`: `[]MarkInRange`, under the hypothesis that the index stays in
  the scale, which the code does not check (section 4). `PricesInScale`, which
  adds the index to the mark, is the inductive invariant.
* `FundingFromTheChange`: a position whose size a step changes carries the funding
  index of that step, so nobody pays or is paid for a time before it. Both sides
  of a fill settle before they move and every branch of `Moved` keeps or takes
  that index; a liquidation settles first; the remaining transactions change no
  size or clear it.

And what adds up over the traders, for any finite set of them
(`TradersAssumption`). `Total` is a fold. `SumLemmas` proves what a step that
changes one or two terms does to it, by an induction over finite sets that is
stated for a set of sets ("those the claim holds for"), because an induction
theorem that takes a predicate as a parameter is out of the provers' reach.

* `OpenInterestBalanced`: `[]OIBalanced` if the maintenance margin is zero, as in
  every market the factory creates: a liquidation closes one side alone, so with
  a margin that can be fallen short of it would be false. The inductive form is
  about signed sizes, which add up to zero (`Flat`): a fill adds the same number
  to one side that it takes from the other, whatever it does to the positions.
* `TradingConservesValue`: `ClaimsConservedTrading`, under the same hypothesis. A
  step is split into what each account is worth (`Worth`: collateral, gain at the
  old mark and pending funding, in units of `1/PRECISION`), the fund and the
  tokens held. A settled account loses at most the remainder of one division; a
  moved one swings by the size at the fill price less the old mark, up or down,
  so that the two sides of a fill cancel; funding moves every account by its
  signed size times the same accrual, which `Flat` makes add up to zero.
* `ValueConserved`: `ClaimsConserved`, of every market, whatever its parameters,
  its liquidations and its funding. Signed sizes that do not add up to zero are no
  obstacle: a fill adds the same number to one side that it takes from the other,
  a liquidation closes at the mark, which is the price of the comparison, and what
  it takes as a penalty it gives to the fund and to the liquidator. A settlement
  pays the gain at the exit price, less the remainder of one division.
* `LiquidationsHeal`: `LiquidationHeals`, with the one hypothesis that the penalty
  rate is at most the maintenance margin rate, which holds of the declared
  parameters (5% and 10%) and behind a proxy (both zero). What is closed takes its
  share of the maintenance with it, which is no less than its penalty; the PnL
  divided in two parts loses at most one token. The proof brought the slack the
  property allows from three tokens to one.

And what the resolution leaves, which is the safety half of `PayableMarketSettles`:

* `OutcomeNeutral`: before resolution, in a market with no maintenance margin, what
  all accounts and the fund are owed against the tokens held is the same at every
  closing price. The claims are linear in that price, with the sum of the signed
  sizes as slope, and `Flat` makes the slope zero: no outcome favours the market.
* `SettlementOrderIsFree`: in a resolved market a step takes from the tokens held
  what it takes from the sum of the payouts. Only `settleAndWithdraw()` still
  moves tokens, it pays the caller's payout and leaves a payout of zero.
* `CoveredMarketPays`: if once everybody covers the loss of the position and the
  payouts add up to no more than the tokens held (`AllPayable`), it stays so in any
  order of calls, and every payout is then between zero and the tokens held: neither the
  checked subtraction of line 539 nor the transfer reverts for anybody. Whether the
  sum is within the tokens when the market resolves depends on what the divisions
  truncate; `settlement_short` is a market in which it is not.

`BinaryMarketProofs` proves `TypeCorrect`, `LedgerCorrect` and
`OrdersImplementLifecycle` in the same way for the binary market, from
`BinaryAssumption`, and

* `Backed`: `[]FullyBacked`. Mints and merges move both sums and `held` alike, a
  swap moves shares and collateral between two traders, who may be the same, and a
  redemption pays what the winning side has.
* `ClaimsPayable`: every balance and every winning share is within the tokens
  held, so that the transfer of a withdrawal or a redemption never fails for want
  of tokens. This is the safety half of `WinnersArePaid`.

`OrderBookProofs` has no theorem of a specification: it proves, statement by
statement, that `BookInv` is kept, that what is gone stays gone and that each
statement is a step of `OrderLifecycle` or a stutter, for the modules that use
the table.

`MatcherProofs`, for any number of handlers, keys, requests and faults, from
`OrderAssumption` and `RequestAssumption`:

* `TypeInvariant`, `TypeCorrect`: `TypeInv` adds to `TypeOK` the book's invariant,
  what every handler knows of the order and answer it carries (`JobsOK`), and
  that stored "canceled" answers name orders that are gone (`AnswersOK`). From it
  follow `CanceledStaysGone` (an answer replayed from a store is as true as it
  was), `RetrySafe` (`confirmed` keys have an answer in the database, which is
  never deleted; of keys of at most 128 characters; of longer ones it is false) and `OrdersImplementLifecycle`.
* `OneEffect`, of the same keys: `EffectInv` says that the effects of a key, and one more for every
  request of it that may still act (`Ready`, a cardinality), are within the bound:
  an excuse is counted when requests overlap or an answer is lost, before the
  second effect can happen.
* `CachesAgreeAlways`: `CacheInv` says for a key without an excuse that its
  requests come one at a time, that Redis gets an answer just before the database
  does, and that neither gets another.
* `RatesBounded`, of addresses as the header gives them and of spellings of a
  maker, for every window, limit and number of restarts; it has no run of its own,
  and the `api` run is too short for two windows: `RateInv` has the bound on every stretch as long as a window and
  `Tallied`, which makes it inductive: from the opening of the current window on,
  a subject's log holds at most what the counter has spent and one limit for each
  restart, and from a window's length earlier on at most one limit more.

`ChainIndexerProofs`, for any number of indexers and reconcilers, any finality
and any number of reorganisations, from `OrderAssumption` and
`IndexerAssumption`: `Invariant` proves `Inv` = `BookInv`, the tables
(`TablesInv`), the workers (`WorkersInv`: loop bounds, and a row about to be
marked names an order that is gone) and `AppliedMeansOut`; `IndexerTyped` and
`AppliedCancels` follow. `TablesFaithful` proves `Faithful`: a final height that was
not given up has a block (`Lasting`); the rows are events of their blocks and no
higher than what is final, and every height the cursor has passed is given up,
complete, or about to be rolled back (`Recorded`); a worker in the loop leaves only
such heights behind it, and each event of its block is in the tables or still to be
inserted (`Careful`). `NothingIsMissed` and
`NothingIsInvented` follow. The attempt to prove it showed that two rollbacks may
overlap so that a deleted height is never indexed again although neither was past
it, in a behaviour of some forty steps, longer than any the run holds; `Abandoned`
names that case.

`IndexPublisherProofs`, for any number of publishers and dry runs, any book and
any failures, from `OrderAssumption` and `PublisherAssumption`: `StepsAreSmall`
proves `PublishedStep` from `InStep`, which holds without `drift`: at most one
publisher is between its reading of the log and the end of its transaction; the
log is the index unless a logged price is being sent, and that price is one step
from the index.

`FrontendProofs`, for any number of tabs, wallets, offers,
operators and calls, from `PanelAssumption`, `FundsAssumption` and
`AdminAssumption`:

| Theorem | Property | Argument |
|---|---|---|
| `FailedFundsCalls` | a deposit or a redemption the page offered reverts only for a named reason | `FundsInv`: what a tab has read and nothing has overtaken is what the chain holds (`Current`), and a transaction in flight that rests on nothing overtaken still finds what it needs (`Sound`) |
| `SignedKept` | no signed order is lost from the shared list | `PanelInv`: a list is only appended to, by the tab that reads it in the same step |
| `FormFollows` | the form is the order the dropdown names, unless edited by hand | `PanelInv`, with `Bounded`: a tab has seen at most the stored orders, so an index once in range names the same order for ever |
| `FailedFills` | a checked fill reverts only for a named reason: a nonce or a resolution the tab had not read, a size or a signature put in by hand | `FillInv`: a nonce on chain is never below one that was read, and a waiting fill passed `Precheck` |
| `RecordsAlwaysAgree` | the two copies of a resolution agree | `AdminInv` |
| `FirstResolutionStays` | the first resolution stays | `Unresolved` guards both copies |
| `FailedCalls` | a call of a row reverts only for a named reason | `AdminInv`: `QueueInv` (a waiting call names an existing market and was offered on what the page had read) and `CountInv` (a page knows at most the markets there are) |

Only model-checked: liveness (`PayableMarketSettles`, `WinnersArePaid`,
`IndexFollowsBook`), which needs fairness and ENABLED. Every
invariant and every action property of a passing run is a theorem; the ones above
with hypotheses on the parameters are checked in runs whose parameters satisfy
them.

## 6. What is not modelled

* Signature recovery and EIP-712 hashing: an order in `Orders` is signed, and
  different field values have different keys. ERC-20 variants with fees or
  callbacks (`nonReentrant` and SafeERC20 stand before them). View functions,
  events, the database driver, the scripts. Upgrades of the code (UUPS, beacon).
* Matcher: `simulate-fill` and the other endpoints that only read. Internal
  callers send sizes that are not negative. The two days for which answers are
  kept are longer than any behaviour; ties by `createdAt` in the sorted book.
* Idempotency: two requests of one key in flight at once may both act (index.js:39
  and :83 are awaits apart), and Redis and the database may then keep different
  answers. `excused` counts these and `OneEffectPerKey` and `CachesAgree` excuse
  exactly them, so the two say that there is no other way to a second effect, not
  that the race is harmless.
* Indexer: a block the node does not return, a reorganisation deeper than the
  finality window, overlapping rollbacks and crashed ones lose heights; `lost`
  names them and the properties excuse them, because that is what the code does:
  they show that no other height is lost. `fills` and `cancels` of the book, which
  nothing reads. Whether a final cancel reaches the book when the head is a BigInt
  is not checked: under ethers 6 it never does.
* Publisher: after a failed transaction the next step may exceed the largest
  delta; `drift` marks it and `PublishedStep` excuses it. A dry run in lockstep
  with the publisher may keep the log at a price whose step is zero, which
  `IndexFollowsBook` excuses (`Stuck`).
* Frontends: lists, `OrderBook.tsx`, PreTradeSimulation, the cards of Home and the
  layout only display. A wallet answers in one step and a tab asks for one
  signature at a time. `getItem` and the `setItem` that follows it without an
  `await` are one step: browsers may let two tabs interleave even there, and then
  an order could be lost. Reloading a page (which only forgets) is not a step.
  `Accepted` assumes what the panel does not check either: that both traders have
  the funds, and that the order does not expire (after seven days) while the fill
  waits; the chain's other checks, the resolution included, are in it. A form shows prices in grains of a
  hundredth of a percent (`Shown`). `Date.now()` of a page is the block time; a
  number of days that is no number throws before anything is sent. The calls of
  one wallet are mined in order. A row of an admin page that was never read counts
  as read before the resolution: the page offers its buttons for it, and
  `FailedCallIsExcused` excuses the revert.
* `setMarketIndexPrice`, `setMarketMicrostructure`, `setMarketFundingRateCaps` and
  `setMarketMaxLiquidationSize` are not in `AdminPage`: after the role check the
  factory only hands them on, and `EventMarket.FactoryStep` is what they do.
* No run composes the market with the matcher. Both implement `OrderLifecycle`,
  each on its own records; a fill on chain reaches `orders.remaining_size` only
  if a trusted client posts it to `/apply-fill` (reconciler/run.js:4;
  `chain_fills` is read for display only), so the code enforces no relation
  between the two that could be stated.
