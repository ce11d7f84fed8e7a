----------------------------- MODULE EventMarket -----------------------------
(***************************************************************************)
(* One perpetual market, src/src/EventMarketUpgradeable.sol, seen by the   *)
(* transactions that change it.  A transaction is one atomic step: it      *)
(* happens completely or reverts, and a reverted transaction is a step the *)
(* guard excludes.  Every checked subtraction of the contract is therefore *)
(* a conjunct that says the result is not negative.                        *)
(***************************************************************************)
EXTENDS EventPerpMath

CONSTANTS
  Traders,          \* accounts that deposit, trade, liquidate and settle
  Orders,           \* the orders makers have signed
  FillPrices,       \* prices offered to submitFill
  FillSizes,        \* sizes offered to submitFill
  Amounts,          \* amounts offered to deposit and withdraw
  IndexPrices,      \* what the oracle or the publisher sends to setIndexPrice
  MicroConfigs,     \* <<alphaBps, maxDeviationBps>> sent to setMarkMicrostructure
  FundingCaps,      \* <<cap, floor>> sent to setFundingRateCaps
  LiquidationCaps,  \* what is sent to setMaxLiquidationSizeBps
  Params,           \* the parameters no transaction can change
  WORD,             \* 2^256 on chain: the range of fundingIndex
  FundingPeriod,    \* 1 hour on chain
  MaxTime,          \* bound: the clock stops here
  WalletInit        \* collateral tokens a trader owns outside the market

BPS == 10000

\* getOrderHash leaves the side out: a bid and an ask that agree on every
\* other field share one entry of filledAmount.
Key(o) == [maker |-> o.maker, price |-> o.price, size |-> o.size,
           nonce |-> o.nonce, expiry |-> o.expiry, salt |-> o.salt]
Keys == {Key(o) : o \in Orders}

Order == [maker : Traders, price : Nat, size : Nat, isLong : BOOLEAN,
          nonce : Nat, expiry : Nat, salt : Nat]

ParamsType == [maintenanceMarginBps : Nat, initialMarginBps : Nat,
               makerFeeBps : Nat, takerFeeBps : Nat,
               liquidationPenaltyBps : Nat, liquidatorRewardBps : Nat,
               fundingRateCap : Int, fundingRateFloor : Int]

ASSUME MarketAssumption ==
  /\ Orders \subseteq Order
  /\ FillPrices \subseteq Nat /\ FillSizes \subseteq Nat
  /\ Amounts \subseteq Nat /\ IndexPrices \subseteq Nat
  /\ MicroConfigs \subseteq Nat \X Nat
  /\ FundingCaps \subseteq Int \X Int
  /\ LiquidationCaps \subseteq Nat
  /\ Params \in ParamsType
  /\ WORD \in Nat \ {0} /\ FundingPeriod \in Nat \ {0}
  /\ MaxTime \in Nat /\ WalletInit \in Nat

(***************************************************************************)
(* Markets run behind a BeaconProxy.  The initialisers on the declarations *)
(* are executed in the implementation's own storage only, so a market that *)
(* was created by the factory reads zero from every slot initialize() does *)
(* not write.  DeclaredParams is what the declarations say, ProxyParams    *)
(* what a created market has.  (1e17 is a tenth of PRECISION.)             *)
(***************************************************************************)
DeclaredParams ==
  [initialMarginBps |-> 2000, maintenanceMarginBps |-> 1000,
   makerFeeBps |-> 2, takerFeeBps |-> 5,
   liquidationPenaltyBps |-> 500, liquidatorRewardBps |-> 200,
   fundingRateCap |-> PRECISION \div 10,
   fundingRateFloor |-> -(PRECISION \div 10)]

ProxyParams == [p \in DOMAIN DeclaredParams |-> 0]

VARIABLES
  collateralBalance, positions, nonces, filledAmount,
  markPrice, indexPrice, markEmaAlphaBps, maxMarkDeviationBps,
  fundingIndex, lastFundingTime, fundingRateCap, fundingRateFloor,
  maxLiquidationSizeBps, insuranceFund, resolved, outcome, closeOnly,
  held, wallet,     \* the ERC-20: tokens of the market and of each trader
  now,              \* block.timestamp
  executed          \* history: size filled so far against each order key

accounts == <<collateralBalance, positions>>
ledger   == <<nonces, filledAmount, executed>>
mark     == <<markPrice, indexPrice, markEmaAlphaBps, maxMarkDeviationBps>>
funding  == <<fundingIndex, lastFundingTime>>
caps     == <<fundingRateCap, fundingRateFloor, maxLiquidationSizeBps>>
phase    == <<resolved, outcome, closeOnly>>
tokens   == <<held, wallet>>
vars     == <<accounts, ledger, mark, funding, caps, insuranceFund, phase,
              tokens, now>>

Position == [size : Nat, entryPrice : Nat, isLong : BOOLEAN,
             lastFundingIndex : 0 .. WORD - 1]
NoPosition == [size |-> 0, entryPrice |-> 0, isLong |-> FALSE,
               lastFundingIndex |-> 0]

Init ==
  /\ collateralBalance = [t \in Traders |-> 0]
  /\ positions = [t \in Traders |-> NoPosition]
  /\ nonces = [t \in Traders |-> 0]
  /\ filledAmount = [k \in Keys |-> 0]
  /\ executed = [k \in Keys |-> 0]
  /\ markPrice = 0 /\ indexPrice = 0
  /\ markEmaAlphaBps = 2000 /\ maxMarkDeviationBps = 3000
  /\ fundingIndex = 0 /\ lastFundingTime = 0 /\ now = 0
  /\ fundingRateCap = Params.fundingRateCap
  /\ fundingRateFloor = Params.fundingRateFloor
  /\ maxLiquidationSizeBps = 0
  /\ insuranceFund = 0
  /\ resolved = FALSE /\ outcome = FALSE /\ closeOnly = FALSE
  /\ held = 0 /\ wallet = [t \in Traders |-> WalletInit]

-----------------------------------------------------------------------------
(* Funding.  fundingIndex is unsigned; a negative accrual is added as its  *)
(* two's complement with a checked addition, and read back as signed.      *)

Periods == (now - lastFundingTime) \div FundingPeriod

FundingRate ==
  LET premium == markPrice - indexPrice
      capped  == IF premium > fundingRateCap THEN fundingRateCap ELSE premium
  IN  IF capped < fundingRateFloor THEN fundingRateFloor ELSE capped

NextFundingIndex == fundingIndex + ((FundingRate * Periods) % WORD)

\* The checked addition does not overflow.
FundingFits == NextFundingIndex < WORD

\* updateFunding(), as called by every transaction that settles.
AdvanceFunding ==
  /\ ~resolved
  /\ FundingFits
  /\ fundingIndex' = NextFundingIndex
  /\ lastFundingTime' = lastFundingTime + Periods * FundingPeriod

AsSigned(w) == IF 2 * w >= WORD THEN w - WORD ELSE w

(* Accounts.  The operators below take and return one trader's collateral  *)
(* and position; a negative `col` stands for a subtraction that reverts.   *)

Account(t) == [col |-> collateralBalance[t], pos |-> positions[t]]

\* Mutation: the position keeps its old index and pays again.
SettledTwice(a, index) ==
  LET accrued == TruncDiv((AsSigned(index) - AsSigned(a.pos.lastFundingIndex))
                            * a.pos.size, PRECISION)
  IN  [a EXCEPT !.col = IF a.pos.isLong THEN @ - accrued ELSE @ + accrued]

\* settleFunding(): longs pay a positive accrual, shorts receive it.
Settled(a, index) ==
  LET accrued == TruncDiv((AsSigned(index) - AsSigned(a.pos.lastFundingIndex))
                            * a.pos.size, PRECISION)
  IN  IF a.pos.size = 0 THEN a
      ELSE [col |-> IF a.pos.isLong THEN a.col - accrued ELSE a.col + accrued,
            pos |-> [a.pos EXCEPT !.lastFundingIndex = index]]

\* getEquity() at exit price `exit`.
Equity(a, exit) ==
  LET e == a.col + Pnl(a.pos.size, a.pos.entryPrice, exit, a.pos.isLong)
  IN  IF e > 0 THEN e ELSE 0

MarginRequired(size, price, bps) == (size * price * bps) \div (PRECISION * BPS)

Maintenance(a) ==
  MarginRequired(a.pos.size, a.pos.entryPrice, Params.maintenanceMarginBps)

\* _checkMargin(): its three callers pass addSize = 0, so the branch that
\* compares with the initial margin is never taken.
MarginOK(a) == a.pos.size = 0 \/ Equity(a, markPrice) >= Maintenance(a)

\* Mutation: a new position starts at the funding index zero.
OpenedAtZero(isLong, price, size, index) ==
  [size |-> size, entryPrice |-> price, isLong |-> isLong, lastFundingIndex |-> 0]

\* _updatePosition(), before its margin check: open, add to the position at
\* the average entry, or realise the PnL of what is closed and flip the rest.
Opened(isLong, price, size, index) ==
  [size |-> size, entryPrice |-> price, isLong |-> isLong,
   lastFundingIndex |-> index]

\* Mutation: the last price replaces the average.
AddedAtLastPrice(pos, price, size) ==
  [pos EXCEPT !.size = @ + size, !.entryPrice = price]

Added(pos, price, size) ==
  [pos EXCEPT !.size = @ + size, !.entryPrice =
     (pos.entryPrice * pos.size + price * size) \div (pos.size + size)]

\* Mutation: a flip opens the whole size on the other side.
CrossedWhole(pos, isLong, price, size, index) ==
  IF size >= pos.size THEN Opened(isLong, price, size, index)
                      ELSE [pos EXCEPT !.size = @ - size]

Crossed(pos, isLong, price, size, index) ==
  IF size >= pos.size THEN Opened(isLong, price, size - pos.size, index)
                      ELSE [pos EXCEPT !.size = @ - size]

Moved(a, isLong, price, size, index) ==
  LET pos == a.pos
      closed == IF size >= pos.size THEN pos.size ELSE size
  IN  IF pos.size = 0
      THEN [a EXCEPT !.pos = Opened(isLong, price, size, index)]
      ELSE IF pos.isLong = isLong THEN [a EXCEPT !.pos = Added(pos, price, size)]
      ELSE [col |-> a.col + Pnl(closed, pos.entryPrice, price, pos.isLong),
            pos |-> Crossed(pos, isLong, price, size, index)]

Fee(size, price, bps) == (((size * price) \div PRECISION) * bps) \div BPS

-----------------------------------------------------------------------------
(* Order validity, the first half of _submitFillCore.                      *)

\* A V1 order has salt 0, a whole fill and the maker's current nonce; a V2
\* order is tracked by its key and fills up to what is left of it.
Remaining(o) == o.size - filledAmount[Key(o)]
\* Mutation: what was filled before is not taken off.
FillSizeWhole(o, size) ==
  IF o.salt = 0 THEN o.size ELSE IF size <= o.size THEN size ELSE o.size

FillSize(o, size) ==
  IF o.salt = 0 THEN o.size
  ELSE IF size <= Remaining(o) THEN size ELSE Remaining(o)

\* Mutation: the nonce of a V1 order is not compared.
FillableAnyNonce(o, size) ==
  IF o.salt = 0 THEN size >= o.size ELSE filledAmount[Key(o)] < o.size

Fillable(o, size) ==
  IF o.salt = 0 THEN nonces[o.maker] = o.nonce /\ size >= o.size
                ELSE filledAmount[Key(o)] < o.size

PriceCrosses(o, price) == IF o.isLong THEN o.price >= price
                                      ELSE o.price <= price

\* The signature is the maker's because o is a member of Orders; the taker's
\* side is the other one; the taker itself is named by whoever submits.
ValidFill(taker, price, size, o) ==
  /\ ~resolved /\ ~closeOnly
  /\ price > 0 /\ price <= PRECISION
  /\ size > 0
  /\ now <= o.expiry
  /\ taker # o.maker
  /\ Fillable(o, size)
  /\ PriceCrosses(o, price)

\* Mutation: the last fill overwrites the filled amount.
RecordFillLast(o, size) ==
  /\ executed' = [executed EXCEPT ![Key(o)] = @ + size]
  /\ IF o.salt = 0
     THEN nonces' = [nonces EXCEPT ![o.maker] = o.nonce + 1]
          /\ UNCHANGED filledAmount
     ELSE filledAmount' = [filledAmount EXCEPT ![Key(o)] = size]
          /\ UNCHANGED nonces

RecordFill(o, size) ==
  /\ executed' = [executed EXCEPT ![Key(o)] = @ + size]
  /\ IF o.salt = 0
     THEN nonces' = [nonces EXCEPT ![o.maker] = o.nonce + 1]
          /\ UNCHANGED filledAmount
     ELSE filledAmount' = [filledAmount EXCEPT ![Key(o)] = @ + size]
          /\ UNCHANGED nonces

\* Mutation: both terms are truncated, or the old mark is not decayed.
EmaTruncatedTwice(price) ==
  IF markPrice = 0 THEN price
  ELSE (markPrice * (BPS - markEmaAlphaBps)) \div BPS
         + (price * markEmaAlphaBps) \div BPS
EmaNoDecay(price) == markPrice + (price * markEmaAlphaBps) \div BPS

\* _updateMarkPrice(): EMA of the trades, clamped around the index.
Ema(price) ==
  IF markPrice = 0 THEN price
  ELSE (markPrice * (BPS - markEmaAlphaBps) + price * markEmaAlphaBps) \div BPS

Clamped(price) ==
  LET upper == (indexPrice * (BPS + maxMarkDeviationBps)) \div BPS
      lower == (indexPrice * (BPS - maxMarkDeviationBps)) \div BPS
  IN  IF price > upper THEN upper ELSE IF price < lower THEN lower ELSE price

NextMark(price) ==
  IF indexPrice > 0 /\ maxMarkDeviationBps > 0 THEN Clamped(Ema(price))
                                               ELSE Ema(price)

-----------------------------------------------------------------------------
(* Transactions.                                                           *)

Deposit(t, amount) ==
  /\ ~resolved
  /\ amount > 0 /\ amount <= wallet[t]
  /\ wallet' = [wallet EXCEPT ![t] = @ - amount]
  /\ held' = held + amount
  /\ collateralBalance' = [collateralBalance EXCEPT ![t] = @ + amount]
  /\ UNCHANGED <<positions, ledger, mark, funding, caps, insuranceFund, phase, now>>

\* The margin is checked before the amount is taken out.
Withdraw(t, amount) ==
  LET s == Settled(Account(t), NextFundingIndex)
  IN  /\ amount > 0
      /\ AdvanceFunding
      /\ s.col >= 0
      /\ MarginOK(s)
      /\ amount <= s.col
      /\ amount <= held
      /\ collateralBalance' = [collateralBalance EXCEPT ![t] = s.col - amount]
      /\ positions' = [positions EXCEPT ![t] = s.pos]
      /\ held' = held - amount
      /\ wallet' = [wallet EXCEPT ![t] = @ + amount]
      /\ UNCHANGED <<ledger, mark, caps, insuranceFund, phase, now>>

\* Mutation: the realised loss is subtracted without a check.
SideUnchecked(t, isLong, price, size, fee) ==
  MarginOK(Moved(Settled(Account(t), NextFundingIndex), isLong, price, size,
                 NextFundingIndex))

\* One side of a fill: funding, then position and margin, then the fee.
SideOK(t, isLong, price, size, fee) ==
  LET s == Settled(Account(t), NextFundingIndex)
      m == Moved(s, isLong, price, size, NextFundingIndex)
  IN  s.col >= 0 /\ m.col >= 0 /\ MarginOK(m) /\ m.col >= fee

AfterSide(t, isLong, price, size) ==
  Moved(Settled(Account(t), NextFundingIndex), isLong, price, size,
        NextFundingIndex)

SubmitFill(taker, price, offered, o) ==
  LET size == FillSize(o, offered)
      takerFee == Fee(size, price, Params.takerFeeBps)
      makerFee == Fee(size, price, Params.makerFeeBps)
      took == AfterSide(taker, ~o.isLong, price, size)
      made == AfterSide(o.maker, o.isLong, price, size)
  IN  /\ ValidFill(taker, price, offered, o)
      /\ AdvanceFunding
      /\ SideOK(taker, ~o.isLong, price, size, takerFee)
      /\ SideOK(o.maker, o.isLong, price, size, makerFee)
      /\ RecordFill(o, size)
      /\ positions' = [positions EXCEPT ![taker] = took.pos, ![o.maker] = made.pos]
      /\ collateralBalance' = [collateralBalance EXCEPT
           ![taker] = took.col - takerFee, ![o.maker] = made.col - makerFee]
      /\ insuranceFund' = insuranceFund + takerFee + makerFee
      /\ markPrice' = NextMark(price)
      /\ UNCHANGED <<indexPrice, markEmaAlphaBps, maxMarkDeviationBps, caps,
                     phase, tokens, now>>

\* Mutation: a cancel clears the entry of its order.
CancelOrderCleared(k) ==
  /\ filledAmount[k] < k.size
  /\ filledAmount' = [filledAmount EXCEPT ![k] = 0]
  /\ UNCHANGED <<accounts, nonces, executed, mark, funding, caps,
                 insuranceFund, phase, tokens, now>>

\* cancelOrder() by the maker: allowed in every phase, and without effect on
\* the nonce a V1 order depends on.
CancelOrder(k) ==
  /\ filledAmount[k] < k.size
  /\ filledAmount' = [filledAmount EXCEPT ![k] = k.size]
  /\ UNCHANGED <<accounts, nonces, executed, mark, funding, caps,
                 insuranceFund, phase, tokens, now>>

LiquidationSize(pos) ==
  LET part == (pos.size * maxLiquidationSizeBps) \div BPS
  IN  IF maxLiquidationSizeBps = 0 \/ maxLiquidationSizeBps >= BPS THEN pos.size
      ELSE IF part = 0 THEN 1 ELSE part

\* Mutation: the PnL of the whole position is realised.
ClosedOutWhole(s, size) ==
  s.col + Pnl(s.pos.size, s.pos.entryPrice, markPrice, s.pos.isLong)

\* The collateral once `size` of the position is closed at the mark.
ClosedOut(s, size) ==
  s.col + Pnl(size, s.pos.entryPrice, markPrice, s.pos.isLong)

\* Mutation: the penalty is taken on the whole position.
PenaltyWhole(pos, size) ==
  MarginRequired(pos.size, pos.entryPrice, Params.liquidationPenaltyBps)

Penalty(pos, size) ==
  MarginRequired(size, pos.entryPrice, Params.liquidationPenaltyBps)

Reward(penalty) ==
  (penalty * Params.liquidatorRewardBps) \div Params.liquidationPenaltyBps

\* Mutation: the fund is not asked.
RewardUnfunded(fromTrader, reward) == TRUE

\* What the trader cannot pay of the reward comes from the insurance fund.
RewardFunded(fromTrader, reward) == insuranceFund + fromTrader >= reward

\* liquidate(t), called by l, who may be t: closes at the mark price, with nobody
\* on the other side, and splits the penalty between l and the insurance fund.
Liquidate(l, t) ==
  LET s == Settled(Account(t), NextFundingIndex)
      size == LiquidationSize(s.pos)
      closed == ClosedOut(s, size)
      penalty == Penalty(s.pos, size)
      reward == Reward(penalty)
      fromTrader == IF penalty <= closed THEN penalty ELSE closed
  IN  /\ AdvanceFunding
      /\ s.col >= 0
      /\ s.pos.size > 0
      /\ Equity(s, markPrice) < Maintenance(s)
      /\ closed >= 0
      /\ Params.liquidationPenaltyBps > 0
      /\ RewardFunded(fromTrader, reward)
      /\ collateralBalance' = [[collateralBalance EXCEPT ![t] = closed - fromTrader]
                                 EXCEPT ![l] = @ + reward]
      /\ insuranceFund' = insuranceFund + fromTrader - reward
      /\ positions' = [positions EXCEPT ![t] =
           IF size >= s.pos.size THEN NoPosition
           ELSE [s.pos EXCEPT !.size = @ - size]]
      /\ UNCHANGED <<ledger, mark, caps, phase, tokens, now>>

UpdateFunding ==
  /\ AdvanceFunding
  /\ UNCHANGED <<accounts, ledger, mark, caps, insuranceFund, phase, tokens, now>>

SetIndexPrice(price) ==
  /\ indexPrice' = price
  /\ UNCHANGED <<accounts, ledger, markPrice, markEmaAlphaBps,
                 maxMarkDeviationBps, funding, caps, insuranceFund, phase,
                 tokens, now>>

SetMarkMicrostructure(alphaBps, maxDeviationBps) ==
  /\ alphaBps > 0 /\ alphaBps <= BPS /\ maxDeviationBps <= BPS
  /\ markEmaAlphaBps' = alphaBps
  /\ maxMarkDeviationBps' = maxDeviationBps
  /\ UNCHANGED <<accounts, ledger, markPrice, indexPrice, funding, caps,
                 insuranceFund, phase, tokens, now>>

SetCloseOnly(on) ==
  /\ closeOnly' = on
  /\ UNCHANGED <<accounts, ledger, mark, funding, caps, insuranceFund,
                 resolved, outcome, tokens, now>>

SetFundingRateCaps(cap, floor) ==
  /\ fundingRateCap' = cap
  /\ fundingRateFloor' = floor
  /\ UNCHANGED <<accounts, ledger, mark, funding, maxLiquidationSizeBps,
                 insuranceFund, phase, tokens, now>>

SetMaxLiquidationSizeBps(bps) ==
  /\ bps <= BPS
  /\ maxLiquidationSizeBps' = bps
  /\ UNCHANGED <<accounts, ledger, mark, funding, fundingRateCap,
                 fundingRateFloor, insuranceFund, phase, tokens, now>>

Resolve(result) ==
  /\ ~resolved
  /\ resolved' = TRUE
  /\ outcome' = result
  /\ UNCHANGED <<accounts, ledger, mark, funding, caps, insuranceFund,
                 closeOnly, tokens, now>>

\* Mutation: the outcome is read the wrong way round.
SettlementPriceSwapped == IF outcome THEN 0 ELSE PRECISION

SettlementPrice == IF outcome THEN PRECISION ELSE 0

\* Pays at the settlement price, without settling funding; a flat position
\* keeps its dead fields.
SettleAndWithdraw(t) ==
  LET pos == positions[t]
      paid == collateralBalance[t]
                + Pnl(pos.size, pos.entryPrice, SettlementPrice, pos.isLong)
  IN  /\ resolved
      /\ paid >= 0
      /\ paid <= held
      /\ positions' = [positions EXCEPT ![t] =
                         IF pos.size = 0 THEN pos ELSE NoPosition]
      /\ collateralBalance' = [collateralBalance EXCEPT ![t] = 0]
      /\ held' = held - paid
      /\ wallet' = [wallet EXCEPT ![t] = @ + paid]
      /\ UNCHANGED <<ledger, mark, funding, caps, insuranceFund, phase, now>>

\* Time passes between blocks.
Tick ==
  /\ now < MaxTime
  /\ now' = now + 1
  /\ UNCHANGED <<accounts, ledger, mark, funding, caps, insuranceFund, phase,
                 tokens>>

UserStep ==
  \/ \E t \in Traders, amount \in Amounts : Deposit(t, amount)
  \/ \E t \in Traders, amount \in Amounts : Withdraw(t, amount)
  \/ \E taker \in Traders, price \in FillPrices, size \in FillSizes,
        o \in Orders : SubmitFill(taker, price, size, o)
  \/ \E k \in Keys : CancelOrder(k)
  \/ \E l, t \in Traders : Liquidate(l, t)
  \/ UpdateFunding
  \/ \E t \in Traders : SettleAndWithdraw(t)

FactoryStep ==
  \/ \E price \in IndexPrices : SetIndexPrice(price)
  \/ \E c \in MicroConfigs : SetMarkMicrostructure(c[1], c[2])
  \/ \E on \in BOOLEAN : SetCloseOnly(on)
  \/ \E c \in FundingCaps : SetFundingRateCaps(c[1], c[2])
  \/ \E bps \in LiquidationCaps : SetMaxLiquidationSizeBps(bps)
  \/ \E result \in BOOLEAN : Resolve(result)

Next == UserStep \/ FactoryStep \/ Tick

Spec == Init /\ [][Next]_vars

-----------------------------------------------------------------------------
(* Properties that need no sum over the traders; EventMarketAccounting has *)
(* the others.                                                             *)

\* Every variable has its type; in particular no balance is negative.
TypeOK ==
  /\ collateralBalance \in [Traders -> Nat]
  /\ positions \in [Traders -> Position]
  /\ nonces \in [Traders -> Nat]
  /\ filledAmount \in [Keys -> Nat]
  /\ executed \in [Keys -> Nat]
  /\ markPrice \in Nat /\ indexPrice \in Nat
  /\ markEmaAlphaBps \in 1 .. BPS /\ maxMarkDeviationBps \in 0 .. BPS
  /\ fundingIndex \in 0 .. WORD - 1
  /\ lastFundingTime \in Nat /\ now \in Nat /\ lastFundingTime <= now
  /\ fundingRateCap \in Int /\ fundingRateFloor \in Int
  /\ maxLiquidationSizeBps \in 0 .. BPS
  /\ insuranceFund \in Nat
  /\ resolved \in BOOLEAN /\ outcome \in BOOLEAN /\ closeOnly \in BOOLEAN
  /\ held \in Nat /\ wallet \in [Traders -> Nat]

\* The books behind the orders: what was executed against a V2 order is
\* covered by filledAmount, and a V1 order whose nonce has not been reached
\* or spent has not been executed.
LedgerInv == \A k \in Keys :
  IF k.salt = 0
  THEN executed[k] <= k.size /\ (nonces[k.maker] <= k.nonce => executed[k] = 0)
  ELSE executed[k] <= filledAmount[k] /\ filledAmount[k] <= k.size

\* However submissions, twin orders (same hash, opposite sides) and cancels
\* interleave, at most the signed size is executed against an order hash.
NoOverfill == \A k \in Keys : executed[k] <= k.size

\* Of the V1 orders a maker signed for one nonce, at most one is executed.
NonceSpentOnce == \A k1, k2 \in Keys :
  k1 # k2 /\ k1.salt = 0 /\ k2.salt = 0 /\ k1.maker = k2.maker
    /\ k1.nonce = k2.nonce => executed[k1] = 0 \/ executed[k2] = 0

\* An order on record as filled or cancelled, and one whose V1 nonce is spent.
\* Only a V2 order is compared with the record before it trades: cancelOrder()
\* accepts a V1 order and marks it, and a fill does not look at the mark.
Marked == {k \in Keys : filledAmount[k] >= k.size}
NonceSpent == {k \in Keys : k.salt = 0 /\ nonces[k.maker] > k.nonce}
OrdersV2 == {k \in Keys : k.salt # 0}

Lifecycle == INSTANCE OrderLifecycle WITH
  Ids <- Keys, Size <- [k \in Keys |-> k.size], Revocable <- OrdersV2,
  traded <- executed, marked <- Marked, spent <- NonceSpent

\* The market keeps the promise of OrderLifecycle: no order trades beyond its
\* size, a V2 order that is filled or cancelled and a V1 order whose nonce is
\* spent never trade again.  The cancel of a V1 order is not part of it.
OrdersKeepPromise == Lifecycle!Spec

\* With an index inside the price scale, trades, the EMA and the clamp never
\* take the mark out of it.
MarkInRange == markPrice <= PRECISION

\* Once trades have set the mark no EMA, truncation or clamp brings it back to
\* zero, the value that stands for "no trade yet".
MarkStaysSet == [][markPrice > 0 => markPrice' > 0]_vars

\* A position that was opened, grown, flipped or reduced starts to accrue
\* funding at that step: it never pays for a period it was not held for.
AccruesFromChange == [][\A t \in Traders :
  positions'[t].size # positions[t].size /\ positions'[t].size > 0
    => positions'[t].lastFundingIndex = fundingIndex']_vars

-----------------------------------------------------------------------------
(* Liveness.  Anybody may call updateFunding(), and the publisher and every *)
(* trade do; a trader who wants to be paid calls settleAndWithdraw().       *)

FundingFairness == WF_vars(UpdateFunding)
SettleFairness  == \A t \in Traders : WF_vars(SettleAndWithdraw(t))

FundingSpec == Spec /\ FundingFairness
SettleSpec  == Spec /\ SettleFairness

\* The funding clock never stays a whole period behind.
FundingCatchesUp == []<>(resolved \/ now - lastFundingTime < FundingPeriod)
=============================================================================
