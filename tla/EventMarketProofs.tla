-------------------------- MODULE EventMarketProofs --------------------------
(***************************************************************************)
(* Theorems about EventMarket for every value of its constants.            *)
(***************************************************************************)
EXTENDS EventMarketAccounting, SumLemmas, TLAPS

USE PrecisionAssumption, MarketAssumption

-----------------------------------------------------------------------------
(* Arithmetic and the operators on accounts.                               *)

\* The quotient of naturals is a natural.
LEMMA DivNat == ASSUME NEW x \in Nat, NEW d \in Nat \ {0}
                PROVE  x \div d \in Nat
  OBVIOUS

\* Truncating division yields an integer.
LEMMA TruncDivInt == ASSUME NEW x \in Int, NEW d \in Nat \ {0}
                     PROVE  TruncDiv(x, d) \in Int
  BY DEF TruncDiv

\* A product of naturals is a natural.
LEMMA MulNat == ASSUME NEW x \in Nat, NEW y \in Nat PROVE x * y \in Nat
  OBVIOUS

\* A profit or loss is an integer.
LEMMA PnlInt == ASSUME NEW size \in Nat, NEW entry \in Nat, NEW exit \in Nat,
                       NEW isLong \in BOOLEAN
                PROVE  Pnl(size, entry, exit, isLong) \in Int
  <1> DEFINE d == IF isLong THEN exit - entry ELSE entry - exit
  <1>1. d \in Int
    OBVIOUS
  <1>2. size * d \in Int
    BY <1>1
  <1> QED
    BY <1>2, TruncDivInt DEF Pnl

AccountType == [col : Int, pos : Position]

\* Settling keeps an account an account.
LEMMA SettledType ==
  ASSUME NEW a \in AccountType, NEW index \in 0 .. WORD - 1
  PROVE  Settled(a, index) \in AccountType
  <1> DEFINE owed == (AsSigned(index) - AsSigned(a.pos.lastFundingIndex)) * a.pos.size
             accrued == TruncDiv(owed, PRECISION)
  <1>1. AsSigned(index) \in Int /\ AsSigned(a.pos.lastFundingIndex) \in Int
    BY DEF AsSigned, AccountType, Position
  <1>2. owed \in Int
    BY <1>1 DEF AccountType, Position
  <1>3. accrued \in Int
    BY <1>2, TruncDivInt
  <1> HIDE DEF accrued
  <1>4. [a.pos EXCEPT !.lastFundingIndex = index] \in Position
    BY DEF AccountType, Position
  <1>5. a.col - accrued \in Int /\ a.col + accrued \in Int
    BY <1>3 DEF AccountType
  <1> QED
    BY <1>4, <1>5 DEF Settled, AccountType, accrued

\* Adding to a position averages its entry.
LEMMA AddedType ==
  ASSUME NEW pos \in Position, pos.size > 0, NEW price \in Nat, NEW size \in Nat
  PROVE  Added(pos, price, size) \in Position
  <1> DEFINE total == pos.size + size
             cost == pos.entryPrice * pos.size + price * size
             entry == cost \div total
  <1>1. total \in Nat \ {0}
    BY DEF Position
  <1>2. cost \in Nat
    <2>1. pos.entryPrice * pos.size \in Nat /\ price * size \in Nat
      BY MulNat DEF Position
    <2> QED
      BY <2>1
  <1>3. entry \in Nat
    <2> HIDE DEF total, cost
    <2> QED
      BY <1>1, <1>2, DivNat
  <1> HIDE DEF entry
  <1>4. [pos EXCEPT !.size = total, !.entryPrice = entry] \in Position
    BY <1>1, <1>3 DEF Position
  <1> QED
    BY <1>4 DEF Added, entry, Position

\* Moving an account by a fill keeps it an account.
LEMMA MovedType ==
  ASSUME NEW a \in AccountType, NEW isLong \in BOOLEAN, NEW price \in Nat,
         NEW size \in Nat, NEW index \in 0 .. WORD - 1
  PROVE  Moved(a, isLong, price, size, index) \in AccountType
  <1> DEFINE pos == a.pos
             closed == IF size >= pos.size THEN pos.size ELSE size
             gain == Pnl(closed, pos.entryPrice, price, pos.isLong)
  <1>1. pos \in Position /\ a.col \in Int
    BY DEF AccountType
  <1>2. closed \in Nat
    BY <1>1 DEF Position
  <1>3. gain \in Int
    BY <1>1, <1>2, PnlInt DEF Position
  <1>4. \A n \in Nat : Opened(isLong, price, n, index) \in Position
    BY DEF Opened, Position
  <1>5. Crossed(pos, isLong, price, size, index) \in Position
    <2>1. CASE size >= pos.size
      <3>1. size - pos.size \in Nat
        BY <1>1, <2>1 DEF Position
      <3> QED
        BY <1>4, <2>1, <3>1 DEF Crossed
    <2>2. CASE ~(size >= pos.size)
      <3>1. pos.size - size \in Nat
        BY <1>1, <2>2 DEF Position
      <3> QED
        BY <1>1, <2>2, <3>1 DEF Crossed, Position
    <2> QED
      BY <2>1, <2>2
  <1>6. CASE pos.size = 0
    <2>1. Opened(isLong, price, size, index) \in Position
      BY <1>4
    <2> QED
      BY <1>1, <1>6, <2>1 DEF Moved, AccountType
  <1>7. CASE pos.size # 0 /\ pos.isLong = isLong
    <2>1. pos.size > 0
      BY <1>1, <1>7 DEF Position
    <2>2. Added(pos, price, size) \in Position
      BY <1>1, <2>1, AddedType
    <2> QED
      BY <1>1, <1>7, <2>2 DEF Moved, AccountType
  <1>8. CASE pos.size # 0 /\ pos.isLong # isLong
    <2> HIDE DEF gain
    <2>1. a.col + gain \in Int
      BY <1>1, <1>3
    <2> QED
      BY <1>5, <1>8, <2>1 DEF Moved, AccountType, gain
  <1> QED
    BY <1>6, <1>7, <1>8

-----------------------------------------------------------------------------
(* Type correctness.                                                       *)

\* The value of every trader's account, and what it is after a fill.
LEMMA AccountIsTyped ==
  ASSUME TypeOK, NEW t \in Traders
  PROVE  Account(t) \in AccountType
  BY DEF TypeOK, Account, AccountType

\* The funding index stays in its word when the addition does not overflow.
LEMMA FundingType ==
  ASSUME TypeOK
  PROVE  /\ Periods \in Nat
         /\ FundingRate \in Int
         /\ NextFundingIndex \in Nat
         /\ FundingFits => NextFundingIndex \in 0 .. WORD - 1
         /\ lastFundingTime + Periods * FundingPeriod \in Nat
         /\ lastFundingTime + Periods * FundingPeriod <= now
  <1>1. now - lastFundingTime \in Nat
    BY DEF TypeOK
  <1>2. Periods \in Nat
    BY <1>1, DivNat DEF Periods
  <1>3. FundingRate \in Int
    BY DEF TypeOK, FundingRate
  <1>4. FundingRate * Periods \in Int
    BY <1>2, <1>3
  <1>5. (FundingRate * Periods) % WORD \in 0 .. WORD - 1
    BY <1>4
  <1>6. NextFundingIndex \in Nat
    BY <1>5 DEF NextFundingIndex, TypeOK
  <1>7. Periods * FundingPeriod \in Nat
    BY <1>2
  <1>8. Periods * FundingPeriod <= now - lastFundingTime
    BY <1>1 DEF Periods
  <1> QED
    BY <1>2, <1>3, <1>6, <1>7, <1>8 DEF FundingFits, TypeOK

\* Fees, margins, penalties and rewards are naturals.
LEMMA MarginNat ==
  ASSUME NEW size \in Nat, NEW price \in Nat, NEW bps \in Nat
  PROVE  MarginRequired(size, price, bps) \in Nat /\ Fee(size, price, bps) \in Nat
  <1>1. size * price \in Nat /\ PRECISION * BPS \in Nat \ {0}
    BY MulNat DEF BPS
  <1>2. size * price * bps \in Nat
    BY <1>1, MulNat
  <1>3. MarginRequired(size, price, bps) \in Nat
    BY <1>1, <1>2, DivNat DEF MarginRequired
  <1>4. (size * price) \div PRECISION \in Nat
    BY <1>1, DivNat
  <1>5. ((size * price) \div PRECISION) * bps \in Nat
    BY <1>4, MulNat
  <1> QED
    BY <1>3, <1>5, DivNat DEF Fee, BPS

LEMMA BpsNat == BPS \in Nat /\ BPS \in Nat \ {0}
  BY DEF BPS

\* The prices are naturals, and the weights and the clamp shares of BPS.
LEMMA MarkTyped ==
  ASSUME TypeOK
  PROVE  /\ markPrice \in Nat /\ indexPrice \in Nat /\ BPS \in Nat
         /\ markEmaAlphaBps \in Nat /\ BPS - markEmaAlphaBps \in Nat
         /\ maxMarkDeviationBps \in Nat /\ BPS + maxMarkDeviationBps \in Nat
         /\ BPS - maxMarkDeviationBps \in Nat
  <1>1. /\ markPrice \in Nat /\ indexPrice \in Nat
        /\ markEmaAlphaBps \in 1 .. BPS /\ maxMarkDeviationBps \in 0 .. BPS
    BY DEF TypeOK
  <1> QED
    BY <1>1, BpsNat

\* The next mark is a natural.
LEMMA NextMarkNat ==
  ASSUME TypeOK, NEW price \in Nat
  PROVE  NextMark(price) \in Nat
  <1>1. /\ BPS - markEmaAlphaBps \in Nat /\ markEmaAlphaBps \in Nat
        /\ BPS + maxMarkDeviationBps \in Nat /\ BPS - maxMarkDeviationBps \in Nat
        /\ markPrice \in Nat /\ indexPrice \in Nat
    BY MarkTyped
  <1>2. /\ markPrice * (BPS - markEmaAlphaBps) \in Nat
        /\ price * markEmaAlphaBps \in Nat
        /\ indexPrice * (BPS + maxMarkDeviationBps) \in Nat
        /\ indexPrice * (BPS - maxMarkDeviationBps) \in Nat
    BY <1>1, MulNat
  <1>3. Ema(price) \in Nat
    BY <1>2, DivNat DEF Ema, BPS
  <1>4. Clamped(Ema(price)) \in Nat
    BY <1>2, <1>3, DivNat DEF Clamped, BPS
  <1> QED
    BY <1>3, <1>4 DEF NextMark

\* The key of a signed order is a key, and its fields have their types.
LEMMA KeyType ==
  ASSUME NEW o \in Orders
  PROVE  /\ Key(o) \in Keys /\ o \in Order
         /\ o.maker \in Traders /\ o.size \in Nat /\ o.nonce \in Nat
         /\ o.salt \in Nat /\ o.isLong \in BOOLEAN
         /\ Key(o).size = o.size /\ Key(o).salt = o.salt
         /\ Key(o).maker = o.maker /\ Key(o).nonce = o.nonce
  <1>1. o \in Order
    OBVIOUS
  <1> QED
    BY <1>1 DEF Key, Keys, Order

\* A fill's size is a natural, positive for V2, and within what is left.
LEMMA FillSizeNat ==
  ASSUME TypeOK, NEW o \in Orders, NEW offered \in Nat, offered > 0,
         Fillable(o, offered)
  PROVE  /\ FillSize(o, offered) \in Nat
         /\ o.salt = 0 => FillSize(o, offered) = o.size
         /\ o.salt # 0 => /\ FillSize(o, offered) > 0
                          /\ FillSize(o, offered) <= o.size - filledAmount[Key(o)]
  <1>1. filledAmount[Key(o)] \in Nat
    BY KeyType DEF TypeOK
  <1> QED
    BY <1>1, KeyType DEF FillSize, Fillable, Remaining

-----------------------------------------------------------------------------

\* The empty position is a position.
LEMMA NoPositionType == NoPosition \in Position
  BY DEF NoPosition, Position

\* Init establishes the types.
LEMMA InitTypeOK == Init => TypeOK
  <1> SUFFICES ASSUME Init PROVE TypeOK
    OBVIOUS
  <1>1. fundingRateCap \in Int /\ fundingRateFloor \in Int
    BY DEF Init, ParamsType
  <1>2. positions \in [Traders -> Position]
    BY NoPositionType DEF Init
  <1>3. /\ markEmaAlphaBps \in 1 .. BPS /\ maxMarkDeviationBps \in 0 .. BPS
        /\ maxLiquidationSizeBps \in 0 .. BPS /\ fundingIndex \in 0 .. WORD - 1
    BY DEF Init, BPS
  <1>4. /\ collateralBalance \in [Traders -> Nat] /\ nonces \in [Traders -> Nat]
        /\ filledAmount \in [Keys -> Nat] /\ executed \in [Keys -> Nat]
        /\ wallet \in [Traders -> Nat]
    BY DEF Init
  <1>5. /\ markPrice \in Nat /\ indexPrice \in Nat /\ lastFundingTime \in Nat
        /\ now \in Nat /\ lastFundingTime <= now /\ insuranceFund \in Nat
        /\ held \in Nat
    BY DEF Init
  <1>6. resolved \in BOOLEAN /\ outcome \in BOOLEAN /\ closeOnly \in BOOLEAN
    <2>1. resolved = FALSE /\ outcome = FALSE /\ closeOnly = FALSE
      BY DEF Init
    <2> QED
      BY <2>1
  <1> QED
    BY <1>1, <1>2, <1>3, <1>4, <1>5, <1>6 DEF TypeOK

\* A deposit keeps the types.
LEMMA DepositTypeOK ==
  ASSUME TypeOK, NEW t \in Traders, NEW amount \in Amounts, Deposit(t, amount)
  PROVE  TypeOK'
  <1>1. amount \in Nat /\ wallet[t] - amount \in Nat
    BY DEF Deposit, TypeOK
  <1> QED
    BY <1>1 DEF Deposit, TypeOK, ledger, mark, funding, caps, phase

\* A withdrawal keeps the types.
LEMMA WithdrawTypeOK ==
  ASSUME TypeOK, NEW t \in Traders, NEW amount \in Amounts, Withdraw(t, amount)
  PROVE  TypeOK'
  <1> DEFINE s == Settled(Account(t), NextFundingIndex)
  <1>1. NextFundingIndex \in 0 .. WORD - 1
    BY FundingType DEF Withdraw, AdvanceFunding
  <1>2. s.col \in Int /\ s.pos \in Position
    BY <1>1, AccountIsTyped, SettledType DEF AccountType
  <1>3. fundingIndex' \in 0 .. WORD - 1 /\ lastFundingTime' \in Nat
          /\ lastFundingTime' <= now
    BY <1>1, FundingType DEF Withdraw, AdvanceFunding
  <1> HIDE DEF s
  <1>4. amount \in Nat /\ s.col - amount \in Nat /\ held - amount \in Nat
    BY <1>2 DEF Withdraw, TypeOK, s
  <1>5. /\ collateralBalance' \in [Traders -> Nat]
        /\ positions' \in [Traders -> Position]
    BY <1>2, <1>4 DEF Withdraw, TypeOK, s
  <1>6. held' \in Nat /\ wallet' \in [Traders -> Nat]
    BY <1>4 DEF Withdraw, TypeOK
  <1> QED
    BY <1>3, <1>5, <1>6 DEF Withdraw, TypeOK, ledger, mark, caps, phase

\* What a fill makes of a side is typed, and covers the fee.
LEMMA SideType ==
  ASSUME TypeOK, FundingFits, NEW t \in Traders, NEW isLong \in BOOLEAN,
         NEW price \in Nat, NEW size \in Nat, NEW fee \in Nat,
         SideOK(t, isLong, price, size, fee)
  PROVE  /\ AfterSide(t, isLong, price, size).pos \in Position
         /\ AfterSide(t, isLong, price, size).col - fee \in Nat
  <1> DEFINE s == Settled(Account(t), NextFundingIndex)
             m == Moved(s, isLong, price, size, NextFundingIndex)
  <1>1. NextFundingIndex \in 0 .. WORD - 1
    BY FundingType
  <1>2. s \in AccountType
    BY <1>1, AccountIsTyped, SettledType
  <1>3. m \in AccountType
    BY <1>1, <1>2, MovedType
  <1>4. m.col >= fee
    BY DEF SideOK
  <1> HIDE DEF m
  <1>5. m.pos \in Position /\ m.col - fee \in Nat
    BY <1>3, <1>4 DEF AccountType
  <1> QED
    BY <1>5 DEF AfterSide, m

\* A fill keeps the types.
LEMMA SubmitFillTypeOK ==
  ASSUME TypeOK, NEW taker \in Traders, NEW price \in FillPrices,
         NEW offered \in FillSizes, NEW o \in Orders,
         SubmitFill(taker, price, offered, o)
  PROVE  TypeOK'
  <1> DEFINE size == FillSize(o, offered)
             takerFee == Fee(size, price, Params.takerFeeBps)
             makerFee == Fee(size, price, Params.makerFeeBps)
             took == AfterSide(taker, ~o.isLong, price, size)
             made == AfterSide(o.maker, o.isLong, price, size)
  <1>1. FundingFits /\ price \in Nat /\ offered \in Nat /\ (~o.isLong) \in BOOLEAN
    BY KeyType DEF SubmitFill, AdvanceFunding
  <1>2. size \in Nat
    BY FillSizeNat DEF SubmitFill, ValidFill
  <1>3. Params.takerFeeBps \in Nat /\ Params.makerFeeBps \in Nat
    BY DEF ParamsType
  <1>4. takerFee \in Nat /\ makerFee \in Nat
    BY <1>1, <1>2, <1>3, MarginNat
  <1>5. /\ SideOK(taker, ~o.isLong, price, size, takerFee)
        /\ SideOK(o.maker, o.isLong, price, size, makerFee)
    BY DEF SubmitFill
  <1> HIDE DEF size, takerFee, makerFee
  <1>6. took.pos \in Position /\ took.col - takerFee \in Nat
    BY <1>1, <1>2, <1>4, <1>5, SideType, KeyType
  <1>7. made.pos \in Position /\ made.col - makerFee \in Nat
    BY <1>1, <1>2, <1>4, <1>5, SideType, KeyType
  <1>8. fundingIndex' \in 0 .. WORD - 1 /\ lastFundingTime' \in Nat
          /\ lastFundingTime' <= now
    BY FundingType DEF SubmitFill, AdvanceFunding
  <1> HIDE DEF took, made
  <1>9. /\ positions' = [positions EXCEPT ![taker] = took.pos, ![o.maker] = made.pos]
        /\ collateralBalance' = [collateralBalance EXCEPT
             ![taker] = took.col - takerFee, ![o.maker] = made.col - makerFee]
        /\ insuranceFund' = insuranceFund + takerFee + makerFee
        /\ markPrice' = NextMark(price)
        /\ RecordFill(o, size)
    BY DEF SubmitFill, size, takerFee, makerFee, took, made
  <1>10. /\ positions' \in [Traders -> Position]
         /\ collateralBalance' \in [Traders -> Nat]
    BY <1>6, <1>7, <1>9 DEF TypeOK
  <1>11. insuranceFund' \in Nat /\ markPrice' \in Nat
    BY <1>1, <1>4, <1>9, NextMarkNat DEF TypeOK
  <1>12. /\ executed' \in [Keys -> Nat] /\ nonces' \in [Traders -> Nat]
         /\ filledAmount' \in [Keys -> Nat]
    BY <1>2, <1>9, KeyType DEF RecordFill, TypeOK
  <1> QED
    BY <1>8, <1>10, <1>11, <1>12 DEF SubmitFill, TypeOK, caps, phase, tokens

\* A cancellation keeps the types.
LEMMA CancelOrderTypeOK ==
  ASSUME TypeOK, NEW k \in Keys, CancelOrder(k)
  PROVE  TypeOK'
  <1>1. k.size \in Nat
    BY DEF Keys, Key, Order
  <1> QED
    BY <1>1 DEF CancelOrder, TypeOK, accounts, mark, funding, caps, phase, tokens

\* A liquidation keeps the types.
LEMMA LiquidateTypeOK ==
  ASSUME TypeOK, NEW l \in Traders, NEW t \in Traders, Liquidate(l, t)
  PROVE  TypeOK'
  <1> DEFINE s == Settled(Account(t), NextFundingIndex)
             size == LiquidationSize(s.pos)
             closed == ClosedOut(s, size)
             penalty == Penalty(s.pos, size)
             reward == Reward(penalty)
             fromTrader == IF penalty <= closed THEN penalty ELSE closed
  <1>1. NextFundingIndex \in 0 .. WORD - 1
    BY FundingType DEF Liquidate, AdvanceFunding
  <1>2. s.col \in Int /\ s.pos \in Position
    BY <1>1, AccountIsTyped, SettledType DEF AccountType
  <1>3. fundingIndex' \in 0 .. WORD - 1 /\ lastFundingTime' \in Nat
          /\ lastFundingTime' <= now
    BY <1>1, FundingType DEF Liquidate, AdvanceFunding
  <1> HIDE DEF s
  <1>4. size \in Nat
    <2>1. s.pos.size \in Nat /\ maxLiquidationSizeBps \in Nat
      <3>1. s.pos.size \in Nat
        BY <1>2 DEF Position
      <3>2. maxLiquidationSizeBps \in 0 .. BPS
        BY DEF TypeOK
      <3> QED
        BY <3>1, <3>2
    <2>2. (s.pos.size * maxLiquidationSizeBps) \div BPS \in Nat
      BY <2>1, MulNat, DivNat DEF BPS
    <2> QED
      BY <1>2, <2>2 DEF LiquidationSize, Position
  <1> HIDE DEF size
  <1>5. closed \in Int
    <2>1. Pnl(size, s.pos.entryPrice, markPrice, s.pos.isLong) \in Int
      BY <1>2, <1>4, PnlInt DEF Position, TypeOK
    <2> QED
      BY <1>2, <2>1 DEF ClosedOut
  <1>6. penalty \in Nat
    BY <1>2, <1>4, MarginNat DEF Penalty, Position, ParamsType
  <1> HIDE DEF closed, penalty
  <1>7. reward \in Nat
    <2>1. penalty * Params.liquidatorRewardBps \in Nat
      BY <1>6, MulNat DEF ParamsType
    <2>2. Params.liquidationPenaltyBps \in Nat \ {0}
      BY DEF Liquidate, ParamsType
    <2> QED
      BY <2>1, <2>2, DivNat DEF Reward
  <1> HIDE DEF reward
  <1>8. /\ closed >= 0 /\ insuranceFund + fromTrader >= reward
        /\ collateralBalance' = [[collateralBalance EXCEPT ![t] = closed - fromTrader]
                                   EXCEPT ![l] = @ + reward]
        /\ insuranceFund' = insuranceFund + fromTrader - reward
        /\ positions' = [positions EXCEPT ![t] =
             IF size >= s.pos.size THEN NoPosition
             ELSE [s.pos EXCEPT !.size = @ - size]]
    BY DEF Liquidate, RewardFunded, s, size, closed, penalty, reward
  <1>9. closed - fromTrader \in Nat /\ fromTrader \in Nat
    BY <1>5, <1>6, <1>8
  <1>10. collateralBalance' \in [Traders -> Nat]
    BY <1>7, <1>8, <1>9 DEF TypeOK
  <1>11. insuranceFund' \in Nat
    BY <1>7, <1>8, <1>9 DEF TypeOK
  <1>12. positions' \in [Traders -> Position]
    <2>1. ~(size >= s.pos.size) => [s.pos EXCEPT !.size = @ - size] \in Position
      BY <1>2, <1>4 DEF Position
    <2> QED
      BY <1>8, <2>1, NoPositionType DEF TypeOK
  <1> QED
    BY <1>3, <1>10, <1>11, <1>12 DEF Liquidate, TypeOK, ledger, mark, caps, phase, tokens

\* A settlement keeps the types.
LEMMA SettleAndWithdrawTypeOK ==
  ASSUME TypeOK, NEW t \in Traders, SettleAndWithdraw(t)
  PROVE  TypeOK'
  <1> DEFINE pos == positions[t]
             gain == Pnl(pos.size, pos.entryPrice, SettlementPrice, pos.isLong)
             paid == collateralBalance[t] + gain
  <1>1. SettlementPrice \in Nat
    BY DEF SettlementPrice
  <1>2. gain \in Int
    BY <1>1, PnlInt DEF TypeOK, Position
  <1>3. /\ paid >= 0 /\ paid <= held
        /\ held' = held - paid
        /\ wallet' = [wallet EXCEPT ![t] = @ + paid]
    BY DEF SettleAndWithdraw
  <1> HIDE DEF gain
  <1>4. held' \in Nat /\ wallet' \in [Traders -> Nat]
    BY <1>2, <1>3 DEF TypeOK
  <1>5. /\ positions' \in [Traders -> Position]
        /\ collateralBalance' \in [Traders -> Nat]
    BY NoPositionType DEF SettleAndWithdraw, TypeOK
  <1> QED
    BY <1>4, <1>5 DEF SettleAndWithdraw, TypeOK, ledger, mark, funding, caps, phase

\* Whatever the factory or the clock does keeps the types.
LEMMA OtherTypeOK == ASSUME TypeOK, UpdateFunding \/ FactoryStep \/ Tick
                     PROVE  TypeOK'
  <1>1. CASE UpdateFunding
    BY <1>1, FundingType DEF UpdateFunding, AdvanceFunding, TypeOK, accounts,
       ledger, mark, caps, phase, tokens
  <1>2. CASE Tick
    BY <1>2 DEF Tick, TypeOK, accounts, ledger, mark, funding, caps, phase, tokens
  <1>3. ASSUME NEW price \in IndexPrices, SetIndexPrice(price) PROVE TypeOK'
    BY <1>3 DEF SetIndexPrice, TypeOK, accounts, ledger, funding, caps, phase, tokens
  <1>4. ASSUME NEW alphaBps \in Nat, NEW maxDeviationBps \in Nat,
               SetMarkMicrostructure(alphaBps, maxDeviationBps)
        PROVE  TypeOK'
    <2>1. /\ alphaBps > 0 /\ alphaBps <= BPS /\ maxDeviationBps <= BPS
          /\ markEmaAlphaBps' = alphaBps
          /\ maxMarkDeviationBps' = maxDeviationBps
      BY <1>4 DEF SetMarkMicrostructure
    <2>2. markEmaAlphaBps' \in 1 .. BPS
      BY <2>1, BpsNat
    <2>3. maxMarkDeviationBps' \in 0 .. BPS
      BY <2>1, BpsNat
    <2> QED
      BY <1>4, <2>2, <2>3 DEF SetMarkMicrostructure, TypeOK, accounts, ledger, funding,
         caps, phase, tokens
  <1>5. ASSUME NEW on \in BOOLEAN, SetCloseOnly(on) PROVE TypeOK'
    <2>1. closeOnly' \in BOOLEAN
      BY <1>5, Zenon DEF SetCloseOnly
    <2>2. UNCHANGED <<accounts, ledger, mark, funding, caps, insuranceFund,
                      resolved, outcome, tokens, now>>
      BY <1>5, Zenon DEF SetCloseOnly
    <2> QED
      BY <2>1, <2>2 DEF TypeOK, accounts, ledger, mark, funding, caps, tokens
  <1>6. ASSUME NEW c \in FundingCaps, SetFundingRateCaps(c[1], c[2])
        PROVE  TypeOK'
    <2>1. c[1] \in Int /\ c[2] \in Int
      OBVIOUS
    <2> QED
      BY <1>6, <2>1 DEF SetFundingRateCaps, TypeOK, accounts, ledger, mark,
         funding, phase, tokens
  <1>7. ASSUME NEW bps \in LiquidationCaps, SetMaxLiquidationSizeBps(bps)
        PROVE  TypeOK'
    <2>1. maxLiquidationSizeBps' \in 0 .. BPS
      BY <1>7, BpsNat DEF SetMaxLiquidationSizeBps
    <2>2. UNCHANGED <<accounts, ledger, mark, funding, fundingRateCap,
                      fundingRateFloor, insuranceFund, phase, tokens, now>>
      BY <1>7 DEF SetMaxLiquidationSizeBps
    <2> QED
      BY <2>1, <2>2 DEF TypeOK, accounts, ledger, mark, funding, phase, tokens
  <1>8. ASSUME NEW result \in BOOLEAN, Resolve(result) PROVE TypeOK'
    <2>1. resolved' \in BOOLEAN /\ outcome' \in BOOLEAN
      BY <1>8, Zenon DEF Resolve
    <2>2. UNCHANGED <<accounts, ledger, mark, funding, caps, insuranceFund,
                      closeOnly, tokens, now>>
      BY <1>8, Zenon DEF Resolve
    <2> QED
      BY <2>1, <2>2 DEF TypeOK, accounts, ledger, mark, funding, caps, tokens
  <1>9. CASE FactoryStep
    <2>1. \A c \in MicroConfigs : c[1] \in Nat /\ c[2] \in Nat
      OBVIOUS
    <2> QED
      BY <2>1, <1>3, <1>4, <1>5, <1>6, <1>7, <1>8, <1>9 DEF FactoryStep
  <1> QED
    BY <1>1, <1>2, <1>9

\* Every step keeps the types.
LEMMA NextTypeOK == ASSUME TypeOK, [Next]_vars PROVE TypeOK'
  <1>1. CASE UNCHANGED vars
    BY <1>1 DEF vars, accounts, ledger, mark, funding, caps, phase, tokens, TypeOK
  <1>2. CASE UserStep
    BY <1>2, DepositTypeOK, WithdrawTypeOK, SubmitFillTypeOK, CancelOrderTypeOK,
       LiquidateTypeOK, SettleAndWithdrawTypeOK, OtherTypeOK DEF UserStep
  <1>3. CASE FactoryStep \/ Tick
    BY <1>3, OtherTypeOK
  <1> QED
    BY <1>1, <1>2, <1>3 DEF Next

\* In every market, whatever its constants, every variable keeps its type: no
\* sequence of transactions takes a balance, the insurance fund or the tokens
\* held below zero, or the funding index out of its word.
THEOREM TypeCorrect == Spec => []TypeOK
  BY InitTypeOK, NextTypeOK, PTL DEF Spec

-----------------------------------------------------------------------------
(* Orders.  NoOverfill and NonceSpentOnce are not inductive: a step can only *)
(* be shown to keep them knowing how executed relates to the two records the *)
(* contract really keeps, which is what LedgerInv says.                      *)

\* Only fills and cancellations touch the ledger.
LEMMA LedgerFrame ==
  ASSUME [Next]_vars
  PROVE  \/ UNCHANGED ledger
         \/ \E taker \in Traders, price \in FillPrices, size \in FillSizes,
               o \in Orders : SubmitFill(taker, price, size, o)
         \/ \E k \in Keys : CancelOrder(k)
  BY DEF Next, vars, UserStep, FactoryStep, Deposit, Withdraw, Liquidate,
     UpdateFunding, SettleAndWithdraw, SetIndexPrice, SetMarkMicrostructure,
     SetCloseOnly, SetFundingRateCaps, SetMaxLiquidationSizeBps, Resolve, Tick

\* The fields of a key have their types.
LEMMA KeysTyped ==
  ASSUME NEW k \in Keys
  PROVE  k.maker \in Traders /\ k.size \in Nat /\ k.nonce \in Nat /\ k.salt \in Nat
  BY DEF Keys, Key, Order

\* No market order has been executed at first.
LEMMA InitLedgerInv == Init => LedgerInv
  BY KeysTyped DEF Init, LedgerInv

\* What a valid fill does to the ledger, for the two kinds of orders.
LEMMA FillEffect ==
  ASSUME TypeOK, NEW taker \in Traders, NEW price \in FillPrices,
         NEW offered \in FillSizes, NEW o \in Orders,
         SubmitFill(taker, price, offered, o)
  PROVE  LET size == FillSize(o, offered)
         IN  /\ size \in Nat
             /\ executed' = [executed EXCEPT ![Key(o)] = @ + size]
             /\ o.salt = 0 =>
                  /\ size = o.size
                  /\ nonces[o.maker] = o.nonce
                  /\ nonces' = [nonces EXCEPT ![o.maker] = o.nonce + 1]
                  /\ filledAmount' = filledAmount
             /\ o.salt # 0 =>
                  /\ size > 0 /\ size <= o.size - filledAmount[Key(o)]
                  /\ filledAmount' = [filledAmount EXCEPT ![Key(o)] = @ + size]
                  /\ nonces' = nonces
  <1>1. Fillable(o, offered) /\ offered \in Nat /\ offered > 0
    BY DEF SubmitFill, ValidFill
  <1>2. RecordFill(o, FillSize(o, offered))
    BY DEF SubmitFill
  <1>3. o.salt = 0 => nonces[o.maker] = o.nonce
    BY <1>1 DEF Fillable
  <1> QED
    BY <1>1, <1>2, <1>3, FillSizeNat DEF RecordFill

\* Every step keeps the ledger invariant.
LEMMA NextLedgerInv ==
  ASSUME TypeOK, LedgerInv, [Next]_vars
  PROVE  LedgerInv'
  <1>1. CASE UNCHANGED ledger
    BY <1>1 DEF ledger, LedgerInv
  <1>2. ASSUME NEW taker \in Traders, NEW price \in FillPrices,
               NEW offered \in FillSizes, NEW o \in Orders,
               SubmitFill(taker, price, offered, o)
        PROVE  LedgerInv'
    <2> DEFINE size == FillSize(o, offered)
    <2>1. /\ size \in Nat
          /\ executed' = [executed EXCEPT ![Key(o)] = @ + size]
          /\ o.salt = 0 =>
               /\ size = o.size
               /\ nonces[o.maker] = o.nonce
               /\ nonces' = [nonces EXCEPT ![o.maker] = o.nonce + 1]
               /\ filledAmount' = filledAmount
          /\ o.salt # 0 =>
               /\ size > 0 /\ size <= o.size - filledAmount[Key(o)]
               /\ filledAmount' = [filledAmount EXCEPT ![Key(o)] = @ + size]
               /\ nonces' = nonces
      BY <1>2, FillEffect
    <2> HIDE DEF size
    <2>2. SUFFICES ASSUME NEW k \in Keys
          PROVE IF k.salt = 0
                THEN executed'[k] <= k.size
                       /\ (nonces'[k.maker] <= k.nonce => executed'[k] = 0)
                ELSE executed'[k] <= filledAmount'[k] /\ filledAmount'[k] <= k.size
      BY DEF LedgerInv
    <2>3. /\ executed \in [Keys -> Nat] /\ filledAmount \in [Keys -> Nat]
          /\ nonces \in [Traders -> Nat]
      BY DEF TypeOK
    <2>4. IF k.salt = 0
          THEN executed[k] <= k.size
                 /\ (nonces[k.maker] <= k.nonce => executed[k] = 0)
          ELSE executed[k] <= filledAmount[k] /\ filledAmount[k] <= k.size
      BY DEF LedgerInv
    <2>5. CASE k = Key(o)
      BY <2>1, <2>3, <2>4, <2>5, KeyType, KeysTyped
    <2>6. CASE k # Key(o)
      BY <2>1, <2>3, <2>4, <2>6, KeyType, KeysTyped
    <2> QED
      BY <2>5, <2>6
  <1>3. ASSUME NEW c \in Keys, CancelOrder(c) PROVE LedgerInv'
    BY <1>3, KeysTyped DEF CancelOrder, LedgerInv, TypeOK
  <1> QED
    BY <1>1, <1>2, <1>3, LedgerFrame

\* The relation between executed, nonces and filledAmount is invariant.
THEOREM LedgerCorrect == Spec => []LedgerInv
  <1>1. Init => LedgerInv
    BY InitLedgerInv
  <1>2. TypeOK /\ LedgerInv /\ [Next]_vars => LedgerInv'
    BY NextLedgerInv
  <1> QED
    BY <1>1, <1>2, TypeCorrect, PTL DEF Spec

\* The ledger invariant bounds what is executed against a key.
LEMMA LedgerBounds == ASSUME TypeOK, LedgerInv PROVE NoOverfill
  <1> SUFFICES ASSUME NEW k \in Keys PROVE executed[k] <= k.size
    BY DEF NoOverfill
  <1> QED
    BY KeysTyped DEF LedgerInv, TypeOK

\* However submissions, twins and cancels interleave, at most the signed size
\* is executed against an order hash.
THEOREM NeverOverfilled == Spec => []NoOverfill
  <1>1. TypeOK /\ LedgerInv => NoOverfill
    BY LedgerBounds
  <1> QED
    BY <1>1, TypeCorrect, LedgerCorrect, PTL

\* Two V1 orders of one maker and nonce.
Rivals(k1, k2) == /\ k1 # k2 /\ k1.salt = 0 /\ k2.salt = 0
                  /\ k1.maker = k2.maker /\ k1.nonce = k2.nonce

\* A fill finds every rival of its order unexecuted.
LEMMA NextNonceSpentOnce ==
  ASSUME TypeOK, LedgerInv, NonceSpentOnce, [Next]_vars
  PROVE  NonceSpentOnce'
  <1>1. CASE executed' = executed
    BY <1>1 DEF NonceSpentOnce
  <1>2. ASSUME NEW taker \in Traders, NEW price \in FillPrices,
               NEW offered \in FillSizes, NEW o \in Orders,
               SubmitFill(taker, price, offered, o)
        PROVE  NonceSpentOnce'
    <2> DEFINE size == FillSize(o, offered)
    <2>1. /\ executed' = [executed EXCEPT ![Key(o)] = @ + size]
          /\ o.salt = 0 => nonces[o.maker] = o.nonce
      BY <1>2, FillEffect
    <2> HIDE DEF size
    <2>2. SUFFICES ASSUME NEW k1 \in Keys, NEW k2 \in Keys, Rivals(k1, k2)
          PROVE executed'[k1] = 0 \/ executed'[k2] = 0
      BY DEF NonceSpentOnce, Rivals
    <2>3. \A k \in Keys : k # Key(o) => executed'[k] = executed[k]
      BY <2>1 DEF TypeOK
    <2>4. executed[k1] = 0 \/ executed[k2] = 0
      BY <2>2 DEF NonceSpentOnce, Rivals
    <2>5. \A k \in Keys : Rivals(k, Key(o)) \/ Rivals(Key(o), k) => executed[k] = 0
      <3> SUFFICES ASSUME NEW k \in Keys, Rivals(k, Key(o)) \/ Rivals(Key(o), k)
                   PROVE  executed[k] = 0
        OBVIOUS
      <3>1. k.salt = 0 /\ o.salt = 0 /\ k.maker = o.maker /\ k.nonce = o.nonce
        BY KeyType DEF Rivals
      <3>2. nonces[k.maker] = k.nonce
        BY <2>1, <3>1
      <3> QED
        BY <3>1, <3>2, KeysTyped DEF LedgerInv
    <2>6. CASE k1 = Key(o)
      BY <2>2, <2>3, <2>5, <2>6 DEF Rivals
    <2>7. CASE k2 = Key(o)
      BY <2>2, <2>3, <2>5, <2>7 DEF Rivals
    <2>8. CASE k1 # Key(o) /\ k2 # Key(o)
      BY <2>3, <2>4, <2>8
    <2> QED
      BY <2>6, <2>7, <2>8
  <1>3. ASSUME NEW c \in Keys, CancelOrder(c) PROVE NonceSpentOnce'
    BY <1>3, <1>1 DEF CancelOrder
  <1> QED
    BY <1>1, <1>2, <1>3, LedgerFrame DEF ledger

\* Of the V1 orders a maker signed for one nonce, at most one is executed.
THEOREM NoncesSpentOnce == Spec => []NonceSpentOnce
  <1>1. Init => NonceSpentOnce
    BY DEF Init, NonceSpentOnce
  <1>2. TypeOK /\ LedgerInv /\ NonceSpentOnce /\ [Next]_vars => NonceSpentOnce'
    BY NextNonceSpentOnce
  <1> QED
    BY <1>1, <1>2, TypeCorrect, LedgerCorrect, PTL DEF Spec

\* The market implements OrderLifecycle: its initial states are initial states
\* there and each of its steps is a trade, a retirement or a stutter.
THEOREM OrdersImplementLifecycle == Spec => OrdersKeepPromise
  <1>1. Init => Lifecycle!Init
    BY DEF Init, Lifecycle!Init, Marked, NonceSpent
  <1>2. ASSUME TypeOK, LedgerInv, [Next]_vars
        PROVE  [Lifecycle!Next]_(Lifecycle!vars)
    <2>1. CASE UNCHANGED ledger
      BY <2>1 DEF ledger, Lifecycle!vars, Marked, NonceSpent
    <2>2. ASSUME NEW taker \in Traders, NEW price \in FillPrices,
                 NEW offered \in FillSizes, NEW o \in Orders,
                 SubmitFill(taker, price, offered, o)
          PROVE  Lifecycle!Next
      <3> DEFINE size == FillSize(o, offered)
                 k == Key(o)
      <3>1. /\ size \in Nat
            /\ executed' = [executed EXCEPT ![k] = @ + size]
            /\ o.salt = 0 =>
                 /\ size = o.size
                 /\ nonces[o.maker] = o.nonce
                 /\ nonces' = [nonces EXCEPT ![o.maker] = o.nonce + 1]
                 /\ filledAmount' = filledAmount
            /\ o.salt # 0 =>
                 /\ size > 0 /\ size <= o.size - filledAmount[k]
                 /\ filledAmount' = [filledAmount EXCEPT ![k] = @ + size]
                 /\ nonces' = nonces
        BY <1>2, <2>2, FillEffect
      <3> HIDE DEF size
      <3>2. k \in Keys /\ k.size = o.size /\ k.salt = o.salt /\ k.maker = o.maker
              /\ k.nonce = o.nonce
        BY KeyType
      <3> HIDE DEF k
      <3>3. /\ executed[k] \in Nat /\ filledAmount[k] \in Nat /\ k.size \in Nat
            /\ executed \in [Keys -> Nat] /\ filledAmount \in [Keys -> Nat]
            /\ nonces \in [Traders -> Nat]
        BY <1>2, <3>2, KeysTyped DEF TypeOK
      <3>4. k.salt \in Nat /\ k.nonce \in Nat /\ k.maker \in Traders
        BY <3>2, KeysTyped
      <3>5. k \notin Lifecycle!Dead
        <4>1. CASE o.salt = 0
          BY <3>1, <3>2, <3>3, <3>4, <4>1
          DEF Lifecycle!Dead, Marked, NonceSpent, OrdersV2
        <4>2. CASE o.salt # 0
          BY <3>1, <3>2, <3>3, <4>2
          DEF Lifecycle!Dead, Marked, NonceSpent, OrdersV2
        <4> QED
          BY <4>1, <4>2
      <3>11. IF k.salt = 0
            THEN executed[k] <= k.size
                   /\ (nonces[k.maker] <= k.nonce => executed[k] = 0)
            ELSE executed[k] <= filledAmount[k] /\ filledAmount[k] <= k.size
        BY <1>2, <3>2 DEF LedgerInv
      <3>12. executed[k] + size <= k.size
        <4>1. CASE o.salt = 0
          BY <3>1, <3>2, <3>3, <3>4, <3>11, <4>1
        <4>2. CASE o.salt # 0
          BY <3>1, <3>2, <3>3, <3>11, <4>2
        <4> QED
          BY <4>1, <4>2
      <3>6. executed'[k] = k.size => k \in Lifecycle!Dead'
        <4>1. CASE o.salt = 0
          BY <3>1, <3>2, <3>3, <3>4, <4>1
          DEF Lifecycle!Dead, Marked, NonceSpent, OrdersV2
        <4>2. CASE o.salt # 0
          BY <3>1, <3>2, <3>3, <3>11, <4>2
          DEF Lifecycle!Dead, Marked, NonceSpent, OrdersV2
        <4> QED
          BY <4>1, <4>2
      <3>7. Marked \subseteq Marked' /\ NonceSpent \subseteq NonceSpent'
        BY <3>1, <3>2, <3>3, KeysTyped, KeyType DEF Marked, NonceSpent
      <3>8. Lifecycle!OnlyGrow
        BY <3>7 DEF Lifecycle!OnlyGrow, Marked, NonceSpent
      <3>9. CASE size = 0
        <4>1. executed' = executed
          BY <3>1, <3>2, <3>3, <3>9
        <4> QED
          BY <3>8, <4>1 DEF Lifecycle!Next, Lifecycle!Retire
      <3>10. CASE size > 0
        <4>1. size \in 1 .. (k.size - executed[k])
          BY <3>1, <3>3, <3>12, <3>10
        <4>2. Lifecycle!Trade(k)
          BY <3>1, <3>2, <3>3, <3>5, <3>6, <3>8, <4>1 DEF Lifecycle!Trade
        <4> QED
          BY <3>2, <4>2 DEF Lifecycle!Next
      <3> QED
        BY <3>1, <3>9, <3>10
    <2>3. ASSUME NEW c \in Keys, CancelOrder(c) PROVE Lifecycle!Next
      <3>1. Marked \subseteq Marked' /\ NonceSpent \subseteq NonceSpent'
        BY <1>2, <2>3, KeysTyped DEF CancelOrder, Marked, NonceSpent, TypeOK
      <3>2. Lifecycle!OnlyGrow
        BY <3>1 DEF Lifecycle!OnlyGrow, Marked, NonceSpent
      <3> QED
        BY <2>3, <3>2 DEF Lifecycle!Next, Lifecycle!Retire, CancelOrder
    <2> QED
      BY <1>2, <2>1, <2>2, <2>3, LedgerFrame
  <1> QED
    BY <1>1, <1>2, TypeCorrect, LedgerCorrect, PTL
    DEF Spec, OrdersKeepPromise, Lifecycle!Spec
-----------------------------------------------------------------------------
(* Arithmetic: monotonicity of products and of the integer quotient.       *)

\* A product with a positive number is at least the other factor.
LEMMA MulGrows == ASSUME NEW x \in Nat, NEW y \in Nat, x > 0 PROVE x * y >= y
  OBVIOUS

\* A product is monotone in its first factor.
LEMMA MulMonotone ==
  ASSUME NEW x \in Nat, NEW y \in Nat, NEW z \in Nat, x <= y
  PROVE  x * z <= y * z
  <1> PICK d \in Nat : y = x + d
    BY y - x \in Nat
  <1>1. y * z = x * z + d * z
    OBVIOUS
  <1>2. d * z \in Nat /\ x * z \in Nat
    BY MulNat
  <1> QED
    BY <1>1, <1>2

\* A quotient by BPS is at least q when the dividend is at least q * BPS, and
\* at most q when it is at most q * BPS.
LEMMA DivBounds ==
  ASSUME NEW x \in Nat, NEW q \in Nat
  PROVE  /\ x >= q * BPS => x \div BPS >= q
         /\ x <= q * BPS => x \div BPS <= q
  BY DEF BPS

\* A weighted sum with weights w and BPS - w lies between its terms' bounds.
LEMMA WeightedBounds ==
  ASSUME NEW p \in Nat, NEW q \in Nat, NEW w \in 0 .. BPS, NEW hi \in Nat
  PROVE  LET sum == p * (BPS - w) + q * w
         IN  /\ sum \in Nat
             /\ p > 0 /\ q > 0 => sum >= 1 * BPS
             /\ p <= hi /\ q <= hi => sum <= hi * BPS
  <1> DEFINE v == BPS - w
             a == p * v
             b == q * w
             c == hi * v
             d == hi * w
  <1>1. w \in Nat /\ v \in Nat /\ v + w = BPS
    BY BpsNat
  <1> HIDE DEF v
  <1>2. a \in Nat /\ b \in Nat /\ c \in Nat /\ d \in Nat
    BY <1>1, MulNat
  <1>3. p > 0 /\ q > 0 => a >= v /\ b >= w
    BY <1>1, MulGrows
  <1>4. p <= hi /\ q <= hi => a <= c /\ b <= d
    BY <1>1, MulMonotone
  <1>5. c + d = hi * BPS
    <2>1. hi * (v + w) = hi * v + hi * w
      BY <1>1
    <2> QED
      BY <1>1, <2>1
  <1> HIDE DEF a, b, c, d
  <1>6. a + b \in Nat
    BY <1>2
  <1>7. p > 0 /\ q > 0 => a + b >= 1 * BPS
    <2>1. BPS \in Nat
      BY BpsNat
    <2>2. PICK k \in Nat : k = BPS
      BY <2>1
    <2>3. v + w = k
      BY <1>1, <2>2
    <2>4. p > 0 /\ q > 0 => a + b >= k
      BY <1>1, <1>2, <1>3, <2>3
    <2> QED
      BY <2>2, <2>4
  <1>8. p <= hi /\ q <= hi => a + b <= hi * BPS
    BY <1>2, <1>4, <1>5
  <1> QED
    BY <1>6, <1>7, <1>8 DEF a, b, v

-----------------------------------------------------------------------------
(* The mark.                                                               *)

\* The EMA of positive prices is positive, that of prices in the scale is in
\* the scale.
LEMMA EmaBounds ==
  ASSUME TypeOK, NEW price \in Nat, price > 0
  PROVE  /\ Ema(price) \in Nat
         /\ Ema(price) > 0
         /\ markPrice <= PRECISION /\ price <= PRECISION => Ema(price) <= PRECISION
  <1> DEFINE sum == markPrice * (BPS - markEmaAlphaBps) + price * markEmaAlphaBps
  <1>1. markPrice \in Nat /\ markEmaAlphaBps \in 0 .. BPS
    BY MarkTyped
  <1>2. /\ sum \in Nat
        /\ markPrice > 0 => sum >= 1 * BPS
        /\ markPrice <= PRECISION /\ price <= PRECISION => sum <= PRECISION * BPS
    BY <1>1, WeightedBounds
  <1> HIDE DEF sum
  <1>3. /\ sum \div BPS \in Nat
        /\ markPrice > 0 => sum \div BPS >= 1
        /\ markPrice <= PRECISION /\ price <= PRECISION => sum \div BPS <= PRECISION
    BY <1>2, DivBounds, DivNat DEF BPS
  <1>4. Ema(price) = IF markPrice = 0 THEN price ELSE sum \div BPS
    BY DEF Ema, sum
  <1> QED
    BY <1>1, <1>3, <1>4

\* The clamp lies around the index: its upper end is not below it, its lower
\* end not above it.
LEMMA ClampAroundIndex ==
  ASSUME TypeOK
  PROVE  /\ (indexPrice * (BPS + maxMarkDeviationBps)) \div BPS >= indexPrice
         /\ (indexPrice * (BPS - maxMarkDeviationBps)) \div BPS <= indexPrice
         /\ (indexPrice * (BPS + maxMarkDeviationBps)) \div BPS \in Nat
         /\ (indexPrice * (BPS - maxMarkDeviationBps)) \div BPS \in Nat
  <1> DEFINE i == indexPrice
             d == maxMarkDeviationBps
  <1>1. i \in Nat /\ d \in Nat /\ BPS + d \in Nat /\ BPS - d \in Nat
    BY MarkTyped
  <1> HIDE DEF i, d
  <1>2. i * d \in Nat
    BY <1>1, MulNat
  <1>3. i * (BPS + d) \in Nat /\ i * (BPS - d) \in Nat
    BY <1>1, MulNat
  <1>4. i * (BPS + d) >= i * BPS /\ i * (BPS - d) <= i * BPS
    BY <1>1, <1>2 DEF BPS
  <1>5. /\ (i * (BPS + d)) \div BPS >= i
        /\ (i * (BPS - d)) \div BPS <= i
    BY <1>1, <1>3, <1>4, DivBounds
  <1>6. (i * (BPS + d)) \div BPS \in Nat /\ (i * (BPS - d)) \div BPS \in Nat
    BY <1>3, DivNat DEF BPS
  <1> QED
    BY <1>5, <1>6 DEF i, d

\* The next mark is positive; it is in the scale if the mark, the price and
\* the index are.
LEMMA NextMarkBounds ==
  ASSUME TypeOK, NEW price \in Nat, price > 0
  PROVE  /\ NextMark(price) > 0
         /\ markPrice <= PRECISION /\ price <= PRECISION /\ indexPrice <= PRECISION
              => NextMark(price) <= PRECISION
  <1> DEFINE e == Ema(price)
             upper == (indexPrice * (BPS + maxMarkDeviationBps)) \div BPS
             lower == (indexPrice * (BPS - maxMarkDeviationBps)) \div BPS
  <1>1. /\ e \in Nat /\ e > 0
        /\ markPrice <= PRECISION /\ price <= PRECISION => e <= PRECISION
    BY EmaBounds
  <1>2. upper >= indexPrice /\ lower <= indexPrice /\ upper \in Nat /\ lower \in Nat
    BY ClampAroundIndex
  <1>3. indexPrice \in Nat
    BY DEF TypeOK
  <1>4. NextMark(price) = IF indexPrice > 0 /\ maxMarkDeviationBps > 0
                          THEN IF e > upper THEN upper
                               ELSE IF e < lower THEN lower ELSE e
                          ELSE e
    BY DEF NextMark, Clamped
  <1> HIDE DEF e, upper, lower
  <1>5. CASE indexPrice > 0 /\ maxMarkDeviationBps > 0
    BY <1>1, <1>2, <1>3, <1>4, <1>5
  <1>6. CASE ~(indexPrice > 0 /\ maxMarkDeviationBps > 0)
    BY <1>1, <1>4, <1>6
  <1> QED
    BY <1>5, <1>6

\* Only a fill changes the mark, and only setIndexPrice the index.
LEMMA MarkFrame ==
  ASSUME [Next]_vars
  PROVE  \/ UNCHANGED <<markPrice, indexPrice>>
         \/ UNCHANGED indexPrice /\ \E price \in FillPrices :
              price > 0 /\ price <= PRECISION /\ markPrice' = NextMark(price)
         \/ UNCHANGED markPrice /\ indexPrice' \in IndexPrices
  <1>1. ASSUME NEW taker \in Traders, NEW price \in FillPrices,
               NEW offered \in FillSizes, NEW o \in Orders,
               SubmitFill(taker, price, offered, o)
        PROVE  UNCHANGED indexPrice /\ price > 0 /\ price <= PRECISION
                 /\ markPrice' = NextMark(price)
    BY <1>1 DEF SubmitFill, ValidFill
  <1>2. CASE UserStep /\ ~(\E taker \in Traders, price \in FillPrices,
                            offered \in FillSizes, o \in Orders :
                              SubmitFill(taker, price, offered, o))
    BY <1>2 DEF UserStep, Deposit, Withdraw, Liquidate, CancelOrder, UpdateFunding,
       SettleAndWithdraw, mark
  <1>3. CASE FactoryStep
    BY <1>3 DEF FactoryStep, SetIndexPrice, SetMarkMicrostructure, SetCloseOnly,
       SetFundingRateCaps, SetMaxLiquidationSizeBps, Resolve, mark
  <1>4. CASE Tick \/ UNCHANGED vars
    BY <1>4 DEF Tick, vars, mark
  <1> QED
    BY <1>1, <1>2, <1>3, <1>4 DEF Next

\* Once trades have set the mark, no EMA, truncation or clamp brings it back to
\* zero, the value that stands for "no trade yet".
THEOREM MarkNeverForgotten == Spec => MarkStaysSet
  <1>1. TypeOK /\ [Next]_vars => [markPrice > 0 => markPrice' > 0]_vars
    <2> SUFFICES ASSUME TypeOK, [Next]_vars, markPrice > 0 PROVE markPrice' > 0
      OBVIOUS
    <2>1. ASSUME NEW price \in FillPrices, price > 0, markPrice' = NextMark(price)
          PROVE  markPrice' > 0
      BY <2>1, NextMarkBounds
    <2> QED
      BY <2>1, MarkFrame
  <1> QED
    BY <1>1, TypeCorrect, PTL DEF Spec, MarkStaysSet

\* The mark and the index are inside the price scale.
PricesInScale == indexPrice <= PRECISION /\ MarkInRange

\* If whoever sends the index keeps it inside the price scale, trades, the EMA
\* and the clamp keep the mark inside it.
THEOREM MarkKeepsScale ==
  ASSUME IndexPrices \subseteq 0 .. PRECISION
  PROVE  Spec => []MarkInRange
  <1>1. Init => PricesInScale
    BY DEF Init, PricesInScale, MarkInRange
  <1>2. TypeOK /\ PricesInScale /\ [Next]_vars => PricesInScale'
    <2> SUFFICES ASSUME TypeOK, PricesInScale, [Next]_vars PROVE PricesInScale'
      OBVIOUS
    <2>1. ASSUME NEW price \in FillPrices, price > 0, price <= PRECISION,
                 markPrice' = NextMark(price), indexPrice' = indexPrice
          PROVE  PricesInScale'
      BY <2>1, NextMarkBounds DEF PricesInScale, MarkInRange
    <2>2. CASE UNCHANGED markPrice /\ indexPrice' \in IndexPrices
      BY <2>2 DEF PricesInScale, MarkInRange
    <2> QED
      BY <2>1, <2>2, MarkFrame DEF PricesInScale, MarkInRange
  <1>3. PricesInScale => MarkInRange
    BY DEF PricesInScale
  <1> QED
    BY <1>1, <1>2, <1>3, TypeCorrect, PTL DEF Spec

-----------------------------------------------------------------------------
(* Funding from the moment a position is changed.                          *)

\* Settling leaves the size, and dates a position that has one.
LEMMA SettledDates ==
  ASSUME NEW a \in AccountType, NEW index \in 0 .. WORD - 1
  PROVE  LET s == Settled(a, index)
         IN  /\ s.pos.size = a.pos.size
             /\ s.pos.size # 0 => s.pos.lastFundingIndex = index
  BY DEF Settled, AccountType, Position

\* A position that a side leaves behind is dated with the index of its fill.
LEMMA SideDates ==
  ASSUME TypeOK, FundingFits, NEW t \in Traders, NEW isLong \in BOOLEAN,
         NEW price \in Nat, NEW size \in Nat
  PROVE  AfterSide(t, isLong, price, size).pos.lastFundingIndex = NextFundingIndex
  <1> DEFINE s == Settled(Account(t), NextFundingIndex)
             m == Moved(s, isLong, price, size, NextFundingIndex)
  <1>1. NextFundingIndex \in 0 .. WORD - 1
    BY FundingType
  <1>2. s \in AccountType /\ (s.pos.size # 0 => s.pos.lastFundingIndex = NextFundingIndex)
    BY <1>1, AccountIsTyped, SettledType, SettledDates
  <1> HIDE DEF s
  <1>3. /\ Opened(isLong, price, size, NextFundingIndex).lastFundingIndex
             = NextFundingIndex
        /\ s.pos.size # 0 =>
             /\ Added(s.pos, price, size).lastFundingIndex = NextFundingIndex
             /\ Crossed(s.pos, isLong, price, size, NextFundingIndex).lastFundingIndex
                  = NextFundingIndex
    BY <1>2 DEF Opened, Added, Crossed, AccountType, Position
  <1>4. m.pos.lastFundingIndex = NextFundingIndex
    BY <1>2, <1>3 DEF Moved, AccountType
  <1> QED
    BY <1>4 DEF AfterSide, s

\* What AccruesFromChange asks of a step.
DatedIfChanged ==
  \A t \in Traders :
    positions'[t].size # positions[t].size /\ positions'[t].size > 0
      => positions'[t].lastFundingIndex = fundingIndex'

\* Both sides of a fill are dated.
LEMMA SubmitFillDates ==
  ASSUME TypeOK, NEW taker \in Traders, NEW price \in FillPrices,
         NEW offered \in FillSizes, NEW o \in Orders,
         SubmitFill(taker, price, offered, o)
  PROVE  DatedIfChanged
  <1> DEFINE size == FillSize(o, offered)
             took == AfterSide(taker, ~o.isLong, price, size).pos
             made == AfterSide(o.maker, o.isLong, price, size).pos
  <1>1. FundingFits /\ price \in Nat /\ offered \in Nat /\ (~o.isLong) \in BOOLEAN
          /\ o.isLong \in BOOLEAN /\ o.maker \in Traders
    BY KeyType DEF SubmitFill, AdvanceFunding
  <1>2. size \in Nat
    BY FillSizeNat DEF SubmitFill, ValidFill
  <1> HIDE DEF size
  <1>3. took.lastFundingIndex = NextFundingIndex
    <2>1. PICK side \in BOOLEAN : side = ~o.isLong
      BY <1>1
    <2>2. AfterSide(taker, side, price, size).pos.lastFundingIndex = NextFundingIndex
      BY <1>1, <1>2, SideDates
    <2> QED
      BY <2>1, <2>2
  <1>4. made.lastFundingIndex = NextFundingIndex
    BY <1>1, <1>2, SideDates
  <1>5. fundingIndex' = NextFundingIndex
    BY DEF SubmitFill, AdvanceFunding
  <1>6. positions' = [positions EXCEPT ![taker] = took, ![o.maker] = made]
    BY DEF SubmitFill, size
  <1> HIDE DEF took, made
  <1> QED
    BY <1>1, <1>3, <1>4, <1>5, <1>6 DEF DatedIfChanged, TypeOK

\* What a liquidation leaves of a position is dated by its settling.
LEMMA LiquidateDates ==
  ASSUME TypeOK, NEW l \in Traders, NEW t \in Traders, Liquidate(l, t)
  PROVE  DatedIfChanged
  <1> DEFINE s == Settled(Account(t), NextFundingIndex)
             left == IF LiquidationSize(s.pos) >= s.pos.size THEN NoPosition
                     ELSE [s.pos EXCEPT !.size = @ - LiquidationSize(s.pos)]
  <1>1. FundingFits /\ fundingIndex' = NextFundingIndex
    BY DEF Liquidate, AdvanceFunding
  <1>2. NextFundingIndex \in 0 .. WORD - 1
    BY <1>1, FundingType
  <1>3. s \in AccountType /\ (s.pos.size # 0 => s.pos.lastFundingIndex = NextFundingIndex)
    BY <1>2, AccountIsTyped, SettledType, SettledDates
  <1>4. s.pos.size > 0 /\ positions' = [positions EXCEPT ![t] = left]
    BY DEF Liquidate
  <1> HIDE DEF s
  <1>5. left.size > 0 => left.lastFundingIndex = NextFundingIndex
    BY <1>3, <1>4 DEF NoPosition, AccountType, Position
  <1> HIDE DEF left
  <1> QED
    BY <1>1, <1>4, <1>5 DEF DatedIfChanged, TypeOK

\* Every other transaction leaves the sizes alone or clears a position.
LEMMA OtherDates ==
  ASSUME TypeOK, [Next]_vars,
         ~ \E taker \in Traders, price \in FillPrices, size \in FillSizes,
              o \in Orders : SubmitFill(taker, price, size, o),
         ~ \E l, t \in Traders : Liquidate(l, t)
  PROVE  DatedIfChanged
  <1>1. ASSUME NEW t \in Traders, NEW amount \in Amounts, Withdraw(t, amount)
        PROVE  DatedIfChanged
    <2>1. NextFundingIndex \in 0 .. WORD - 1
      BY <1>1, FundingType DEF Withdraw, AdvanceFunding
    <2>2. Settled(Account(t), NextFundingIndex).pos.size = positions[t].size
      BY <2>1, AccountIsTyped, SettledDates DEF Account
    <2> QED
      BY <1>1, <2>2 DEF Withdraw, DatedIfChanged, TypeOK
  <1>2. ASSUME NEW t \in Traders, SettleAndWithdraw(t)
        PROVE  DatedIfChanged
    BY <1>2 DEF SettleAndWithdraw, NoPosition, DatedIfChanged, TypeOK
  <1>3. CASE UNCHANGED positions
    BY <1>3 DEF DatedIfChanged
  <1>4. \/ UNCHANGED positions
        \/ \E t \in Traders, amount \in Amounts : Withdraw(t, amount)
        \/ \E t \in Traders : SettleAndWithdraw(t)
    BY DEF Next, vars, UserStep, FactoryStep, Deposit, CancelOrder,
       UpdateFunding, SetIndexPrice, SetMarkMicrostructure, SetCloseOnly,
       SetFundingRateCaps, SetMaxLiquidationSizeBps, Resolve, Tick, accounts
  <1> QED
    BY <1>1, <1>2, <1>3, <1>4

\* A position accrues funding from the step that opened it, added to it or
\* reduced it: nobody pays or is paid for a time before.
THEOREM FundingFromTheChange == Spec => AccruesFromChange
  <1>1. TypeOK /\ [Next]_vars => [DatedIfChanged]_vars
    BY SubmitFillDates, LiquidateDates, OtherDates
  <1> QED
    BY <1>1, TypeCorrect, PTL DEF Spec, AccruesFromChange, DatedIfChanged

-----------------------------------------------------------------------------
(* Open interest.  A position counts with its sign; a fill adds to one      *)
(* trader what it takes from the other, so that the signed sizes add up to  *)
(* zero.  Liquidation alone breaks this, and is out of reach without a      *)
(* maintenance margin.                                                      *)

\* The size of a position, negative when it is short.
Signed(pos) == IF pos.isLong THEN pos.size ELSE -pos.size
SignedSizes == [t \in Traders |-> Signed(positions[t])]

\* The two sides are equal when the signed sizes add up to zero.
LEMMA SignedSum ==
  ASSUME TypeOK
  PROVE  Total(SignedSizes) = 0 <=> Balanced
  <1> DEFINE long == [t \in Traders |-> OnSide(positions[t], TRUE)]
             short == [t \in Traders |-> OnSide(positions[t], FALSE)]
  <1>1. \A t \in Traders : /\ short[t] \in Int /\ SignedSizes[t] \in Int
                           /\ long[t] \in Int
                           /\ long[t] = short[t] + SignedSizes[t]
    BY DEF TypeOK, Position, OnSide, SignedSizes, Signed
  <1>2. OpenInterest(TRUE) = SumFunctionOnSet(long, Traders)
        /\ OpenInterest(FALSE) = SumFunctionOnSet(short, Traders)
    BY DEF OpenInterest, Total
  <1>3. IsFiniteSet(Traders)
    BY TradersAssumption
  <1> HIDE DEF long, short
  <1>4. SumFunctionOnSet(long, Traders)
          = SumFunctionOnSet(short, Traders) + SumFunctionOnSet(SignedSizes, Traders)
    BY <1>1, <1>3, SumPlus
  <1>5. /\ SumFunctionOnSet(long, Traders) \in Int
        /\ SumFunctionOnSet(short, Traders) \in Int
        /\ SumFunctionOnSet(SignedSizes, Traders) \in Int
    BY <1>1, <1>3, SumType
  <1>6. Total(SignedSizes) = 0 <=>
          SumFunctionOnSet(long, Traders) = SumFunctionOnSet(short, Traders)
    BY <1>4, <1>5 DEF Total
  <1> QED
    BY <1>2, <1>6 DEF Balanced

\* Settling funding does not change the size.
LEMMA SettledKeepsSize ==
  ASSUME NEW a \in AccountType, NEW index \in 0 .. WORD - 1
  PROVE  Signed(Settled(a, index).pos) = Signed(a.pos)
  BY DEF Settled, Signed, AccountType, Position

\* Opening, adding, reducing and flipping all add the signed size of the fill.
LEMMA MovedAddsSize ==
  ASSUME NEW a \in AccountType, NEW isLong \in BOOLEAN, NEW price \in Nat,
         NEW size \in Nat, NEW index \in 0 .. WORD - 1
  PROVE  Signed(Moved(a, isLong, price, size, index).pos)
           = Signed(a.pos) + (IF isLong THEN size ELSE -size)
  <1>1. a.pos \in Position /\ a.pos.size \in Nat /\ a.pos.isLong \in BOOLEAN
    BY DEF AccountType, Position
  <1>2. CASE a.pos.size = 0
    <2>1. Moved(a, isLong, price, size, index).pos = Opened(isLong, price, size, index)
      BY <1>2 DEF Moved, AccountType
    <2> QED
      BY <1>1, <1>2, <2>1 DEF Signed, Opened
  <1>3. CASE a.pos.size # 0 /\ a.pos.isLong = isLong
    <2>1. Moved(a, isLong, price, size, index).pos = Added(a.pos, price, size)
      BY <1>3 DEF Moved, AccountType
    <2>2. Added(a.pos, price, size).size = a.pos.size + size
          /\ Added(a.pos, price, size).isLong = isLong
      BY <1>1, <1>3 DEF Added, Position
    <2> QED
      BY <1>1, <1>3, <2>1, <2>2 DEF Signed
  <1>4. CASE a.pos.size # 0 /\ a.pos.isLong # isLong
    <2>1. Moved(a, isLong, price, size, index).pos
            = Crossed(a.pos, isLong, price, size, index)
      BY <1>4 DEF Moved
    <2>2. CASE size >= a.pos.size
      BY <1>1, <1>4, <2>1, <2>2 DEF Crossed, Opened, Signed
    <2>3. CASE ~(size >= a.pos.size)
      <3>1. Crossed(a.pos, isLong, price, size, index).size = a.pos.size - size
            /\ Crossed(a.pos, isLong, price, size, index).isLong = a.pos.isLong
        BY <1>1, <2>3 DEF Crossed, Position
      <3> QED
        BY <1>1, <1>4, <2>1, <3>1 DEF Signed
    <2> QED
      BY <2>2, <2>3
  <1> QED
    BY <1>2, <1>3, <1>4

\* One side of a fill gains the signed size.
LEMMA AfterSideAddsSize ==
  ASSUME TypeOK, FundingFits, NEW t \in Traders, NEW isLong \in BOOLEAN,
         NEW price \in Nat, NEW size \in Nat
  PROVE  /\ AfterSide(t, isLong, price, size).pos \in Position
         /\ Signed(AfterSide(t, isLong, price, size).pos)
              = Signed(positions[t]) + (IF isLong THEN size ELSE -size)
  <1> DEFINE s == Settled(Account(t), NextFundingIndex)
  <1>1. NextFundingIndex \in 0 .. WORD - 1
    BY FundingType
  <1>2. Account(t) \in AccountType /\ Account(t).pos = positions[t]
    BY AccountIsTyped DEF Account
  <1>3. s \in AccountType /\ Signed(s.pos) = Signed(positions[t])
    BY <1>1, <1>2, SettledType, SettledKeepsSize
  <1> HIDE DEF s
  <1>4. Moved(s, isLong, price, size, NextFundingIndex) \in AccountType
    BY <1>1, <1>3, MovedType
  <1> QED
    BY <1>1, <1>3, <1>4, MovedAddsSize DEF AfterSide, AccountType, s

\* Without a maintenance margin nobody can be liquidated.
LEMMA NoLiquidation ==
  ASSUME TypeOK, Params.maintenanceMarginBps = 0,
         NEW l \in Traders, NEW t \in Traders, Liquidate(l, t)
  PROVE  FALSE
  <1> DEFINE s == Settled(Account(t), NextFundingIndex)
  <1>1. NextFundingIndex \in 0 .. WORD - 1
    BY FundingType DEF Liquidate, AdvanceFunding
  <1>2. s.col \in Int /\ s.pos \in Position
    BY <1>1, AccountIsTyped, SettledType DEF AccountType
  <1>3. Equity(s, markPrice) < Maintenance(s)
    BY DEF Liquidate
  <1> HIDE DEF s
  <1>4. s.pos.size * s.pos.entryPrice \in Nat
    BY <1>2, MulNat DEF Position
  <1>5. Maintenance(s) = 0 \div (PRECISION * BPS)
    BY <1>4 DEF Maintenance, MarginRequired
  <1>6. PRECISION * BPS \in Nat \ {0}
    BY DEF BPS
  <1>7. Maintenance(s) = 0
    BY <1>5, <1>6
  <1>8. Pnl(s.pos.size, s.pos.entryPrice, markPrice, s.pos.isLong) \in Int
    BY <1>2, PnlInt DEF Position, TypeOK
  <1>9. Equity(s, markPrice) >= 0
    BY <1>2, <1>8 DEF Equity
  <1>10. Equity(s, markPrice) \in Int
    BY <1>2, <1>8 DEF Equity
  <1> QED
    BY <1>3, <1>7, <1>9, <1>10

\* The steps of an unresolved market that leave every signed size alone.
LEMMA OtherKeepsSizes ==
  ASSUME TypeOK, ~resolved, Params.maintenanceMarginBps = 0, [Next]_vars
  PROVE  \/ \A t \in Traders : Signed(positions'[t]) = Signed(positions[t])
         \/ \E taker \in Traders, price \in FillPrices, size \in FillSizes,
               o \in Orders : SubmitFill(taker, price, size, o)
  <1> DEFINE Same == \A t \in Traders : Signed(positions'[t]) = Signed(positions[t])
  <1>1. ASSUME NEW t \in Traders, NEW amount \in Amounts, Withdraw(t, amount)
        PROVE  Same
    <2>1. NextFundingIndex \in 0 .. WORD - 1
      BY <1>1, FundingType DEF Withdraw, AdvanceFunding
    <2>2. Signed(Settled(Account(t), NextFundingIndex).pos) = Signed(positions[t])
      BY <2>1, AccountIsTyped, SettledKeepsSize DEF Account
    <2>3. positions' = [positions EXCEPT ![t] =
                          Settled(Account(t), NextFundingIndex).pos]
      BY <1>1 DEF Withdraw
    <2> QED
      BY <2>2, <2>3 DEF TypeOK
  <1>2. ASSUME NEW t \in Traders, SettleAndWithdraw(t) PROVE FALSE
    BY <1>2 DEF SettleAndWithdraw
  <1>3. ASSUME UNCHANGED positions PROVE Same
    BY <1>3
  <1>4. ASSUME NEW t \in Traders, NEW amount \in Amounts, Deposit(t, amount)
        PROVE  UNCHANGED positions
    BY <1>4 DEF Deposit
  <1>5. ASSUME NEW k \in Keys, CancelOrder(k) PROVE UNCHANGED positions
    BY <1>5 DEF CancelOrder, accounts
  <1>6. UpdateFunding \/ Tick \/ UNCHANGED vars => UNCHANGED positions
    BY DEF UpdateFunding, Tick, vars, accounts
  <1>7. FactoryStep => UNCHANGED positions
    BY DEF FactoryStep, SetIndexPrice, SetMarkMicrostructure, SetCloseOnly,
       SetFundingRateCaps, SetMaxLiquidationSizeBps, Resolve, accounts
  <1> HIDE DEF Same
  <1>8. CASE UserStep
    BY <1>1, <1>2, <1>3, <1>4, <1>5, <1>6, <1>8, NoLiquidation DEF UserStep, Same
  <1> QED
    BY <1>3, <1>6, <1>7, <1>8 DEF Next, Same

\* A fill moves its size from one side of the book to the other.
LEMMA FillKeepsBalance ==
  ASSUME TypeOK, NEW taker \in Traders, NEW price \in FillPrices,
         NEW offered \in FillSizes, NEW o \in Orders,
         SubmitFill(taker, price, offered, o)
  PROVE  Transfer(SignedSizes, SignedSizes', taker, o.maker, Traders)
  <1>0. PICK side \in BOOLEAN : side = ~o.isLong /\ (side <=> ~o.isLong)
    OBVIOUS
  <1> DEFINE size == FillSize(o, offered)
             took == AfterSide(taker, side, price, size)
             made == AfterSide(o.maker, o.isLong, price, size)
  <1>1. /\ FundingFits /\ price \in Nat /\ offered \in Nat
        /\ o.isLong \in BOOLEAN /\ o.maker \in Traders
        /\ taker # o.maker
    BY KeyType DEF SubmitFill, AdvanceFunding, ValidFill
  <1>2. size \in Nat
    BY FillSizeNat DEF SubmitFill, ValidFill
  <1>3. positions' = [positions EXCEPT ![taker] = took.pos, ![o.maker] = made.pos]
    BY <1>0 DEF SubmitFill
  <1> HIDE DEF size
  <1>4. /\ took.pos \in Position
        /\ Signed(took.pos) = Signed(positions[taker])
                                + (IF side THEN size ELSE -size)
    BY <1>1, <1>2, AfterSideAddsSize
  <1>5. /\ made.pos \in Position
        /\ Signed(made.pos) = Signed(positions[o.maker])
                                + (IF o.isLong THEN size ELSE -size)
    BY <1>1, <1>2, AfterSideAddsSize
  <1> HIDE DEF took, made
  <1>6. positions \in [Traders -> Position] /\ positions' \in [Traders -> Position]
    BY <1>3, <1>4, <1>5 DEF TypeOK
  <1>7. \A pos \in Position : Signed(pos) \in Int
    BY DEF Signed, Position
  <1>8. /\ positions'[taker] = took.pos /\ positions'[o.maker] = made.pos
        /\ \A t \in Traders : t # taker /\ t # o.maker => positions'[t] = positions[t]
    BY <1>1, <1>3, <1>6
  <1>9. /\ \A t \in Traders : SignedSizes[t] = Signed(positions[t])
        /\ \A t \in Traders : SignedSizes'[t] = Signed(positions'[t])
    BY DEF SignedSizes
  <1>10. Signed(took.pos) + Signed(made.pos)
           = Signed(positions[taker]) + Signed(positions[o.maker])
    <2>1. /\ Signed(positions[taker]) \in Int /\ Signed(positions[o.maker]) \in Int
          /\ Signed(took.pos) \in Int /\ Signed(made.pos) \in Int
      BY <1>1, <1>4, <1>5, <1>6, <1>7
    <2>2. CASE o.isLong
      BY <1>0, <1>2, <1>4, <1>5, <2>1, <2>2
    <2>3. CASE ~o.isLong
      BY <1>0, <1>2, <1>4, <1>5, <2>1, <2>3
    <2> QED
      BY <2>2, <2>3
  <1> QED
    BY <1>1, <1>6, <1>7, <1>8, <1>9, <1>10 DEF Transfer

\* The inductive form of OIBalanced.
Flat == ~resolved => Total(SignedSizes) = 0

\* However fills open, average, reduce and flip positions and funding is settled
\* between them, the signed sizes add up to zero: without a maintenance margin
\* nobody is liquidated.
LEMMA FlatBook ==
  ASSUME Params.maintenanceMarginBps = 0
  PROVE  Spec => []Flat
  <1>1. Init => Flat
    <2>1. ASSUME Init PROVE \A t \in Traders : SignedSizes[t] = 0
      <3>1. Signed(NoPosition) = 0
        <4>1. NoPosition \in Position /\ NoPosition.size = 0
          BY NoPositionType DEF NoPosition
        <4>2. Signed(NoPosition) \in {NoPosition.size, -NoPosition.size}
          BY DEF Signed
        <4>3. \A n \in Nat : -n \in Int /\ n + (-n) = 0
          OBVIOUS
        <4> QED
          BY <4>1, <4>2, <4>3 DEF Position
      <3>2. \A t \in Traders : positions[t] = NoPosition
        BY <2>1 DEF Init
      <3> QED
        BY <3>1, <3>2 DEF SignedSizes
    <2> QED
      BY <2>1, SumZero, TradersAssumption DEF Total, Flat
  <1>2. TypeOK /\ TypeOK' /\ Flat /\ [Next]_vars => Flat'
    <2> SUFFICES ASSUME TypeOK, TypeOK', Flat, [Next]_vars, ~resolved'
                 PROVE  Total(SignedSizes') = 0
      BY DEF Total, Flat
    <2>1. ~resolved
      <3>1. CASE UserStep
        <4>1. UNCHANGED phase
          <5>1. \A taker \in Traders, price \in FillPrices, size \in FillSizes,
                   o \in Orders : SubmitFill(taker, price, size, o) => UNCHANGED phase
            BY DEF SubmitFill
          <5>2. \A l, t \in Traders : Liquidate(l, t) => UNCHANGED phase
            BY DEF Liquidate
          <5>3. \A t \in Traders : SettleAndWithdraw(t) => UNCHANGED phase
            BY DEF SettleAndWithdraw
          <5>4. UpdateFunding => UNCHANGED phase
            BY DEF UpdateFunding
          <5>5. \A t \in Traders, amount \in Amounts :
                  Deposit(t, amount) \/ Withdraw(t, amount) => UNCHANGED phase
            BY DEF Deposit, Withdraw
          <5>6. \A k \in Keys : CancelOrder(k) => UNCHANGED phase
            BY DEF CancelOrder
          <5> QED
            BY <3>1, <5>1, <5>2, <5>3, <5>4, <5>5, <5>6 DEF UserStep
        <4> QED
          BY <4>1 DEF phase
      <3>2. CASE FactoryStep
        BY <3>2 DEF FactoryStep, SetIndexPrice, SetMarkMicrostructure, SetCloseOnly,
           SetFundingRateCaps, SetMaxLiquidationSizeBps, Resolve, phase
      <3>3. CASE Tick \/ UNCHANGED vars
        BY <3>3 DEF Tick, phase, vars
      <3> QED
        BY <3>1, <3>2, <3>3 DEF Next
    <2>2. ASSUME \A t \in Traders : Signed(positions'[t]) = Signed(positions[t])
          PROVE  SignedSizes' = SignedSizes
      BY <2>2 DEF SignedSizes
    <2>3. ASSUME NEW taker \in Traders, NEW price \in FillPrices,
                 NEW size \in FillSizes, NEW o \in Orders,
                 SubmitFill(taker, price, size, o)
          PROVE  Total(SignedSizes') = Total(SignedSizes)
      BY <2>3, FillKeepsBalance, SumTransfer, TradersAssumption DEF Total
    <2> QED
      BY <2>1, <2>2, <2>3, OtherKeepsSizes DEF Flat
  <1> QED
    BY <1>1, <1>2, TypeCorrect, PTL DEF Spec

\* In a market without a maintenance margin, as the factory creates it, every
\* long is somebody's short until the market is resolved.
THEOREM OpenInterestBalanced ==
  ASSUME Params.maintenanceMarginBps = 0
  PROVE  Spec => []OIBalanced
  <1>1. TypeOK /\ Flat => OIBalanced
    <2> SUFFICES ASSUME TypeOK, Flat, ~resolved
                 PROVE  Balanced
      BY DEF OIBalanced
    <2>1. Total(SignedSizes) = 0
      BY DEF Flat
    <2> QED
      BY <2>1, SignedSum
  <1> QED
    BY <1>1, FlatBook, TypeCorrect, PTL

-----------------------------------------------------------------------------
(* Value.  Every transaction is a funding step, which shifts value between  *)
(* the two sides, followed by what it does to one or two accounts.  Each    *)
(* division loses less than a token, so an account moves by what the        *)
(* transaction moves for it, up to the dust of Truncated.                   *)

\* The funding a position has yet to pay or receive when the index reads f.
Carry(pos, f) ==
  IF pos.isLong THEN -(pos.size * (f - AsSigned(pos.lastFundingIndex)))
                ELSE pos.size * (f - AsSigned(pos.lastFundingIndex))

\* What an account is worth at exit price m, in units of 1/PRECISION.
Worth(a, m, f) == PRECISION * a.col + Gain(a.pos, m) + Carry(a.pos, f)

Within(x, b) == -b <= x /\ x <= b

\* The two parts of Truncated; the first as two positions show it.
FundingDust(old, new) ==
  IF new.lastFundingIndex # old.lastFundingIndex THEN PRECISION - 1 ELSE 0
TradeDust(old, new) ==
  LET turned == new.isLong # old.isLong
  IN  (IF new.size < old.size \/ turned THEN PRECISION - 1 ELSE 0)
        + (IF new.size > old.size /\ old.size > 0 /\ ~turned THEN new.size - 1
                                                             ELSE 0)

PaidDust(old, new, index) ==
  IF new # old /\ old.lastFundingIndex # index THEN PRECISION - 1 ELSE 0

\* The dust is a natural number.
LEMMA DustNat ==
  ASSUME NEW old \in Position, NEW new \in Position, NEW index
  PROVE  /\ FundingDust(old, new) \in Nat /\ TradeDust(old, new) \in Nat
         /\ PaidDust(old, new, index) \in Nat
         /\ Truncated(old, new, index) = PaidDust(old, new, index) + TradeDust(old, new)
         /\ Truncated(old, new, index) \in Nat
  <1>1. old.size \in Nat /\ new.size \in Nat
    BY DEF Position
  <1>2. FundingDust(old, new) \in Nat /\ PaidDust(old, new, index) \in Nat
    BY DEF FundingDust, PaidDust
  <1> DEFINE x == IF new.size < old.size \/ new.isLong # old.isLong
                    THEN PRECISION - 1 ELSE 0
             y == IF new.size > old.size /\ old.size > 0 /\ ~(new.isLong # old.isLong)
                    THEN new.size - 1 ELSE 0
  <1>3. x \in Nat /\ y \in Nat
    BY <1>1
  <1>4. /\ TradeDust(old, new) = x + y
        /\ Truncated(old, new, index) = PaidDust(old, new, index) + x + y
    BY DEF TradeDust, Truncated, PaidDust
  <1> HIDE DEF x, y
  <1> QED
    BY <1>2, <1>3, <1>4

\* A position that is settled when it changes pays as Truncated says.
LEMMA PaidWhenSettled ==
  ASSUME NEW old \in Position, NEW new \in Position, NEW index,
         new = old \/ new.lastFundingIndex = index
  PROVE  FundingDust(old, new) <= PaidDust(old, new, index)
  BY DEF FundingDust, PaidDust, Position

\* The truncating division loses less than the divisor.
LEMMA TruncDivDust ==
  ASSUME NEW x \in Int, NEW d \in Nat \ {0}
  PROVE  /\ TruncDiv(x, d) \in Int
         /\ Within(d * TruncDiv(x, d) - x, d - 1)
  <1>1. \A y \in Nat : /\ y \div d \in Nat
                       /\ 0 <= y - d * (y \div d) /\ y - d * (y \div d) <= d - 1
    <2> TAKE y \in Nat
    <2>1. y \div d \in Nat
      OBVIOUS
    <2>2. d * (y \div d) <= y
      OBVIOUS
    <2>3. y < d * (y \div d) + d
      OBVIOUS
    <2> DEFINE z == d * (y \div d)
    <2>4. z \in Nat
      BY <2>1, MulNat
    <2> HIDE DEF z
    <2>5. z <= y /\ y < z + d
      BY <2>2, <2>3 DEF z
    <2>6. 0 <= y - z /\ y - z <= d - 1
      BY <2>4, <2>5
    <2> QED
      BY <2>1, <2>6 DEF z
  <1>2. CASE x >= 0
    <2>1. PICK q \in Nat : q = x \div d
      BY <1>1, <1>2
    <2>2. d * q \in Nat /\ 0 <= x - d * q /\ x - d * q <= d - 1
      BY <1>1, <1>2, <2>1, MulNat
    <2>3. TruncDiv(x, d) = q
      BY <1>2, <2>1 DEF TruncDiv
    <2> QED
      BY <2>2, <2>3 DEF Within
  <1>3. CASE x < 0
    <2>1. PICK y \in Nat : y = -x
      BY <1>3
    <2>2. PICK q \in Nat : q = y \div d
      BY <1>1
    <2>3. d * q \in Nat /\ 0 <= y - d * q /\ y - d * q <= d - 1
      BY <1>1, <2>2, MulNat
    <2>4. TruncDiv(x, d) = -q
      BY <1>3, <2>1, <2>2 DEF TruncDiv
    <2>5. d * (-q) = -(d * q)
      OBVIOUS
    <2>6. d * TruncDiv(x, d) = -(d * q)
      BY <2>4, <2>5
    <2> HIDE DEF Within
    <2>7. PICK z \in Nat : z = d * q
      BY <2>3
    <2>8. Within(-z - x, d - 1)
      BY <2>1, <2>3, <2>7 DEF Within
    <2> QED
      BY <2>4, <2>6, <2>7, <2>8
  <1> QED
    BY <1>2, <1>3

\* The parts of an account's worth are integers.
LEMMA WorthInt ==
  ASSUME NEW a \in AccountType, NEW m \in Nat, NEW f \in Int
  PROVE  /\ PRECISION * a.col \in Int
         /\ Gain(a.pos, m) \in Int /\ Carry(a.pos, f) \in Int
         /\ Worth(a, m, f) \in Int
  <1>1. /\ a.col \in Int /\ a.pos.size \in Nat /\ a.pos.entryPrice \in Nat
        /\ a.pos.isLong \in BOOLEAN /\ AsSigned(a.pos.lastFundingIndex) \in Int
    BY DEF AccountType, Position, AsSigned
  <1>2. PRECISION * a.col \in Int
    BY <1>1
  <1>3. Gain(a.pos, m) \in Int
    BY <1>1 DEF Gain
  <1>4. Carry(a.pos, f) \in Int
    <2>1. a.pos.size * (f - AsSigned(a.pos.lastFundingIndex)) \in Int
      BY <1>1
    <2> QED
      BY <2>1 DEF Carry
  <1> QED
    BY <1>2, <1>3, <1>4 DEF Worth


\* Settling pays what was due, up to one division.
LEMMA SettledWorth ==
  ASSUME NEW a \in AccountType, NEW index \in 0 .. WORD - 1, NEW m \in Nat,
         NEW f \in Int, f = AsSigned(index)
  PROVE  /\ Settled(a, index) \in AccountType
         /\ Settled(a, index).pos.size = a.pos.size
         /\ Settled(a, index).pos.entryPrice = a.pos.entryPrice
         /\ Settled(a, index).pos.isLong = a.pos.isLong
         /\ a.pos.size # 0 => Settled(a, index).pos.lastFundingIndex = index
         /\ a.pos.size = 0 => Settled(a, index) = a
         /\ Within(Worth(Settled(a, index), m, f) - Worth(a, m, f),
                   FundingDust(a.pos, Settled(a, index).pos))
  <1> DEFINE s == Settled(a, index)
             last == AsSigned(a.pos.lastFundingIndex)
             due == (f - last) * a.pos.size
             paid == TruncDiv(due, PRECISION)
  <1>1. /\ a.col \in Int /\ a.pos \in Position /\ a.pos.size \in Nat
        /\ a.pos.entryPrice \in Nat /\ a.pos.isLong \in BOOLEAN
        /\ a.pos.lastFundingIndex \in 0 .. WORD - 1 /\ last \in Int
    BY DEF AccountType, Position, AsSigned
  <1>2. s \in AccountType
    BY SettledType
  <1>3. due \in Int
    BY <1>1
  <1>4. paid \in Int /\ Within(PRECISION * paid - due, PRECISION - 1)
    BY <1>3, TruncDivDust
  <1>5. CASE a.pos.size = 0
    <2>1. s = a
      BY <1>5 DEF Settled
    <2>2. Worth(a, m, f) - Worth(a, m, f) = 0 /\ FundingDust(a.pos, a.pos) = 0
      BY WorthInt DEF FundingDust
    <2>3. Within(0, 0)
      BY DEF Within
    <2> QED
      BY <1>2, <1>5, <2>1, <2>2, <2>3
  <1>6. CASE a.pos.size # 0
    <2>1. s = [col |-> IF a.pos.isLong THEN a.col - paid ELSE a.col + paid,
               pos |-> [a.pos EXCEPT !.lastFundingIndex = index]]
      BY <1>6 DEF Settled
    <2>2. /\ s.pos.size = a.pos.size /\ s.pos.entryPrice = a.pos.entryPrice
          /\ s.pos.isLong = a.pos.isLong /\ s.pos.lastFundingIndex = index
      BY <1>1, <2>1 DEF Position
    <2>3. s.col = IF a.pos.isLong THEN a.col - paid ELSE a.col + paid
      BY <2>1
    <2>4. Gain(s.pos, m) = Gain(a.pos, m)
      BY <2>2 DEF Gain
    <2>5. Carry(s.pos, f) = 0
      <3>1. a.pos.size * (f - f) = 0 /\ -(a.pos.size * (f - f)) = 0
        BY <1>1
      <3> QED
        BY <2>2, <3>1 DEF Carry
    <2>6. Carry(a.pos, f) = IF a.pos.isLong THEN -due ELSE due
      <3>1. a.pos.size * (f - last) = due
        BY <1>1
      <3> QED
        BY <3>1 DEF Carry
    <2>7. PRECISION * s.col = IF a.pos.isLong THEN PRECISION * a.col - PRECISION * paid
                                              ELSE PRECISION * a.col + PRECISION * paid
      <3>1. /\ PRECISION * (a.col - paid) = PRECISION * a.col - PRECISION * paid
            /\ PRECISION * (a.col + paid) = PRECISION * a.col + PRECISION * paid
        BY <1>1, <1>4
      <3> QED
        BY <2>3, <3>1
    <2> DEFINE change == Worth(s, m, f) - Worth(a, m, f)
    <2>8. change = IF a.pos.isLong THEN due - PRECISION * paid
                                   ELSE PRECISION * paid - due
      <3> DEFINE p == PRECISION * paid
                 c == PRECISION * a.col
                 g == Gain(a.pos, m)
      <3>1. p \in Int /\ c \in Int /\ g \in Int
        BY <1>4, WorthInt
      <3> HIDE DEF p, c, g, due, paid
      <3>2. CASE a.pos.isLong
        BY <1>3, <2>4, <2>5, <2>6, <2>7, <3>1, <3>2 DEF Worth, p, c, g
      <3>3. CASE ~ a.pos.isLong
        BY <1>3, <2>4, <2>5, <2>6, <2>7, <3>1, <3>3 DEF Worth, p, c, g
      <3> QED
        BY <3>2, <3>3
    <2>9. Within(change, FundingDust(a.pos, s.pos))
      <3>1. CASE a.pos.lastFundingIndex = index
        <4>1. due = 0
          BY <1>1, <3>1
        <4>2. paid = 0
          BY <4>1, DivNat DEF TruncDiv
        <4>3. change = 0
          BY <2>8, <4>1, <4>2
        <4>4. FundingDust(a.pos, s.pos) = 0
          BY <2>2, <3>1 DEF FundingDust
        <4> HIDE DEF change
        <4> QED
          BY <4>3, <4>4 DEF Within
      <3>2. CASE a.pos.lastFundingIndex # index
        <4>1. FundingDust(a.pos, s.pos) = PRECISION - 1
          BY <2>2, <3>2 DEF FundingDust
        <4>2. PRECISION * paid \in Int
          BY <1>4
        <4> HIDE DEF change, due, paid
        <4> QED
          BY <1>3, <1>4, <2>8, <4>1, <4>2 DEF Within
      <3> QED
        BY <3>1, <3>2
    <2> QED
      BY <1>2, <1>6, <2>2, <2>9
  <1> QED
    BY <1>5, <1>6


\* What a position of `size` opened at `price` is worth at m.
Swing(isLong, size, price, m) ==
  IF isLong THEN size * (m - price) ELSE size * (price - m)

\* A position that owes no funding has none to carry.
LEMMA NoCarry ==
  ASSUME NEW pos \in Position, NEW f \in Int,
         pos.size = 0 \/ f = AsSigned(pos.lastFundingIndex)
  PROVE  Carry(pos, f) = 0
  <1>1. pos.size \in Nat /\ AsSigned(pos.lastFundingIndex) \in Int
    BY DEF Position, AsSigned
  <1>2. pos.size * (f - AsSigned(pos.lastFundingIndex)) = 0
    <2>1. CASE pos.size = 0
      BY <1>1, <2>1
    <2>2. CASE f = AsSigned(pos.lastFundingIndex)
      BY <1>1, <2>2
    <2> QED
      BY <2>1, <2>2
  <1>3. PICK x \in Int : x = pos.size * (f - AsSigned(pos.lastFundingIndex))
    BY <1>2
  <1>4. -x = 0 - x
    OBVIOUS
  <1>5. x = 0 /\ Carry(pos, f) \in {x, -x}
    BY <1>2, <1>3 DEF Carry
  <1> QED
    BY <1>4, <1>5

\* Averaging the entry loses the remainder of one division.
LEMMA AverageDust ==
  ASSUME NEW s \in Nat \ {0}, NEW z \in Nat, NEW e \in Nat, NEW p \in Nat
  PROVE  LET mean == (e * s + p * z) \div (s + z)
         IN  /\ mean \in Nat
             /\ Within(e * s + p * z - (s + z) * mean, IF z > 0 THEN s + z - 1 ELSE 0)
  <1> DEFINE cost == e * s + p * z
             n == s + z
             mean == cost \div n
  <1>1. cost \in Nat
    BY MulNat
  <1>2. n \in Nat \ {0}
    OBVIOUS
  <1>3. mean \in Nat /\ n * mean <= cost /\ cost < n * mean + n
    <2> HIDE DEF cost, n
    <2> QED
      BY <1>1, <1>2
  <1>4. n * mean \in Nat
    BY <1>2, <1>3, MulNat
  <1>5. CASE z > 0
    <2> HIDE DEF cost, mean
    <2> DEFINE w == n * mean
    <2>1. w \in Nat /\ w <= cost /\ cost < w + n
      BY <1>3, <1>4
    <2> HIDE DEF w
    <2>2. Within(cost - w, n - 1)
      BY <1>1, <1>2, <2>1 DEF Within
    <2> QED
      BY <1>3, <1>5, <2>2 DEF w, cost, mean
  <1>6. CASE z = 0
    <2>1. cost = s * e /\ n = s
      BY <1>6
    <2>2. \A g \in Nat : s * g <= s * e /\ s * e < s * g + s => g = e
      <3> SUFFICES ASSUME NEW g \in Nat, s * g <= s * e, s * e < s * g + s
                   PROVE  g = e
        OBVIOUS
      <3>1. CASE g > e
        <4>1. PICK d \in Nat : g = e + 1 + d
          BY <3>1, g - e - 1 \in Nat
        <4>2. s * g = s * e + s + s * d /\ s * d \in Nat /\ s * e \in Nat
          BY <4>1
        <4> QED
          BY <4>2
      <3>2. CASE g < e
        <4>1. PICK d \in Nat : e = g + 1 + d
          BY <3>2, e - g - 1 \in Nat
        <4>2. s * e = s * g + s + s * d /\ s * d \in Nat /\ s * g \in Nat
          BY <4>1
        <4> QED
          BY <4>2
      <3> QED
        BY <3>1, <3>2
    <2> HIDE DEF cost, mean, n
    <2>3. mean = e
      BY <1>3, <2>1, <2>2
    <2>4. cost - n * mean = 0
      BY <2>1, <2>3
    <2>5. Within(cost - n * mean, IF z > 0 THEN s + z - 1 ELSE 0)
      BY <1>6, <2>4 DEF Within
    <2> QED
      BY <1>3, <2>5 DEF cost, mean, n
  <1> QED
    BY <1>5, <1>6

\* A fill moves its swing, up to the division of what it closes or averages.
LEMMA MovedWorth ==
  ASSUME NEW a \in AccountType, NEW isLong \in BOOLEAN, NEW price \in Nat,
         NEW size \in Nat, NEW index \in 0 .. WORD - 1, NEW m \in Nat,
         NEW f \in Int, f = AsSigned(index),
         a.pos.size # 0 => a.pos.lastFundingIndex = index
  PROVE  LET n == Moved(a, isLong, price, size, index)
         IN  /\ n.pos.lastFundingIndex = index
             /\ Within(Worth(n, m, f) - Worth(a, m, f) - Swing(isLong, size, price, m),
                       TradeDust(a.pos, n.pos))
  <1> DEFINE pos == a.pos
             n == Moved(a, isLong, price, size, index)
             err == Worth(n, m, f) - Worth(a, m, f) - Swing(isLong, size, price, m)
  <1>1. /\ a.col \in Int /\ pos \in Position /\ pos.size \in Nat
        /\ pos.entryPrice \in Nat /\ pos.isLong \in BOOLEAN
        /\ PRECISION * a.col \in Int
    BY DEF AccountType, Position
  <1>2. n \in AccountType
    BY MovedType
  <1>3. n.pos \in Position /\ TradeDust(pos, n.pos) \in Nat
    BY <1>1, <1>2, DustNat DEF AccountType
  <1>4. Carry(pos, f) = 0
    BY <1>1, NoCarry
  <1>5. /\ Gain(pos, m) \in Int /\ Gain(n.pos, m) \in Int
        /\ PRECISION * n.col \in Int /\ Swing(isLong, size, price, m) \in Int
    <2>1. size * (m - price) \in Int /\ size * (price - m) \in Int
      OBVIOUS
    <2> HIDE DEF n
    <2> QED
      BY <1>2, <2>1, WorthInt DEF Swing
  <1>6. Gain(pos, m) = Swing(pos.isLong, pos.size, pos.entryPrice, m)
    BY DEF Gain, Swing
  <1>7. Gain(n.pos, m) = Swing(n.pos.isLong, n.pos.size, n.pos.entryPrice, m)
    BY DEF Gain, Swing
  <1>8. ASSUME n.pos.lastFundingIndex = index
        PROVE  err = PRECISION * n.col - PRECISION * a.col + Gain(n.pos, m)
                       - Gain(pos, m) - Swing(isLong, size, price, m)
    <2>1. Carry(n.pos, f) = 0
      BY <1>3, <1>8, NoCarry
    <2> DEFINE c == PRECISION * a.col
               d == PRECISION * n.col
               g == Gain(pos, m)
               h == Gain(n.pos, m)
               w == Swing(isLong, size, price, m)
    <2>2. c \in Int /\ d \in Int /\ g \in Int /\ h \in Int /\ w \in Int
      BY <1>1, <1>5
    <2>3. Worth(n, m, f) = d + h + 0 /\ Worth(a, m, f) = c + g + 0
      BY <1>4, <2>1 DEF Worth
    <2> HIDE DEF c, d, g, h, w, n
    <2>4. (d + h + 0) - (c + g + 0) - w = d - c + h - g - w
      BY <2>2
    <2>5. err = d - c + h - g - w
      BY <2>3, <2>4 DEF w
    <2> QED
      BY <2>5 DEF c, d, g, h, w
  <1>9. CASE pos.size = 0
    <2>1. n.pos = Opened(isLong, price, size, index) /\ n.col = a.col
      BY <1>9 DEF Moved, AccountType
    <2>2. n.pos.lastFundingIndex = index
      BY <2>1 DEF Opened
    <2>3. Gain(n.pos, m) = Swing(isLong, size, price, m)
      BY <1>7, <2>1 DEF Opened
    <2>4. Gain(pos, m) = 0
      BY <1>1, <1>6, <1>9 DEF Swing
    <2> HIDE DEF n, err
    <2>5. err = 0
      BY <1>1, <1>5, <1>8, <2>1, <2>2, <2>3, <2>4
    <2> QED
      BY <1>3, <2>2, <2>5 DEF Within, err, n
  <1>10. CASE pos.size # 0 /\ pos.isLong = isLong
    <2> DEFINE mean == (pos.entryPrice * pos.size + price * size) \div (pos.size + size)
    <2>1. n.pos = Added(pos, price, size) /\ n.col = a.col
      BY <1>10 DEF Moved, AccountType
    <2>2. /\ n.pos.size = pos.size + size /\ n.pos.isLong = pos.isLong
          /\ n.pos.lastFundingIndex = index /\ n.pos.entryPrice = mean
      BY <1>1, <1>10, <2>1 DEF Added, Position
    <2>3. /\ mean \in Nat
          /\ Within(pos.entryPrice * pos.size + price * size - (pos.size + size) * mean,
                    IF size > 0 THEN pos.size + size - 1 ELSE 0)
      BY <1>1, <1>10, AverageDust
    <2> HIDE DEF mean, n, err
    <2>4. err = Gain(n.pos, m) - Gain(pos, m) - Swing(isLong, size, price, m)
      BY <1>1, <1>5, <1>8, <2>1, <2>2
    <2> DEFINE rest == pos.entryPrice * pos.size + price * size - (pos.size + size) * mean
    <2>5. rest \in Int
      BY <1>1, <2>3
    <2>6. err = IF isLong THEN rest ELSE -rest
      <3>1. PICK s \in Int, e \in Int, g \in Int :
                   s = pos.size /\ e = pos.entryPrice /\ g = mean
        BY <1>1, <2>3
      <3>2. rest = e * s + price * size - (s + size) * g
        BY <3>1
      <3>3. err = Swing(isLong, s + size, g, m) - Swing(isLong, s, e, m)
                    - Swing(isLong, size, price, m)
        BY <1>6, <1>7, <1>10, <2>2, <2>4, <3>1
      <3>4. CASE isLong
        <4>1. (s + size) * (m - g) - s * (m - e) - size * (m - price)
                = e * s + price * size - (s + size) * g
          OBVIOUS
        <4> QED
          BY <3>2, <3>3, <3>4, <4>1 DEF Swing
      <3>5. CASE ~isLong
        <4>1. (s + size) * (g - m) - s * (e - m) - size * (price - m)
                = -(e * s + price * size - (s + size) * g)
          OBVIOUS
        <4> HIDE DEF rest
        <4> QED
          BY <3>2, <3>3, <3>5, <4>1 DEF Swing
      <3> QED
        BY <3>4, <3>5
    <2>7. TradeDust(pos, n.pos) = IF size > 0 THEN pos.size + size - 1 ELSE 0
      <3>1. CASE size > 0
        BY <1>1, <1>10, <2>2, <3>1 DEF TradeDust
      <3>2. CASE size = 0
        BY <1>1, <1>10, <2>2, <3>2 DEF TradeDust
      <3> QED
        BY <3>1, <3>2
    <2> DEFINE bound == TradeDust(pos, n.pos)
    <2>8. Within(rest, bound) /\ bound \in Nat
      BY <1>3, <2>3, <2>7
    <2> HIDE DEF rest, bound
    <2>9. Within(err, bound)
      BY <2>5, <2>6, <2>8 DEF Within
    <2> QED
      BY <2>2, <2>9 DEF bound, err, n
  <1>11. CASE pos.size # 0 /\ pos.isLong # isLong
    <2> DEFINE closed == IF size >= pos.size THEN pos.size ELSE size
               due == closed * (IF pos.isLong THEN price - pos.entryPrice
                                              ELSE pos.entryPrice - price)
               paid == TruncDiv(due, PRECISION)
    <2>1. n.pos = Crossed(pos, isLong, price, size, index) /\ n.col = a.col + paid
      BY <1>11 DEF Moved, Pnl
    <2>2. closed \in Nat
      BY <1>1
    <2>3. due \in Int
      BY <1>1, <2>2
    <2>4. paid \in Int /\ Within(PRECISION * paid - due, PRECISION - 1)
      BY <2>3, TruncDivDust
    <2> HIDE DEF paid
    <2>5. PRECISION * n.col = PRECISION * a.col + PRECISION * paid
          /\ PRECISION * paid \in Int
      BY <1>1, <2>1, <2>4
    <2>6. n.pos.lastFundingIndex = index
      BY <1>1, <1>11, <2>1 DEF Crossed, Opened, Position
    <2>7. Gain(n.pos, m) - Gain(pos, m) - Swing(isLong, size, price, m) = -due
      <3>1. CASE size >= pos.size
        <4>1. /\ n.pos.size = size - pos.size /\ n.pos.isLong = isLong
              /\ n.pos.entryPrice = price
          BY <2>1, <3>1 DEF Crossed, Opened
        <4>2. CASE isLong
          <5>1. (size - pos.size) * (m - price) - pos.size * (pos.entryPrice - m)
                  - size * (m - price) = -(pos.size * (pos.entryPrice - price))
            BY <1>1
          <5> QED
            BY <1>6, <1>7, <1>11, <3>1, <4>1, <4>2, <5>1 DEF Swing
        <4>3. CASE ~isLong
          <5>1. (size - pos.size) * (price - m) - pos.size * (m - pos.entryPrice)
                  - size * (price - m) = -(pos.size * (price - pos.entryPrice))
            BY <1>1
          <5> QED
            BY <1>1, <1>6, <1>7, <1>11, <3>1, <4>1, <4>3, <5>1 DEF Swing
        <4> QED
          BY <4>2, <4>3
      <3>2. CASE ~(size >= pos.size)
        <4>1. /\ n.pos.size = pos.size - size /\ n.pos.isLong = pos.isLong
              /\ n.pos.entryPrice = pos.entryPrice
          BY <1>1, <2>1, <3>2 DEF Crossed, Position
        <4>2. CASE isLong
          <5>1. (pos.size - size) * (pos.entryPrice - m) - pos.size * (pos.entryPrice - m)
                  - size * (m - price) = -(size * (pos.entryPrice - price))
            BY <1>1
          <5> QED
            BY <1>6, <1>7, <1>11, <3>2, <4>1, <4>2, <5>1 DEF Swing
        <4>3. CASE ~isLong
          <5>1. (pos.size - size) * (m - pos.entryPrice) - pos.size * (m - pos.entryPrice)
                  - size * (price - m) = -(size * (price - pos.entryPrice))
            BY <1>1
          <5> QED
            BY <1>1, <1>6, <1>7, <1>11, <3>2, <4>1, <4>3, <5>1 DEF Swing
        <4> QED
          BY <4>2, <4>3
      <3> QED
        BY <3>1, <3>2
    <2>8. err = PRECISION * paid - due
      <3> DEFINE c == PRECISION * a.col
                 d == PRECISION * n.col
                 p == PRECISION * paid
                 g == Gain(pos, m)
                 h == Gain(n.pos, m)
                 w == Swing(isLong, size, price, m)
      <3>1. c \in Int /\ d \in Int /\ p \in Int /\ g \in Int /\ h \in Int /\ w \in Int
        BY <1>1, <1>5, <2>5
      <3>2. d = c + p /\ h - g - w = -due
        BY <2>5, <2>7
      <3>3. err = d - c + h - g - w
        BY <1>8, <2>6
      <3> HIDE DEF c, d, p, g, h, w, due, err
      <3>4. err = p - due
        BY <2>3, <3>1, <3>2, <3>3
      <3> QED
        BY <3>4 DEF p
    <2>9. TradeDust(pos, n.pos) = IF size > 0 THEN PRECISION - 1 ELSE 0
      <3>1. CASE size >= pos.size
        BY <1>1, <1>11, <2>1, <3>1 DEF Crossed, Opened, TradeDust
      <3>2. CASE ~(size >= pos.size)
        <4>1. n.pos.size = pos.size - size /\ n.pos.isLong = pos.isLong
          BY <1>1, <2>1, <3>2 DEF Crossed, Position
        <4> HIDE DEF n
        <4>2. CASE size > 0
          BY <1>1, <3>2, <4>1, <4>2 DEF TradeDust
        <4>3. CASE size = 0
          BY <1>1, <3>2, <4>1, <4>3 DEF TradeDust
        <4> QED
          BY <4>2, <4>3
      <3> QED
        BY <3>1, <3>2
    <2>10. CASE size > 0
      BY <2>4, <2>6, <2>8, <2>9, <2>10
    <2>11. CASE size = 0
      <3>1. closed = 0
        BY <1>1, <1>11, <2>11
      <3>2. due = 0
        BY <1>1, <3>1
      <3>3. paid = 0
        BY <3>2, DivNat DEF TruncDiv, paid
      <3>4. err = 0
        BY <2>8, <3>2, <3>3
      <3>5. TradeDust(pos, n.pos) = 0
        BY <2>9, <2>11
      <3> HIDE DEF err, n
      <3>6. Within(err, TradeDust(pos, n.pos))
        BY <3>4, <3>5 DEF Within
      <3> QED
        BY <2>6, <3>6 DEF err, n
    <2> QED
      BY <2>10, <2>11
  <1> QED
    BY <1>9, <1>10, <1>11


\* An index read as signed is an integer.
LEMMA SignedInt == ASSUME NEW w \in 0 .. WORD - 1 PROVE AsSigned(w) \in Int
  BY DEF AsSigned

\* One side of a fill: funding is paid, then the fill moves its swing.
LEMMA AfterSideWorth ==
  ASSUME TypeOK, FundingFits, NEW t \in Traders, NEW isLong \in BOOLEAN,
         NEW price \in Nat, NEW size \in Nat, NEW m \in Nat,
         NEW f \in Int, f = AsSigned(NextFundingIndex)
  PROVE  LET after == AfterSide(t, isLong, price, size)
         IN  /\ after \in AccountType
             /\ Within(Worth(after, m, f) - Worth(Account(t), m, f)
                         - Swing(isLong, size, price, m),
                       Truncated(positions[t], after.pos, NextFundingIndex))
  <1>1. PICK index \in 0 .. WORD - 1 : index = NextFundingIndex
    BY FundingType
  <1>2. PICK a \in AccountType : a = Account(t) /\ a.pos = positions[t]
    BY AccountIsTyped DEF Account
  <1> DEFINE s == Settled(a, index)
             n == Moved(s, isLong, price, size, index)
  <1>3. /\ s \in AccountType
        /\ s.pos.size = a.pos.size /\ s.pos.isLong = a.pos.isLong
        /\ a.pos.size # 0 => s.pos.lastFundingIndex = index
        /\ a.pos.size = 0 => s = a
        /\ Within(Worth(s, m, f) - Worth(a, m, f), FundingDust(a.pos, s.pos))
    BY <1>1, SettledWorth
  <1> HIDE DEF s
  <1>4. /\ n.pos.lastFundingIndex = index
        /\ Within(Worth(n, m, f) - Worth(s, m, f) - Swing(isLong, size, price, m),
                  TradeDust(s.pos, n.pos))
    BY <1>1, <1>3, MovedWorth
  <1>5. n \in AccountType
    BY <1>3, MovedType
  <1> HIDE DEF n
  <1>6. a.pos \in Position /\ s.pos \in Position /\ n.pos \in Position
    BY <1>3, <1>5 DEF AccountType
  <1>7. TradeDust(s.pos, n.pos) = TradeDust(a.pos, n.pos)
    BY <1>3 DEF TradeDust
  <1>8. FundingDust(a.pos, s.pos) <= FundingDust(a.pos, n.pos)
    <2>1. CASE a.pos.size = 0
      BY <1>3, <1>6, <2>1, DustNat DEF FundingDust
    <2>2. CASE a.pos.size # 0
      BY <1>3, <1>4, <2>2 DEF FundingDust
    <2> QED
      BY <2>1, <2>2
  <1>9. /\ FundingDust(a.pos, s.pos) \in Nat /\ FundingDust(a.pos, n.pos) \in Nat
        /\ PaidDust(a.pos, n.pos, index) \in Nat /\ TradeDust(a.pos, n.pos) \in Nat
        /\ FundingDust(a.pos, n.pos) <= PaidDust(a.pos, n.pos, index)
        /\ Truncated(a.pos, n.pos, index)
             = PaidDust(a.pos, n.pos, index) + TradeDust(a.pos, n.pos)
    BY <1>4, <1>6, DustNat, PaidWhenSettled
  <1>10. /\ Worth(a, m, f) \in Int /\ Worth(s, m, f) \in Int /\ Worth(n, m, f) \in Int
         /\ Swing(isLong, size, price, m) \in Int
    <2>1. size * (m - price) \in Int /\ size * (price - m) \in Int
      OBVIOUS
    <2> QED
      BY <1>3, <1>5, <2>1, WorthInt DEF Swing
  <1>11. Within(Worth(n, m, f) - Worth(a, m, f) - Swing(isLong, size, price, m),
                Truncated(a.pos, n.pos, index))
    <2> DEFINE wa == Worth(a, m, f)
               ws == Worth(s, m, f)
               wn == Worth(n, m, f)
               sw == Swing(isLong, size, price, m)
               fs == FundingDust(a.pos, s.pos)
               fn == FundingDust(a.pos, n.pos)
               pd == PaidDust(a.pos, n.pos, index)
               td == TradeDust(a.pos, n.pos)
    <2>1. Within(ws - wa, fs) /\ Within(wn - ws - sw, td) /\ fs <= fn /\ fn <= pd
      BY <1>3, <1>4, <1>7, <1>8, <1>9
    <2>2. /\ wa \in Int /\ ws \in Int /\ wn \in Int /\ sw \in Int
          /\ fs \in Nat /\ fn \in Nat /\ pd \in Nat /\ td \in Nat
          /\ Truncated(a.pos, n.pos, index) = pd + td
      BY <1>9, <1>10
    <2> HIDE DEF wa, ws, wn, sw, fs, fn, pd, td
    <2>3. Within(wn - wa - sw, Truncated(a.pos, n.pos, index))
      BY <2>1, <2>2 DEF Within
    <2> QED
      BY <2>3 DEF wn, wa, sw
  <1> QED
    BY <1>1, <1>2, <1>5, <1>11 DEF AfterSide, n, s

\* The accounts' worth, and the part of it that is not collateral.
WorthOf(col, pos, m, f) ==
  [t \in Traders |-> Worth([col |-> col[t], pos |-> pos[t]], m, f)]
OpenOf(pos, m, f) == [t \in Traders |-> Gain(pos[t], m) + Carry(pos[t], f)]

AccountsTyped(col, pos) == \A t \in Traders : col[t] \in Int /\ pos[t] \in Position

ClaimsAdd(col, pos, m, f, fund, owned) ==
  /\ PRECISION * (Total(col) + fund - owned) + Total(OpenOf(pos, m, f))
       = PRECISION * (fund - owned) + Total(WorthOf(col, pos, m, f))
  /\ Total(WorthOf(col, pos, m, f)) \in Int

\* The claims are the worth of the accounts, less the tokens that cover them.
LEMMA WorthSum ==
  ASSUME NEW col, NEW pos, AccountsTyped(col, pos),
         NEW m \in Nat, NEW f \in Int, NEW fund \in Int, NEW owned \in Int
  PROVE  ClaimsAdd(col, pos, m, f, fund, owned)
  <1> USE DEF AccountsTyped
  <1> DEFINE open == OpenOf(pos, m, f)
             worth == WorthOf(col, pos, m, f)
             scaled == [t \in Traders |-> PRECISION * col[t]]
  <1>1. ASSUME NEW t \in Traders
        PROVE  /\ scaled[t] \in Int /\ open[t] \in Int /\ worth[t] = scaled[t] + open[t]
    <2> DEFINE a == [col |-> col[t], pos |-> pos[t]]
    <2>1. a \in AccountType /\ a.col = col[t] /\ a.pos = pos[t]
      BY DEF AccountType
    <2>2. /\ PRECISION * a.col \in Int /\ Gain(a.pos, m) \in Int /\ Carry(a.pos, f) \in Int
          /\ worth[t] = PRECISION * a.col + Gain(a.pos, m) + Carry(a.pos, f)
      BY <2>1, WorthInt DEF Worth, WorthOf
    <2>3. scaled[t] = PRECISION * a.col /\ open[t] = Gain(a.pos, m) + Carry(a.pos, f)
      BY <2>1 DEF OpenOf
    <2> HIDE DEF a, worth, scaled, open
    <2> QED
      BY <2>2, <2>3
  <1>2. Multiple(col, scaled, PRECISION, Traders)
    BY DEF Multiple
  <1> HIDE DEF open, worth, scaled
  <1>3. Total(scaled) = PRECISION * Total(col)
    BY <1>2, SumScale, TradersAssumption DEF Total
  <1>4. Total(worth) = Total(scaled) + Total(open)
    BY <1>1, SumPlus, TradersAssumption DEF Total
  <1>5. Total(col) \in Int /\ Total(scaled) \in Int /\ Total(open) \in Int
    BY <1>1, SumType, TradersAssumption DEF Total
  <1>6. PRECISION * (Total(col) + fund - owned)
          = PRECISION * Total(col) + PRECISION * (fund - owned)
    BY <1>5
  <1>7. PRECISION * (fund - owned) \in Int
    OBVIOUS
  <1>8. /\ PRECISION * (Total(col) + fund - owned) + Total(open)
             = PRECISION * (fund - owned) + Total(worth)
        /\ Total(worth) \in Int
    BY <1>3, <1>4, <1>5, <1>6, <1>7
  <1> QED
    BY <1>8 DEF ClaimsAdd, open, worth

\* What the accounts are worth, before a step, before it at the funding index
\* from after it, and what the step moves between them.
Worths(m) == WorthOf(collateralBalance, positions, m, AsSigned(fundingIndex))
Shifted(m) == WorthOf(collateralBalance, positions, m, AsSigned(fundingIndex'))

\* The claims before and after a step are the worths of the accounts.
LEMMA ClaimsAsWorths ==
  ASSUME TypeOK, TypeOK', NEW m \in Nat
  PROVE  /\ Claims(m) = PRECISION * (insuranceFund - held) + Total(Worths(m))
         /\ Claims(m)' = PRECISION * (insuranceFund' - held') + Total(Worths(m)')
         /\ Total(Worths(m)) \in Int /\ Total(Worths(m)') \in Int
  <1>1. /\ Claims(m) = PRECISION * (insuranceFund - held) + Total(Worths(m))
        /\ Total(Worths(m)) \in Int
    <2>0. PICK col, pos : col = collateralBalance /\ pos = positions
      OBVIOUS
    <2>1. PICK f \in Int : f = AsSigned(fundingIndex)
      BY SignedInt DEF TypeOK
    <2>2. PICK fund \in Int, owned \in Int : fund = insuranceFund /\ owned = held
      BY DEF TypeOK
    <2>3. AccountsTyped(col, pos)
      BY <2>0 DEF TypeOK, AccountsTyped
    <2> DEFINE open == OpenOf(pos, m, f)
               worth == WorthOf(col, pos, m, f)
    <2>4. ClaimsAdd(col, pos, m, f, fund, owned)
      BY <2>3, WorthSum
    <2>5. worth = Worths(m)
      BY <2>0, <2>1 DEF Worths, WorthOf
    <2>6. Claims(m) = PRECISION * (Total(col) + fund - owned) + Total(open)
      BY <2>0, <2>1, <2>2 DEF Claims, Pending, Carry, OpenOf
    <2> QED
      BY <2>2, <2>4, <2>5, <2>6 DEF ClaimsAdd
  <1>2. /\ Claims(m)' = PRECISION * (insuranceFund' - held') + Total(Worths(m)')
        /\ Total(Worths(m)') \in Int
    <2>0. PICK col, pos : col = collateralBalance' /\ pos = positions'
      OBVIOUS
    <2>1. PICK f \in Int : f = AsSigned(fundingIndex')
      BY SignedInt DEF TypeOK
    <2>2. PICK fund \in Int, owned \in Int : fund = insuranceFund' /\ owned = held'
      BY DEF TypeOK
    <2>3. AccountsTyped(col, pos)
      BY <2>0 DEF TypeOK, AccountsTyped
    <2> DEFINE open == OpenOf(pos, m, f)
               worth == WorthOf(col, pos, m, f)
    <2>4. ClaimsAdd(col, pos, m, f, fund, owned)
      BY <2>3, WorthSum
    <2>5. worth = Worths(m)'
      BY <2>0, <2>1 DEF Worths, WorthOf
    <2>6. Claims(m)' = PRECISION * (Total(col) + fund - owned) + Total(open)
      BY <2>0, <2>1, <2>2 DEF Claims, Pending, Carry, OpenOf, Total
    <2> QED
      BY <2>2, <2>4, <2>5, <2>6 DEF ClaimsAdd
  <1> QED
    BY <1>1, <1>2

\* A step at whose funding index nobody pays, or every payment has its receiver.
Neutral == AsSigned(fundingIndex') = AsSigned(fundingIndex) \/ Total(SignedSizes) = 0

\* A neutral funding step shifts worth between accounts and adds none.
LEMMA FundingShifts ==
  ASSUME TypeOK, TypeOK', Neutral, NEW m \in Nat
  PROVE  /\ Total(Shifted(m)) = Total(Worths(m))
         /\ \A t \in Traders : Worths(m)[t] \in Int /\ Shifted(m)[t] \in Int
  <1>1. PICK f \in Int : f = AsSigned(fundingIndex)
    BY SignedInt DEF TypeOK
  <1>2. PICK g \in Int : g = AsSigned(fundingIndex')
    BY SignedInt DEF TypeOK
  <1> DEFINE paid == [t \in Traders |-> (f - g) * SignedSizes[t]]
  <1>3. ASSUME NEW t \in Traders
        PROVE  /\ SignedSizes[t] \in Int /\ paid[t] \in Int
               /\ Worths(m)[t] \in Int /\ Shifted(m)[t] = Worths(m)[t] + paid[t]
               /\ Shifted(m)[t] \in Int
    <2>1. PICK a \in AccountType : a = Account(t)
      BY AccountIsTyped
    <2>2. PICK s \in Nat, l \in Int, side \in BOOLEAN :
             s = a.pos.size /\ l = AsSigned(a.pos.lastFundingIndex) /\ side = a.pos.isLong
      BY DEF AccountType, Position, AsSigned
    <2>3. SignedSizes[t] = IF side THEN s ELSE -s
      BY <2>1, <2>2 DEF SignedSizes, Signed, Account
    <2>4. paid[t] = (f - g) * (IF side THEN s ELSE -s)
      BY <2>3
    <2>5. /\ Carry(a.pos, f) = IF side THEN -(s * (f - l)) ELSE s * (f - l)
          /\ Carry(a.pos, g) = IF side THEN -(s * (g - l)) ELSE s * (g - l)
      BY <2>2 DEF Carry
    <2>6. /\ -(s * (g - l)) = -(s * (f - l)) + (f - g) * s
          /\ s * (g - l) = s * (f - l) + (f - g) * (-s)
          /\ (f - g) * s \in Int /\ (f - g) * (-s) \in Int
      OBVIOUS
    <2> HIDE DEF paid
    <2>7. Carry(a.pos, g) = Carry(a.pos, f) + paid[t] /\ paid[t] \in Int
      BY <2>4, <2>5, <2>6
    <2>8. /\ PRECISION * a.col \in Int /\ Gain(a.pos, m) \in Int
          /\ Carry(a.pos, f) \in Int /\ Carry(a.pos, g) \in Int
          /\ Worth(a, m, f) \in Int /\ Worth(a, m, g) \in Int
      BY WorthInt
    <2>9. Worth(a, m, g) = Worth(a, m, f) + paid[t]
      BY <2>7, <2>8 DEF Worth
    <2>10. Worths(m)[t] = Worth(a, m, f) /\ Shifted(m)[t] = Worth(a, m, g)
      BY <1>1, <1>2, <2>1 DEF Worths, Shifted, WorthOf, Account
    <2>11. SignedSizes[t] \in Int
      BY <2>3
    <2> QED
      BY <2>7, <2>8, <2>9, <2>10, <2>11
  <1>4. Multiple(SignedSizes, paid, f - g, Traders)
    BY <1>3 DEF Multiple
  <1> HIDE DEF paid
  <1>5. Total(paid) = (f - g) * Total(SignedSizes)
    BY <1>4, SumScale, TradersAssumption DEF Total
  <1>6. Total(SignedSizes) \in Int /\ Total(Worths(m)) \in Int
    BY <1>3, SumType, TradersAssumption DEF Total
  <1>7. Total(paid) = 0
    <2>1. f - g = 0 \/ Total(SignedSizes) = 0
      BY <1>1, <1>2 DEF Neutral
    <2>2. PICK x \in Int : x = Total(SignedSizes)
      BY <1>6
    <2>3. \A y \in Int : y = 0 \/ x = 0 => y * x = 0
      OBVIOUS
    <2> QED
      BY <1>5, <2>1, <2>2, <2>3
  <1>8. Total(Shifted(m)) = Total(Worths(m)) + Total(paid)
    BY <1>3, SumPlus, TradersAssumption DEF Total
  <1> QED
    BY <1>3, <1>6, <1>7, <1>8


\* The step moves move[t] for every t, up to the dust, and the insurance fund
\* and the tokens held make up for all of it.
Explained(move, m) == \A t \in Traders :
  /\ move[t] \in Int
  /\ Within(Worths(m)'[t] - Shifted(m)[t] - move[t],
            Truncated(positions[t], positions'[t], fundingIndex'))
Offset(total) ==
  PRECISION * (insuranceFund' - held') + total = PRECISION * (insuranceFund - held)

\* Such a step conserves the claims.
LEMMA Conserves ==
  ASSUME TypeOK, TypeOK', Neutral, NEW m \in Nat, NEW move, Explained(move, m),
         Offset(Total(move))
  PROVE  Abs(Claims(m)' - Claims(m)) <= Dust
  <1>1. PICK w, v, x : w = Worths(m) /\ v = Shifted(m) /\ x = Worths(m)'
    OBVIOUS
  <1>2. PICK b : /\ b = [t \in Traders |-> Truncated(positions[t], positions'[t], fundingIndex')]
                 /\ \A t \in Traders : b[t] \in Nat
    <2>1. \A t \in Traders : Truncated(positions[t], positions'[t], fundingIndex') \in Nat
      <3> TAKE t \in Traders
      <3>1. positions[t] \in Position /\ positions'[t] \in Position
        BY DEF TypeOK
      <3>2. PICK old \in Position, new \in Position :
                   old = positions[t] /\ new = positions'[t]
        BY <3>1
      <3>3. Truncated(old, new, fundingIndex') \in Nat
        BY DustNat
      <3> QED
        BY <3>2, <3>3
    <2>2. PICK b : b = [t \in Traders |-> Truncated(positions[t], positions'[t], fundingIndex')]
      OBVIOUS
    <2>3. \A t \in Traders : b[t] = Truncated(positions[t], positions'[t], fundingIndex')
      BY <2>2
    <2> QED
      BY <2>1, <2>2, <2>3
  <1>3. /\ Claims(m) = PRECISION * (insuranceFund - held) + Total(w)
        /\ Claims(m)' = PRECISION * (insuranceFund' - held') + Total(x)
        /\ Total(w) \in Int /\ Total(x) \in Int
    BY <1>1, ClaimsAsWorths
  <1>4. Total(v) = Total(w)
    BY <1>1, FundingShifts
  <1>5. \A t \in Traders : v[t] \in Int /\ x[t] \in Int /\ move[t] \in Int
    <2>1. \A t \in Traders : v[t] \in Int
      BY <1>1, FundingShifts
    <2>2. \A t \in Traders : x[t] \in Int
      <3> TAKE t \in Traders
      <3>1. Account(t)' \in AccountType
        BY DEF TypeOK, Account, AccountType
      <3>2. PICK a \in AccountType : a = Account(t)'
        BY <3>1
      <3>3. PICK g \in Int : g = AsSigned(fundingIndex')
        BY SignedInt DEF TypeOK
      <3>4. x[t] = Worth(a, m, g)
        BY <1>1, <3>2, <3>3 DEF Worths, WorthOf, Account
      <3> QED
        BY <3>4, WorthInt
    <2> QED
      BY <2>1, <2>2 DEF Explained
  <1> DEFINE rest == [t \in Traders |-> x[t] - v[t]]
             err == [t \in Traders |-> rest[t] - move[t]]
  <1>6. \A t \in Traders : /\ rest[t] \in Int /\ err[t] \in Int
                           /\ x[t] = v[t] + rest[t] /\ rest[t] = move[t] + err[t]
    BY <1>5
  <1>7. WithinBy(err, b, Traders)
    <2>1. \A t \in Traders : Within(err[t], b[t])
      BY <1>1, <1>2 DEF Explained
    <2> HIDE DEF err
    <2> QED
      BY <1>2, <1>6, <2>1 DEF WithinBy, Within
  <1> HIDE DEF rest, err
  <1>8. Total(x) = Total(v) + Total(rest) /\ Total(rest) = Total(move) + Total(err)
    BY <1>5, <1>6, SumPlus, TradersAssumption DEF Total
  <1>9. /\ Total(err) \in Int /\ Total(b) \in Int
        /\ Total(err) <= Total(b) /\ -Total(b) <= Total(err)
    BY <1>7, SumWithin, TradersAssumption DEF Total
  <1>10. Total(v) \in Int /\ Total(rest) \in Int /\ Total(move) \in Int
    BY <1>5, <1>6, SumType, TradersAssumption DEF Total
  <1>11. Dust = Total(b)
    BY <1>2 DEF Dust
  <1>12. PICK p \in Int, q \in Int : /\ p = PRECISION * (insuranceFund - held)
                                     /\ q = PRECISION * (insuranceFund' - held')
    <2>1. insuranceFund - held \in Int /\ insuranceFund' - held' \in Int
      BY DEF TypeOK
    <2>2. \A y \in Int : PRECISION * y \in Int
      OBVIOUS
    <2> QED
      BY <2>1, <2>2
  <1>13. Claims(m)' - Claims(m) = Total(err)
    BY <1>3, <1>4, <1>8, <1>9, <1>10, <1>12 DEF Offset
  <1> QED
    BY <1>9, <1>11, <1>13 DEF Abs

\* A position that stays loses nothing.
LEMMA NoDust ==
  ASSUME NEW pos \in Position, NEW index PROVE Truncated(pos, pos, index) = 0
  BY DEF Truncated, Position

\* What a trader's account is worth before and after the step.
LEMMA WorthsAt ==
  ASSUME TypeOK, TypeOK', NEW m \in Nat, NEW t \in Traders
  PROVE  /\ Worths(m)'[t] = Worth(Account(t)', m, AsSigned(fundingIndex'))
         /\ Shifted(m)[t] = Worth(Account(t), m, AsSigned(fundingIndex'))
         /\ Worths(m)'[t] \in Int /\ Shifted(m)[t] \in Int
  <1>1. /\ Worths(m)'[t] = Worth(Account(t)', m, AsSigned(fundingIndex'))
        /\ Shifted(m)[t] = Worth(Account(t), m, AsSigned(fundingIndex'))
    BY DEF Worths, Shifted, WorthOf, Account
  <1>2. PICK g \in Int : g = AsSigned(fundingIndex')
    BY SignedInt DEF TypeOK
  <1>3. PICK a \in AccountType, b \in AccountType : a = Account(t) /\ b = Account(t)'
    <2>1. Account(t) \in AccountType
      BY AccountIsTyped
    <2>2. Account(t)' \in AccountType
      BY DEF TypeOK, Account, AccountType
    <2> QED
      BY <2>1, <2>2
  <1>4. Worth(a, m, g) \in Int /\ Worth(b, m, g) \in Int
    BY WorthInt
  <1> QED
    BY <1>1, <1>2, <1>3, <1>4

\* The step leaves t alone, or moves d for t.
Untouched(t) ==
  collateralBalance'[t] = collateralBalance[t] /\ positions'[t] = positions[t]
Moves(t, d, m) ==
  Within(Worth(Account(t)', m, AsSigned(fundingIndex'))
           - Worth(Account(t), m, AsSigned(fundingIndex')) - d,
         Truncated(positions[t], positions'[t], fundingIndex'))

\* An account that is left alone keeps its worth.
LEMMA UntouchedMovesNothing ==
  ASSUME TypeOK, TypeOK', NEW m \in Nat, NEW t \in Traders, Untouched(t)
  PROVE  Moves(t, 0, m)
  <1>1. positions[t] \in Position
    BY DEF TypeOK
  <1>2. Truncated(positions[t], positions'[t], fundingIndex') = 0
    BY <1>1, NoDust DEF Untouched
  <1>3. Account(t)' = Account(t)
    BY DEF Untouched, Account
  <1>4. PICK x \in Int : x = Worth(Account(t), m, AsSigned(fundingIndex'))
    BY WorthsAt
  <1>5. x - x - 0 = 0
    OBVIOUS
  <1>6. Within(0, 0)
    BY DEF Within
  <1> QED
    BY <1>2, <1>3, <1>4, <1>5, <1>6 DEF Moves

\* A step that changes at most two accounts conserves the claims when the fund
\* and the tokens held make up for what it moves.
LEMMA TwoMove ==
  ASSUME TypeOK, TypeOK', Neutral, NEW m \in Nat,
         NEW t \in Traders, NEW u \in Traders, t # u,
         NEW d \in Int, NEW e \in Int, Moves(t, d, m), Moves(u, e, m), Offset(d + e),
         \A s \in Traders \ {t, u} : Untouched(s)
  PROVE  Abs(Claims(m)' - Claims(m)) <= Dust
  <1>1. PICK at : at = [s \in Traders |-> IF s = t THEN d ELSE 0]
    OBVIOUS
  <1>2. PICK move : move = [s \in Traders |-> IF s = t THEN d ELSE IF s = u THEN e ELSE 0]
    OBVIOUS
  <1>3. OnlyAt(at, t, Traders)
    BY <1>1 DEF OnlyAt
  <1>4. Total(at) = d
    <2>1. at[t] = d
      BY <1>1
    <2> QED
      BY <1>3, <2>1, SumOnlyAt, TradersAssumption DEF Total
  <1>5. Total(move) = d + e
    <2>1. /\ \A s \in Traders : at[s] \in Int /\ move[s] \in Int
          /\ \A s \in Traders : s # u => move[s] = at[s]
          /\ move[u] = e /\ at[u] = 0
      BY <1>1, <1>2
    <2>2. Total(move) = Total(at) + move[u] - at[u]
      BY <2>1, SumChange, TradersAssumption DEF Total
    <2> QED
      BY <1>4, <2>1, <2>2
  <1>6. Explained(move, m)
    <2> SUFFICES ASSUME NEW s \in Traders
                 PROVE  /\ move[s] \in Int
                        /\ Within(Worths(m)'[s] - Shifted(m)[s] - move[s],
                                  Truncated(positions[s], positions'[s], fundingIndex'))
      BY DEF Explained
    <2>1. Moves(s, move[s], m) /\ move[s] \in Int
      <3>1. CASE s = t
        BY <1>2, <3>1
      <3>2. CASE s = u
        BY <1>2, <3>2
      <3>3. CASE s \notin {t, u}
        BY <1>2, <3>3, UntouchedMovesNothing
      <3> QED
        BY <3>1, <3>2, <3>3
    <2> QED
      BY <2>1, WorthsAt DEF Moves
  <1> QED
    BY <1>5, <1>6, Conserves

\* The same for one account or none.
LEMMA OneMoves ==
  ASSUME TypeOK, TypeOK', Neutral, NEW m \in Nat, NEW t \in Traders,
         NEW d \in Int, Moves(t, d, m), Offset(d),
         \A s \in Traders \ {t} : Untouched(s)
  PROVE  Abs(Claims(m)' - Claims(m)) <= Dust
  <1>1. PICK move : move = [s \in Traders |-> IF s = t THEN d ELSE 0]
    OBVIOUS
  <1>2. OnlyAt(move, t, Traders)
    BY <1>1 DEF OnlyAt
  <1>3. Total(move) = d
    <2>1. move[t] = d
      BY <1>1
    <2> QED
      BY <1>2, <2>1, SumOnlyAt, TradersAssumption DEF Total
  <1>4. Explained(move, m)
    <2> SUFFICES ASSUME NEW s \in Traders
                 PROVE  /\ move[s] \in Int
                        /\ Within(Worths(m)'[s] - Shifted(m)[s] - move[s],
                                  Truncated(positions[s], positions'[s], fundingIndex'))
      BY DEF Explained
    <2>1. Moves(s, move[s], m) /\ move[s] \in Int
      <3>1. CASE s = t
        BY <1>1, <3>1
      <3>2. CASE s # t
        BY <1>1, <3>2, UntouchedMovesNothing
      <3> QED
        BY <3>1, <3>2
    <2> QED
      BY <2>1, WorthsAt DEF Moves
  <1> QED
    BY <1>3, <1>4, Conserves

\* A step that touches no account and no token conserves the claims.
LEMMA NoneMoves ==
  ASSUME TypeOK, TypeOK', Neutral, NEW m \in Nat,
         insuranceFund' = insuranceFund, held' = held, UNCHANGED accounts
  PROVE  Abs(Claims(m)' - Claims(m)) <= Dust
  <1>1. PICK move : move = [s \in Traders |-> 0]
    OBVIOUS
  <1>2. Total(move) = 0
    BY <1>1, SumZero, TradersAssumption DEF Total
  <1>3. Explained(move, m)
    <2> SUFFICES ASSUME NEW s \in Traders
                 PROVE  /\ move[s] \in Int
                        /\ Within(Worths(m)'[s] - Shifted(m)[s] - move[s],
                                  Truncated(positions[s], positions'[s], fundingIndex'))
      BY DEF Explained
    <2>1. move[s] = 0 /\ Moves(s, move[s], m)
      BY <1>1, UntouchedMovesNothing DEF accounts, Untouched
    <2> QED
      BY <2>1, WorthsAt DEF Moves
  <1>4. Offset(Total(move))
    <2>1. PICK x \in Int : x = PRECISION * (insuranceFund - held)
      BY DEF TypeOK
    <2> QED
      BY <1>2, <2>1 DEF Offset
  <1> QED
    BY <1>3, <1>4, Conserves


\* Collateral counts in full.
LEMMA WorthLess ==
  ASSUME NEW a \in AccountType, NEW c \in Int, NEW m \in Nat, NEW f \in Int
  PROVE  Worth([col |-> a.col - c, pos |-> a.pos], m, f)
           = Worth(a, m, f) - PRECISION * c
  <1> DEFINE b == [col |-> a.col - c, pos |-> a.pos]
  <1>1. /\ PRECISION * a.col \in Int /\ PRECISION * c \in Int
        /\ PRECISION * b.col = PRECISION * a.col - PRECISION * c
    BY DEF AccountType
  <1>2. Gain(a.pos, m) \in Int /\ Carry(a.pos, f) \in Int
    BY WorthInt
  <1>3. b.pos = a.pos
    OBVIOUS
  <1> HIDE DEF b
  <1>4. Worth(b, m, f) = Worth(a, m, f) - PRECISION * c
    BY <1>1, <1>2, <1>3 DEF Worth
  <1> QED
    BY <1>4 DEF b

\* A deposit.
LEMMA DepositConserves ==
  ASSUME TypeOK, TypeOK', Neutral, NEW m \in Nat,
         NEW t \in Traders, NEW amount \in Amounts, Deposit(t, amount)
  PROVE  Abs(Claims(m)' - Claims(m)) <= Dust
  <1>1. /\ held' = held + amount /\ insuranceFund' = insuranceFund
        /\ collateralBalance' = [collateralBalance EXCEPT ![t] = @ + amount]
        /\ positions' = positions
    BY DEF Deposit
  <1>2. amount \in Nat
    OBVIOUS
  <1> DEFINE d == PRECISION * amount
  <1>3. d \in Int
    BY <1>2
  <1>4. \A s \in Traders \ {t} : Untouched(s)
    BY <1>1 DEF Untouched, TypeOK
  <1>5. Moves(t, d, m)
    <2>1. PICK a \in AccountType : a = Account(t)
      BY AccountIsTyped
    <2>2. PICK f \in Int : f = AsSigned(fundingIndex')
      BY SignedInt DEF TypeOK
    <2>3. Account(t)' = [col |-> a.col - (-amount), pos |-> a.pos]
      BY <1>1, <1>2, <2>1 DEF Account, TypeOK
    <2>4. PICK w \in Int : w = Worth(a, m, f)
      BY WorthInt
    <2>5. Worth([col |-> a.col - (-amount), pos |-> a.pos], m, f)
            = w - PRECISION * (-amount)
      BY <1>2, <2>4, WorthLess
    <2>6. PRECISION * (-amount) = -d
      BY <1>2
    <2> HIDE DEF d
    <2>7. (w - PRECISION * (-amount)) - w - d = 0
      BY <1>3, <2>6
    <2>8. Truncated(positions[t], positions'[t], fundingIndex') = 0
      BY <1>1, NoDust DEF TypeOK
    <2>9. Within(0, 0)
      BY DEF Within
    <2> QED
      BY <2>1, <2>2, <2>3, <2>4, <2>5, <2>7, <2>8, <2>9 DEF Moves
  <1>6. Offset(d)
    <2>1. /\ insuranceFund \in Int /\ held \in Int
      BY DEF TypeOK
    <2>2. PRECISION * (insuranceFund - (held + amount)) + PRECISION * amount
            = PRECISION * (insuranceFund - held)
      BY <1>2, <2>1
    <2> QED
      BY <1>1, <2>2 DEF Offset
  <1> HIDE DEF d
  <1> QED
    BY <1>3, <1>4, <1>5, <1>6, OneMoves

\* A withdrawal settles funding and takes out the amount.
LEMMA WithdrawConserves ==
  ASSUME TypeOK, TypeOK', Neutral, NEW m \in Nat,
         NEW t \in Traders, NEW amount \in Amounts, Withdraw(t, amount)
  PROVE  Abs(Claims(m)' - Claims(m)) <= Dust
  <1>1. PICK index \in 0 .. WORD - 1 : index = NextFundingIndex /\ fundingIndex' = index
    BY FundingType DEF Withdraw, AdvanceFunding
  <1>2. PICK a \in AccountType : a = Account(t)
    BY AccountIsTyped
  <1>3. PICK s \in AccountType : s = Settled(a, index)
    BY SettledType
  <1>4. /\ held' = held - amount /\ insuranceFund' = insuranceFund
        /\ collateralBalance' = [collateralBalance EXCEPT ![t] = s.col - amount]
        /\ positions' = [positions EXCEPT ![t] = s.pos]
    BY <1>1, <1>2, <1>3 DEF Withdraw
  <1>5. amount \in Nat
    OBVIOUS
  <1> DEFINE d == -(PRECISION * amount)
  <1>6. d \in Int
    BY <1>5
  <1>7. \A u \in Traders \ {t} : Untouched(u)
    BY <1>4 DEF Untouched, TypeOK
  <1>8. Moves(t, d, m)
    <2>1. PICK f \in Int : f = AsSigned(index)
      BY SignedInt
    <2>2. Account(t)' = [col |-> s.col - amount, pos |-> s.pos]
      BY <1>4 DEF Account, TypeOK
    <2>3. Within(Worth(s, m, f) - Worth(a, m, f), FundingDust(a.pos, s.pos))
      BY <1>3, <2>1, SettledWorth
    <2>4. Worth([col |-> s.col - amount, pos |-> s.pos], m, f)
            = Worth(s, m, f) - PRECISION * amount
      BY <1>5, WorthLess
    <2>5. PICK x \in Int, y \in Int : x = Worth(a, m, f) /\ y = Worth(s, m, f)
      BY WorthInt
    <2>6. PICK p \in Int : p = PRECISION * amount
      BY <1>5
    <2>7. (y - p) - x - d = y - x
      BY <2>6
    <2>8. /\ FundingDust(a.pos, s.pos) \in Nat
          /\ FundingDust(a.pos, s.pos) <= Truncated(a.pos, s.pos, index)
          /\ Truncated(a.pos, s.pos, index) \in Nat
      <3>1. a.pos \in Position /\ s.pos \in Position
        BY DEF AccountType
      <3>2. s.pos = a.pos \/ s.pos.lastFundingIndex = index
        BY <1>3, <2>1, SettledWorth
      <3> QED
        BY <3>1, <3>2, DustNat, PaidWhenSettled
    <2>9. Within(y - x, Truncated(a.pos, s.pos, index))
      BY <2>3, <2>5, <2>8 DEF Within
    <2>10. positions[t] = a.pos /\ positions'[t] = s.pos
      BY <1>2, <1>4 DEF Account, TypeOK
    <2> HIDE DEF d
    <2> QED
      BY <1>1, <1>2, <2>1, <2>2, <2>4, <2>5, <2>6, <2>7, <2>9, <2>10 DEF Moves
  <1>9. Offset(d)
    <2>1. /\ insuranceFund \in Int /\ held \in Int
      BY DEF TypeOK
    <2>2. PRECISION * (insuranceFund - (held - amount)) + (-(PRECISION * amount))
            = PRECISION * (insuranceFund - held)
      BY <1>5, <2>1
    <2> QED
      BY <1>4, <2>2 DEF Offset
  <1> HIDE DEF d
  <1> QED
    BY <1>6, <1>7, <1>8, <1>9, OneMoves


\* One side of a fill moves its swing less its fee.
LEMMA SideMoves ==
  ASSUME TypeOK, TypeOK', FundingFits, fundingIndex' = NextFundingIndex,
         NEW m \in Nat, NEW t \in Traders, NEW isLong \in BOOLEAN,
         NEW price \in Nat, NEW size \in Nat, NEW fee \in Nat,
         positions'[t] = AfterSide(t, isLong, price, size).pos,
         collateralBalance'[t] = AfterSide(t, isLong, price, size).col - fee
  PROVE  Moves(t, Swing(isLong, size, price, m) - PRECISION * fee, m)
  <1>1. PICK f \in Int : f = AsSigned(NextFundingIndex)
    BY SignedInt, FundingType
  <1>2. PICK a \in AccountType : a = Account(t) /\ a.pos = positions[t]
    BY AccountIsTyped DEF Account
  <1>3. PICK n : n = AfterSide(t, isLong, price, size)
    OBVIOUS
  <1>4. /\ n \in AccountType
        /\ Within(Worth(n, m, f) - Worth(a, m, f) - Swing(isLong, size, price, m),
                  Truncated(a.pos, n.pos, fundingIndex'))
    BY <1>1, <1>2, <1>3, AfterSideWorth
  <1>5. Account(t)' = [col |-> n.col - fee, pos |-> n.pos]
    BY <1>3 DEF Account
  <1>6. Worth([col |-> n.col - fee, pos |-> n.pos], m, f)
          = Worth(n, m, f) - PRECISION * fee
    BY <1>4, WorthLess
  <1>7. PICK x \in Int, y \in Int : x = Worth(a, m, f) /\ y = Worth(n, m, f)
    BY <1>4, WorthInt
  <1>8. PICK w \in Int, p \in Int :
           w = Swing(isLong, size, price, m) /\ p = PRECISION * fee
    <2>1. size * (m - price) \in Int /\ size * (price - m) \in Int
      OBVIOUS
    <2> QED
      BY <2>1 DEF Swing
  <1>9. (y - p) - x - (w - p) = y - x - w
    OBVIOUS
  <1> QED
    BY <1>1, <1>2, <1>3, <1>4, <1>5, <1>6, <1>7, <1>8, <1>9 DEF Moves

\* A fill moves value between its two sides and pays the fees to the fund.
LEMMA SubmitFillConserves ==
  ASSUME TypeOK, TypeOK', Neutral, NEW m \in Nat,
         NEW taker \in Traders, NEW price \in FillPrices, NEW offered \in FillSizes,
         NEW o \in Orders, SubmitFill(taker, price, offered, o)
  PROVE  Abs(Claims(m)' - Claims(m)) <= Dust
  <1>1. PICK side \in BOOLEAN : side = ~o.isLong /\ (side <=> ~o.isLong)
    OBVIOUS
  <1>2. PICK maker \in Traders, bought \in BOOLEAN :
           maker = o.maker /\ bought = o.isLong /\ (bought <=> ~side)
    BY <1>1, KeyType
  <1>3. /\ FundingFits /\ price \in Nat /\ offered \in Nat /\ offered > 0
        /\ taker # maker /\ Fillable(o, offered)
        /\ fundingIndex' = NextFundingIndex
    BY <1>2 DEF SubmitFill, AdvanceFunding, ValidFill
  <1>4. PICK size \in Nat : size = FillSize(o, offered)
    BY <1>3, FillSizeNat
  <1>5. PICK tf \in Nat, mf \in Nat : /\ tf = Fee(size, price, Params.takerFeeBps)
                                      /\ mf = Fee(size, price, Params.makerFeeBps)
    BY <1>3, MarginNat DEF ParamsType
  <1>6. PICK took, made : /\ took = AfterSide(taker, side, price, size)
                          /\ made = AfterSide(maker, bought, price, size)
    OBVIOUS
  <1>7. /\ positions' = [positions EXCEPT ![taker] = took.pos, ![maker] = made.pos]
        /\ collateralBalance' = [collateralBalance EXCEPT
             ![taker] = took.col - tf, ![maker] = made.col - mf]
        /\ insuranceFund' = insuranceFund + tf + mf
        /\ held' = held
    BY <1>1, <1>2, <1>4, <1>5, <1>6 DEF SubmitFill, tokens
  <1>8. /\ positions'[taker] = took.pos /\ positions'[maker] = made.pos
        /\ collateralBalance'[taker] = took.col - tf
        /\ collateralBalance'[maker] = made.col - mf
        /\ \A s \in Traders \ {taker, maker} : Untouched(s)
    BY <1>3, <1>7 DEF Untouched, TypeOK
  <1> DEFINE d == Swing(side, size, price, m) - PRECISION * tf
             e == Swing(bought, size, price, m) - PRECISION * mf
  <1>9. Moves(taker, d, m) /\ Moves(maker, e, m)
    BY <1>3, <1>6, <1>8, SideMoves
  <1>10. /\ d \in Int /\ e \in Int /\ d + e = -(PRECISION * tf + PRECISION * mf)
         /\ PRECISION * tf \in Int /\ PRECISION * mf \in Int
    <2>1. PICK w \in Int : w = size * (m - price)
      BY <1>3
    <2>2. size * (price - m) = -w
      BY <1>3, <2>1
    <2>3. /\ Swing(side, size, price, m) = IF side THEN w ELSE -w
          /\ Swing(bought, size, price, m) = IF side THEN -w ELSE w
      BY <1>2, <2>1, <2>2 DEF Swing
    <2>4. PICK p \in Int, q \in Int : p = PRECISION * tf /\ q = PRECISION * mf
      OBVIOUS
    <2>5. CASE side
      BY <2>3, <2>4, <2>5
    <2>6. CASE ~side
      BY <2>3, <2>4, <2>6
    <2> QED
      BY <2>5, <2>6
  <1> HIDE DEF d, e
  <1>11. Offset(d + e)
    <2>1. PICK i \in Int, h \in Int : i = insuranceFund /\ h = held
      BY DEF TypeOK
    <2>2. PRECISION * (i + tf + mf - h) + (-(PRECISION * tf + PRECISION * mf))
            = PRECISION * (i - h)
      OBVIOUS
    <2>3. insuranceFund' - held' = i + tf + mf - h
      BY <1>7, <2>1
    <2> QED
      BY <1>10, <2>1, <2>2, <2>3 DEF Offset
  <1> QED
    BY <1>3, <1>8, <1>9, <1>10, <1>11, TwoMove

\* Steps that touch neither accounts nor tokens.
LEMMA QuietConserves ==
  ASSUME TypeOK, TypeOK', Neutral, NEW m \in Nat,
         \/ \E k \in Keys : CancelOrder(k)
         \/ UpdateFunding \/ FactoryStep \/ Tick \/ UNCHANGED vars
  PROVE  Abs(Claims(m)' - Claims(m)) <= Dust
  <1>1. insuranceFund' = insuranceFund /\ held' = held /\ UNCHANGED accounts
    <2>1. ASSUME NEW k \in Keys, CancelOrder(k)
          PROVE  insuranceFund' = insuranceFund /\ held' = held /\ UNCHANGED accounts
      BY <2>1 DEF CancelOrder, tokens
    <2>2. FactoryStep => insuranceFund' = insuranceFund /\ held' = held
                           /\ UNCHANGED accounts
      BY DEF FactoryStep, SetIndexPrice, SetMarkMicrostructure, SetCloseOnly,
         SetFundingRateCaps, SetMaxLiquidationSizeBps, Resolve, tokens
    <2> QED
      BY <2>1, <2>2 DEF UpdateFunding, Tick, tokens, vars
  <1> QED
    BY <1>1, NoneMoves


\* What is left of a position of which c is closed.
Left(pos, c) == IF c >= pos.size THEN NoPosition ELSE [pos EXCEPT !.size = @ - c]

\* Closing part of a position at the exit price turns its gain into collateral.
LEMMA ClosedWorth ==
  ASSUME NEW a \in AccountType, NEW m \in Nat, NEW f \in Int,
         a.pos.size = 0 \/ f = AsSigned(a.pos.lastFundingIndex),
         NEW c \in Nat, c <= a.pos.size,
         NEW gain, gain = Pnl(c, a.pos.entryPrice, m, a.pos.isLong)
  PROVE  /\ Left(a.pos, c) \in Position /\ gain \in Int
         /\ Within(Worth([col |-> a.col + gain, pos |-> Left(a.pos, c)], m, f)
                     - Worth(a, m, f), PRECISION - 1)
  <1> DEFINE pos == a.pos
             left == Left(pos, c)
             n == [col |-> a.col + gain, pos |-> left]
             due == c * (IF pos.isLong THEN m - pos.entryPrice ELSE pos.entryPrice - m)
  <1>1. /\ a.col \in Int /\ pos \in Position /\ pos.size \in Nat
        /\ pos.entryPrice \in Nat /\ pos.isLong \in BOOLEAN
    BY DEF AccountType, Position
  <1>2. left \in Position
    BY <1>1, NoPositionType DEF Left, Position
  <1>3. due \in Int
    BY <1>1
  <1>4. gain \in Int /\ Within(PRECISION * gain - due, PRECISION - 1)
    BY <1>3, TruncDivDust DEF Pnl
  <1>5. Carry(pos, f) = 0
    BY <1>1, NoCarry
  <1>6. Carry(left, f) = 0
    <2>1. CASE c >= pos.size
      BY <1>2, <2>1, NoCarry DEF Left, NoPosition
    <2>2. CASE ~(c >= pos.size)
      <3>1. left.lastFundingIndex = pos.lastFundingIndex
        BY <1>1, <2>2 DEF Left, Position
      <3>2. pos.size # 0
        BY <1>1, <2>2
      <3>3. f = AsSigned(left.lastFundingIndex)
        BY <3>1, <3>2
      <3> HIDE DEF pos, left
      <3> QED
        BY <1>2, <3>3, NoCarry
    <2> QED
      BY <2>1, <2>2
  <1>7. Gain(left, m) = Gain(pos, m) - due
    <2>1. PICK s \in Nat, e \in Nat : s = pos.size /\ e = pos.entryPrice
      BY <1>1
    <2>2. CASE c >= pos.size
      <3>1. c = s
        BY <1>1, <2>1, <2>2
      <3>2. NoPosition \in Position /\ NoPosition.size = 0
        BY NoPositionType DEF NoPosition
      <3>3. Gain(NoPosition, m) = 0
        BY <3>2 DEF Gain, Position
      <3>4. Gain(pos, m) = due
        BY <2>1, <3>1 DEF Gain
      <3> HIDE DEF due
      <3> QED
        BY <1>3, <2>2, <3>3, <3>4 DEF Left
    <2>3. CASE ~(c >= pos.size)
      <3>1. /\ left.size = s - c /\ left.entryPrice = e /\ left.isLong = pos.isLong
        BY <1>1, <2>1, <2>3 DEF Left, Position
      <3>2. /\ (s - c) * (m - e) = s * (m - e) - c * (m - e)
            /\ (s - c) * (e - m) = s * (e - m) - c * (e - m)
        OBVIOUS
      <3> QED
        BY <2>1, <3>1, <3>2 DEF Gain
    <2> QED
      BY <2>2, <2>3
  <1>8. PRECISION * (a.col + gain) = PRECISION * a.col + PRECISION * gain
    BY <1>1, <1>4
  <1>9. PICK x \in Int, g \in Int, p \in Int :
          x = PRECISION * a.col /\ g = Gain(pos, m) /\ p = PRECISION * gain
    <2>1. PRECISION * a.col \in Int /\ Gain(a.pos, m) \in Int
      BY WorthInt
    <2>2. PRECISION * gain \in Int
      BY <1>4
    <2> QED
      BY <2>1, <2>2
  <1>10. Worth(a, m, f) = x + g + 0
    BY <1>5, <1>9 DEF Worth
  <1>11. Worth(n, m, f) = (x + p) + (g - due) + 0
    BY <1>6, <1>7, <1>8, <1>9 DEF Worth
  <1> HIDE DEF due, n, left
  <1>12. ((x + p) + (g - due) + 0) - (x + g + 0) = p - due
    BY <1>3
  <1>13. Within(Worth(n, m, f) - Worth(a, m, f), PRECISION - 1)
    BY <1>4, <1>9, <1>10, <1>11, <1>12
  <1> QED
    BY <1>2, <1>4, <1>13 DEF n, left

\* What is left is smaller.
LEMMA LeftSmaller ==
  ASSUME NEW pos \in Position, NEW c \in Nat, c > 0, c <= pos.size
  PROVE  Left(pos, c) \in Position /\ Left(pos, c).size < pos.size
  <1>1. pos.size \in Nat /\ NoPosition \in Position /\ NoPosition.size = 0
    BY NoPositionType DEF Position, NoPosition
  <1> QED
    BY <1>1 DEF Left, Position

\* The dust of a close that settles funding first.
LEMMA ClosedDust ==
  ASSUME NEW pos \in Position, NEW left \in Position, left.size < pos.size,
         NEW index
  PROVE  Truncated(pos, left, index)
           = (IF pos.lastFundingIndex # index THEN PRECISION - 1 ELSE 0)
               + (PRECISION - 1)
  <1>1. pos.size \in Nat /\ left.size \in Nat
    BY DEF Position
  <1>2. left # pos /\ ~(left.size > pos.size)
    BY <1>1
  <1>3. TradeDust(pos, left) = PRECISION - 1
    BY <1>1, <1>2 DEF TradeDust
  <1> QED
    BY <1>2, <1>3, DustNat DEF PaidDust


\* A liquidation closes something, and never more than there is.
LEMMA LiquidationSizeBounds ==
  ASSUME TypeOK, NEW pos \in Position, pos.size > 0
  PROVE  LiquidationSize(pos) \in Nat /\ LiquidationSize(pos) > 0
         /\ LiquidationSize(pos) <= pos.size
  <1>1. PICK n \in Nat, b \in 0 .. BPS : n = pos.size /\ b = maxLiquidationSizeBps
    BY DEF TypeOK, Position
  <1>5. b \in Nat /\ b <= BPS
    BY BpsNat
  <1>2. PICK y \in Nat : y = n * b
    BY <1>5, MulNat
  <1>3. y <= n * BPS
    <2>1. b * n <= BPS * n
      BY <1>5, BpsNat, MulMonotone
    <2>2. b * n = n * b /\ BPS * n = n * BPS
      BY <1>5, BpsNat
    <2> QED
      BY <1>2, <2>1, <2>2
  <1>4. y \div BPS \in Nat /\ y \div BPS <= n
    <2>1. PICK d \in Nat \ {0} : d = BPS
      BY BpsNat
    <2>2. y \div d \in Nat
      BY <2>1, DivNat
    <2>3. y <= n * BPS => y \div BPS <= n
      BY DivBounds
    <2> QED
      BY <1>3, <2>1, <2>2, <2>3
  <1> QED
    BY <1>1, <1>2, <1>4 DEF LiquidationSize

\* The parts of a liquidation: s is the account with its funding settled.
LEMMA LiquidateParts ==
  ASSUME TypeOK, NEW l \in Traders, NEW t \in Traders, Liquidate(l, t)
  PROVE  \E s \in AccountType, size \in Nat, closed \in Nat, taken \in Nat, reward \in Nat :
           /\ s = Settled(Account(t), NextFundingIndex)
           /\ size > 0 /\ size <= s.pos.size
           /\ closed = s.col + Pnl(size, s.pos.entryPrice, markPrice, s.pos.isLong)
           /\ taken <= closed
           /\ taken <= Penalty(s.pos, size)
           /\ collateralBalance' = [[collateralBalance EXCEPT ![t] = closed - taken]
                                      EXCEPT ![l] = @ + reward]
           /\ insuranceFund' = insuranceFund + taken - reward
           /\ positions' = [positions EXCEPT ![t] = Left(s.pos, size)]
           /\ held' = held /\ markPrice' = markPrice
           /\ FundingFits /\ fundingIndex' = NextFundingIndex
           /\ Equity(s, markPrice) < Maintenance(s)
  <1>1. FundingFits /\ fundingIndex' = NextFundingIndex
    BY DEF Liquidate, AdvanceFunding
  <1>2. PICK index \in 0 .. WORD - 1 : index = NextFundingIndex
    BY <1>1, FundingType
  <1>3. PICK s \in AccountType : s = Settled(Account(t), NextFundingIndex)
    <2>1. Account(t) \in AccountType
      BY AccountIsTyped
    <2> QED
      BY <1>2, <2>1, SettledType
  <1> DEFINE size == LiquidationSize(s.pos)
             closed == ClosedOut(s, size)
             penalty == Penalty(s.pos, size)
             reward == Reward(penalty)
             taken == IF penalty <= closed THEN penalty ELSE closed
  <1>4. /\ s.pos.size > 0 /\ closed >= 0
        /\ Params.liquidationPenaltyBps > 0
        /\ collateralBalance' = [[collateralBalance EXCEPT ![t] = closed - taken]
                                   EXCEPT ![l] = @ + reward]
        /\ insuranceFund' = insuranceFund + taken - reward
        /\ positions' = [positions EXCEPT ![t] =
             IF size >= s.pos.size THEN NoPosition
             ELSE [s.pos EXCEPT !.size = @ - size]]
        /\ held' = held /\ markPrice' = markPrice
        /\ Equity(s, markPrice) < Maintenance(s)
    BY <1>3 DEF Liquidate, tokens, mark
  <1>5. s.pos \in Position /\ s.col \in Int
    BY DEF AccountType
  <1>6. size \in Nat /\ size > 0 /\ size <= s.pos.size
    BY <1>4, <1>5, LiquidationSizeBounds
  <1>7. positions' = [positions EXCEPT ![t] = Left(s.pos, size)]
    BY <1>4 DEF Left
  <1> HIDE DEF size
  <1>8. closed \in Nat
    <2>1. Pnl(size, s.pos.entryPrice, markPrice, s.pos.isLong) \in Int
      BY <1>5, <1>6, PnlInt DEF Position, TypeOK
    <2> QED
      BY <1>4, <1>5, <2>1 DEF ClosedOut
  <1>9. closed = s.col + Pnl(size, s.pos.entryPrice, markPrice, s.pos.isLong)
    BY DEF ClosedOut
  <1>10. penalty \in Nat /\ penalty = Penalty(s.pos, size)
    BY <1>5, <1>6, MarginNat DEF Penalty, Position, ParamsType
  <1> HIDE DEF closed, penalty
  <1>11. reward \in Nat
    <2>1. penalty * Params.liquidatorRewardBps \in Nat
      BY <1>10, MulNat DEF ParamsType
    <2>2. Params.liquidationPenaltyBps \in Nat \ {0}
      BY <1>4 DEF ParamsType
    <2> QED
      BY <2>1, <2>2, DivNat DEF Reward
  <1> HIDE DEF reward
  <1>12. taken \in Nat /\ taken <= closed /\ taken <= penalty
    BY <1>8, <1>10
  <1> QED
    BY <1>1, <1>3, <1>4, <1>6, <1>7, <1>8, <1>9, <1>10, <1>11, <1>12

\* A liquidation settles funding, realises the gain at the mark and moves the
\* penalty.
LEMMA LiquidateConserves ==
  ASSUME TypeOK, TypeOK', Neutral, NEW m \in Nat, m = markPrice,
         NEW l \in Traders, NEW t \in Traders, Liquidate(l, t)
  PROVE  Abs(Claims(m)' - Claims(m)) <= Dust
  <1>1. PICK s \in AccountType, size \in Nat, closed \in Nat, taken \in Nat, reward \in Nat :
           /\ s = Settled(Account(t), NextFundingIndex)
           /\ size > 0 /\ size <= s.pos.size
           /\ closed = s.col + Pnl(size, s.pos.entryPrice, markPrice, s.pos.isLong)
           /\ collateralBalance' = [[collateralBalance EXCEPT ![t] = closed - taken]
                                      EXCEPT ![l] = @ + reward]
           /\ insuranceFund' = insuranceFund + taken - reward
           /\ positions' = [positions EXCEPT ![t] = Left(s.pos, size)]
           /\ held' = held
           /\ FundingFits /\ fundingIndex' = NextFundingIndex
    BY LiquidateParts
  <1>2. PICK index \in 0 .. WORD - 1 : index = NextFundingIndex /\ fundingIndex' = index
    BY <1>1, FundingType
  <1>3. PICK a \in AccountType : /\ a = Account(t) /\ a.col = collateralBalance[t]
                                 /\ a.pos = positions[t]
    BY AccountIsTyped DEF Account
  <1>4. PICK gain : gain = Pnl(size, s.pos.entryPrice, m, s.pos.isLong)
    OBVIOUS
  <1>5. PICK f \in Int : f = AsSigned(index)
    BY SignedInt
  <1>6. /\ s = Settled(a, index) /\ s.pos \in Position /\ a.pos \in Position
        /\ s.pos.size \in Nat
    BY <1>1, <1>2, <1>3 DEF AccountType, Position
  <1>7. /\ s.pos.size = a.pos.size
        /\ a.pos.size # 0 => s.pos.lastFundingIndex = index
        /\ Within(Worth(s, m, f) - Worth(a, m, f), FundingDust(a.pos, s.pos))
    BY <1>5, <1>6, SettledWorth
  <1>8. s.pos.lastFundingIndex = index
    BY <1>1, <1>6, <1>7
  <1>9. /\ Left(s.pos, size) \in Position /\ gain \in Int
        /\ Within(Worth([col |-> s.col + gain, pos |-> Left(s.pos, size)], m, f)
                    - Worth(s, m, f), PRECISION - 1)
    <2>1. f = AsSigned(s.pos.lastFundingIndex) /\ size <= s.pos.size
      BY <1>1, <1>5, <1>8
    <2> QED
      BY <1>4, <2>1, ClosedWorth
  <1>10. closed = s.col + gain
    BY <1>1, <1>4
  <1>11. PICK left \in Position, dust \in Nat :
           /\ left = Left(s.pos, size) /\ dust = Truncated(a.pos, left, index)
           /\ FundingDust(a.pos, s.pos) \in Nat
           /\ dust = FundingDust(a.pos, s.pos) + (PRECISION - 1)
    <2>1. Left(s.pos, size) \in Position /\ Left(s.pos, size).size < a.pos.size
      BY <1>1, <1>6, <1>7, LeftSmaller
    <2>2. PICK left \in Position : left = Left(s.pos, size) /\ left.size < a.pos.size
      BY <2>1
    <2>3. Truncated(a.pos, left, index)
            = (IF a.pos.lastFundingIndex # index THEN PRECISION - 1 ELSE 0)
                + (PRECISION - 1)
      BY <1>6, <2>2, ClosedDust
    <2>4. FundingDust(a.pos, s.pos)
            = IF a.pos.lastFundingIndex # index THEN PRECISION - 1 ELSE 0
      BY <1>8 DEF FundingDust
    <2>5. Truncated(a.pos, left, index) \in Nat /\ FundingDust(a.pos, s.pos) \in Nat
      BY <1>6, DustNat
    <2> QED
      BY <2>2, <2>3, <2>4, <2>5
  <1>12. positions'[t] = left
    BY <1>1, <1>11 DEF TypeOK
  <1>13. ASSUME NEW c \in Int, collateralBalance'[t] = closed - c
         PROVE  Moves(t, -(PRECISION * c), m)
    <2>1. Account(t)' = [col |-> closed - c, pos |-> left]
      BY <1>12, <1>13 DEF Account
    <2> DEFINE b == [col |-> closed, pos |-> left]
    <2>2. b \in AccountType
      BY DEF AccountType
    <2>3. b.col = closed /\ b.pos = left
      OBVIOUS
    <2>4. b = [col |-> s.col + gain, pos |-> Left(s.pos, size)]
      BY <1>10, <1>11
    <2> HIDE DEF b
    <2>5. Worth([col |-> b.col - c, pos |-> b.pos], m, f) = Worth(b, m, f) - PRECISION * c
      BY <2>2, WorthLess
    <2>6. PICK x \in Int, z \in Int, y \in Int, p \in Int :
            /\ x = Worth(a, m, f) /\ z = Worth(s, m, f) /\ y = Worth(b, m, f)
            /\ p = PRECISION * c
      <3>1. Worth(a, m, f) \in Int /\ Worth(s, m, f) \in Int /\ Worth(b, m, f) \in Int
        BY <2>2, WorthInt
      <3> QED
        BY <3>1
    <2>7. (y - p) - x - (-p) = y - x
      OBVIOUS
    <2>8. Within(y - x, dust)
      <3>1. PICK fd \in Nat : fd = FundingDust(a.pos, s.pos)
        BY <1>11
      <3>2. Within(y - z, PRECISION - 1) /\ Within(z - x, fd) /\ dust = fd + (PRECISION - 1)
        BY <1>7, <1>9, <1>11, <2>4, <2>6, <3>1
      <3> QED
        BY <3>2 DEF Within
    <2>9. Worth(Account(t)', m, AsSigned(fundingIndex')) = y - p
      BY <1>2, <1>5, <2>1, <2>3, <2>5, <2>6
    <2>10. Worth(Account(t), m, AsSigned(fundingIndex')) = x
      BY <1>2, <1>3, <1>5, <2>6
    <2>11. Truncated(positions[t], positions'[t], fundingIndex') = dust
      BY <1>2, <1>3, <1>11, <1>12
    <2> QED
      BY <2>6, <2>7, <2>8, <2>9, <2>10, <2>11 DEF Moves
  <1>14. PICK i \in Int, h \in Int : i = insuranceFund /\ h = held
    BY DEF TypeOK
  <1>15. /\ insuranceFund' - held' = i + taken - reward - h
         /\ PRECISION * (i + taken - reward - h)
              + (-(PRECISION * taken) + PRECISION * reward) = PRECISION * (i - h)
         /\ PRECISION * (i + taken - reward - h)
              + -(PRECISION * (taken - reward)) = PRECISION * (i - h)
    BY <1>1, <1>14
  <1>16. CASE l = t
    <2>1. collateralBalance'[t] = closed - (taken - reward)
      <3>1. collateralBalance' = [[collateralBalance EXCEPT ![t] = closed - taken]
                                    EXCEPT ![t] = @ + reward]
        BY <1>1, <1>16
      <3>2. collateralBalance'[t] = closed - taken + reward
        BY <3>1 DEF TypeOK
      <3> QED
        BY <3>2
    <2> DEFINE d == -(PRECISION * (taken - reward))
    <2>2. d \in Int /\ Moves(t, d, m)
      BY <1>13, <2>1
    <2>3. Offset(d)
      BY <1>14, <1>15 DEF Offset
    <2>4. \A u \in Traders \ {t} : Untouched(u)
      BY <1>1, <1>16 DEF Untouched, TypeOK
    <2> HIDE DEF d
    <2> QED
      BY <2>2, <2>3, <2>4, OneMoves
  <1>17. CASE l # t
    <2>1. /\ collateralBalance'[t] = closed - taken
          /\ collateralBalance'[l] = collateralBalance[l] + reward
          /\ positions'[l] = positions[l]
      BY <1>1, <1>17 DEF TypeOK
    <2> DEFINE d == -(PRECISION * taken)
               e == PRECISION * reward
    <2>2. d \in Int /\ Moves(t, d, m)
      BY <1>13, <2>1
    <2>3. e \in Int
      OBVIOUS
    <2>4. Moves(l, e, m)
      <3>1. PICK b \in AccountType : b = Account(l) /\ b.col = collateralBalance[l]
                                     /\ b.pos = positions[l]
        BY AccountIsTyped DEF Account
      <3>2. Account(l)' = [col |-> b.col - (-reward), pos |-> b.pos]
        BY <2>1, <3>1 DEF Account, AccountType
      <3>3. PICK w \in Int : w = Worth(b, m, f)
        BY WorthInt
      <3>4. Worth([col |-> b.col - (-reward), pos |-> b.pos], m, f)
              = w - PRECISION * (-reward)
        BY <3>3, WorthLess
      <3>5. PRECISION * (-reward) = -e
        OBVIOUS
      <3> HIDE DEF e
      <3>6. (w - PRECISION * (-reward)) - w - e = 0
        BY <2>3, <3>5
      <3>7. Truncated(positions[l], positions'[l], fundingIndex') = 0
        BY <2>1, NoDust DEF TypeOK
      <3>8. Within(0, 0)
        BY DEF Within
      <3> QED
        BY <1>2, <1>5, <3>1, <3>2, <3>3, <3>4, <3>6, <3>7, <3>8 DEF Moves
    <2>5. Offset(d + e)
      BY <1>14, <1>15 DEF Offset
    <2>6. \A u \in Traders \ {t, l} : Untouched(u)
      BY <1>1 DEF Untouched, TypeOK
    <2> HIDE DEF d, e
    <2> QED
      BY <1>17, <2>2, <2>3, <2>4, <2>5, <2>6, TwoMove
  <1> QED
    BY <1>16, <1>17


\* A product is zero when a factor is.
LEMMA ProductZero ==
  ASSUME NEW x \in Nat, x # 0, NEW y \in Int, x * y = 0
  PROVE  y = 0
  <1>1. CASE y > 0
    BY <1>1, x * y >= y, MulGrows
  <1>2. CASE y < 0
    <2>1. PICK z \in Nat : z = 0 - y
      BY 0 - y \in Nat, <1>2
    <2>2. x * z >= z
      BY MulGrows
    <2>3. x * z + x * y = x * (z + y)
      OBVIOUS
    <2>4. z + y = 0 /\ x * 0 = 0
      BY <2>1
    <2> QED
      BY <1>2, <2>1, <2>2, <2>3, <2>4
  <1> QED
    BY <1>1, <1>2

\* A settlement pays out what the account is worth at the settlement price, if no
\* funding is pending for it.
LEMMA SettleAndWithdrawConserves ==
  ASSUME TypeOK, TypeOK', NEW m \in Nat, m = SettlementPrice,
         NEW t \in Traders, SettleAndWithdraw(t),
         positions'[t] # positions[t] => Pending(positions[t]) = 0
  PROVE  Abs(Claims(m)' - Claims(m)) <= Dust
  <1>1. PICK a \in AccountType : /\ a = Account(t) /\ a.col = collateralBalance[t]
                                 /\ a.pos = positions[t]
    BY AccountIsTyped DEF Account
  <1>2. PICK c \in Nat : c = a.pos.size
    BY DEF AccountType, Position
  <1>3. PICK gain : gain = Pnl(c, a.pos.entryPrice, m, a.pos.isLong)
    OBVIOUS
  <1>4. PICK f \in Int : /\ f = AsSigned(fundingIndex)
                         /\ a.pos.size = 0 \/ f = AsSigned(a.pos.lastFundingIndex)
    <2>1. PICK f \in Int, last \in Int, side \in BOOLEAN :
            /\ f = AsSigned(fundingIndex) /\ last = AsSigned(a.pos.lastFundingIndex)
            /\ side = a.pos.isLong
      BY SignedInt DEF TypeOK, AccountType, Position
    <2>2. CASE c = 0
      BY <1>2, <2>1, <2>2
    <2>3. CASE c # 0
      <3>1. positions'[t] = NoPosition
        BY <1>1, <1>2, <2>3 DEF SettleAndWithdraw, TypeOK
      <3>2. NoPosition # a.pos
        BY <1>2, <2>3 DEF NoPosition
      <3>3. Pending(a.pos) = 0
        BY <1>1, <3>1, <3>2
      <3>4. (IF side THEN -(c * (f - last)) ELSE c * (f - last)) = 0
        BY <1>2, <2>1, <3>3 DEF Pending
      <3>5. c * (f - last) = 0
        <4>1. PICK y \in Int : y = c * (f - last)
          OBVIOUS
        <4> QED
          BY <3>4, <4>1
      <3>6. f - last = 0
        BY <2>3, <3>5, ProductZero
      <3> QED
        BY <2>1, <3>6
    <2> QED
      BY <2>2, <2>3
  <1>5. /\ Left(a.pos, c) \in Position /\ gain \in Int
        /\ Within(Worth([col |-> a.col + gain, pos |-> Left(a.pos, c)], m, f)
                    - Worth(a, m, f), PRECISION - 1)
    <2>1. c <= a.pos.size
      BY <1>2
    <2> QED
      BY <1>3, <1>4, <2>1, ClosedWorth
  <1>6. Left(a.pos, c) = NoPosition
    BY <1>2 DEF Left
  <1>7. PICK paid \in Int : paid = a.col + gain
    BY <1>5 DEF AccountType
  <1>8. /\ held' = held - paid /\ insuranceFund' = insuranceFund
        /\ fundingIndex' = fundingIndex
        /\ collateralBalance' = [collateralBalance EXCEPT ![t] = 0]
        /\ positions' = [positions EXCEPT ![t] = IF c = 0 THEN a.pos ELSE NoPosition]
    BY <1>1, <1>2, <1>3, <1>7 DEF SettleAndWithdraw, funding
  <1> DEFINE d == -(PRECISION * paid)
             left == IF c = 0 THEN a.pos ELSE NoPosition
  <1>9. d \in Int
    OBVIOUS
  <1>10. \A u \in Traders \ {t} : Untouched(u)
    BY <1>8 DEF Untouched, TypeOK
  <1>11. /\ positions'[t] = left /\ left \in Position
         /\ Account(t)' = [col |-> paid - paid, pos |-> left]
    <2>1. left \in Position
      BY NoPositionType DEF AccountType
    <2>2. paid - paid = 0
      OBVIOUS
    <2> QED
      BY <1>8, <2>1, <2>2 DEF Account, TypeOK
  <1>12. Within(Worth([col |-> paid, pos |-> left], m, f) - Worth(a, m, f),
                Truncated(a.pos, left, fundingIndex'))
    <2>1. CASE c = 0
      <3>1. gain = 0
        <4>1. PICK z \in Int : z = IF a.pos.isLong THEN m - a.pos.entryPrice
                                                   ELSE a.pos.entryPrice - m
          BY DEF AccountType, Position
        <4>2. 0 * z = 0 /\ TruncDiv(0, PRECISION) = 0
          BY DEF TruncDiv
        <4> QED
          BY <1>3, <2>1, <4>1, <4>2 DEF Pnl
      <3>2. [col |-> paid, pos |-> left] = a
        BY <1>7, <2>1, <3>1 DEF AccountType
      <3>3. Truncated(a.pos, left, fundingIndex') = 0
        BY <2>1, NoDust DEF AccountType
      <3>4. Worth(a, m, f) - Worth(a, m, f) = 0
        BY WorthInt
      <3>5. Within(0, 0)
        BY DEF Within
      <3> QED
        BY <3>2, <3>3, <3>4, <3>5
    <2>2. CASE c # 0
      <3>1. left = Left(a.pos, c)
        BY <1>6, <2>2
      <3>2. PICK dust \in Nat : /\ dust = Truncated(a.pos, left, fundingIndex')
                               /\ dust >= PRECISION - 1
        <4>1. left \in Position /\ a.pos \in Position /\ left.size < a.pos.size
          BY <1>2, <2>2, <1>11 DEF NoPosition, AccountType
        <4> HIDE DEF left
        <4>2. Truncated(a.pos, left, fundingIndex')
                = (IF a.pos.lastFundingIndex # fundingIndex' THEN PRECISION - 1 ELSE 0)
                    + (PRECISION - 1)
          BY <4>1, ClosedDust
        <4>3. Truncated(a.pos, left, fundingIndex') \in Nat
          BY <4>1, DustNat
        <4> QED
          BY <4>2, <4>3
      <3>3. PICK x \in Int, y \in Int : /\ x = Worth(a, m, f)
                                        /\ y = Worth([col |-> paid, pos |-> left], m, f)
        <4>1. [col |-> paid, pos |-> left] \in AccountType
          BY <1>11 DEF AccountType
        <4> QED
          BY <4>1, WorthInt
      <3>4. Within(y - x, PRECISION - 1)
        BY <1>5, <1>7, <3>1, <3>3
      <3>5. Within(y - x, dust)
        BY <3>2, <3>4 DEF Within
      <3> QED
        BY <3>2, <3>3, <3>5
    <2> QED
      BY <2>1, <2>2
  <1> HIDE DEF left
  <1>13. Moves(t, d, m)
    <2> DEFINE b == [col |-> paid, pos |-> left]
    <2>1. b \in AccountType
      BY <1>11 DEF AccountType
    <2>2. b.col = paid /\ b.pos = left
      OBVIOUS
    <2> HIDE DEF b
    <2>3. Worth([col |-> b.col - paid, pos |-> b.pos], m, f)
            = Worth(b, m, f) - PRECISION * paid
      BY <2>1, WorthLess
    <2>4. Worth(a, m, f) \in Int /\ Worth(b, m, f) \in Int
      BY <2>1, WorthInt
    <2>5. PICK x \in Int, y \in Int, p \in Int :
            x = Worth(a, m, f) /\ y = Worth(b, m, f) /\ p = PRECISION * paid
      BY <2>4
    <2>6. (y - p) - x - (-p) = y - x
      OBVIOUS
    <2>7. Within(y - x, Truncated(a.pos, left, fundingIndex'))
      BY <1>12, <2>5 DEF b
    <2>8. Worth(Account(t)', m, AsSigned(fundingIndex')) = y - p
      BY <1>4, <1>8, <1>11, <2>2, <2>3, <2>5
    <2>9. Worth(Account(t), m, AsSigned(fundingIndex')) = x
      BY <1>1, <1>4, <1>8, <2>5
    <2>10. Truncated(positions[t], positions'[t], fundingIndex')
             = Truncated(a.pos, left, fundingIndex')
      BY <1>1, <1>11
    <2> QED
      BY <2>5, <2>6, <2>7, <2>8, <2>9, <2>10 DEF Moves
  <1>14. Offset(d)
    <2>1. PICK i \in Int, h \in Int : i = insuranceFund /\ h = held
      BY DEF TypeOK
    <2>2. PRECISION * (i - (h - paid)) + (-(PRECISION * paid)) = PRECISION * (i - h)
      OBVIOUS
    <2> QED
      BY <1>8, <2>1, <2>2 DEF Offset
  <1>15. Neutral
    BY <1>8 DEF Neutral
  <1> HIDE DEF d
  <1> QED
    BY <1>9, <1>10, <1>13, <1>14, <1>15, OneMoves

\* Every transaction conserves value, whatever its parameters, as long as the
\* funding it pays has a receiver for every payer.
LEMMA StepConserves ==
  ASSUME TypeOK, TypeOK', FundingNetted, NEW m \in Nat, m = ExitPrice, [Next]_vars
  PROVE  Abs(Claims(m)' - Claims(m)) <= Dust
  <1>1. /\ ~resolved => m = markPrice
        /\ resolved => m = SettlementPrice
    BY DEF ExitPrice, SettlementPrice
  <1>2. Neutral
    BY SignedSum DEF FundingNetted, Neutral
  <1>3. ASSUME NEW l \in Traders, NEW t \in Traders, Liquidate(l, t) PROVE m = markPrice
    BY <1>1, <1>3 DEF Liquidate, AdvanceFunding
  <1>4. ASSUME NEW t \in Traders, SettleAndWithdraw(t)
        PROVE  /\ m = SettlementPrice
               /\ positions'[t] # positions[t] => Pending(positions[t]) = 0
    BY <1>1, <1>4 DEF SettleAndWithdraw, FundingNetted
  <1> QED
    BY <1>2, <1>3, <1>4, DepositConserves, WithdrawConserves, SubmitFillConserves,
       LiquidateConserves, SettleAndWithdrawConserves, QuietConserves DEF Next, UserStep

\* No transaction of any market, whatever its parameters, before or after it is
\* resolved, makes or destroys value, unless an unequal book pays funding or a
\* settlement drops what is pending: not the liquidations that close one side of
\* a trade alone, and not the settlements.
THEOREM ValueConserved == Spec => ClaimsConserved
  <1>1. TypeOK /\ TypeOK' /\ [Next]_vars => [FundingNetted => ConservingStep]_vars
    <2> SUFFICES ASSUME TypeOK, TypeOK', [Next]_vars, FundingNetted,
                        NEW m \in {ExitPrice}
                 PROVE  Abs(Claims(m)' - Claims(m)) <= Dust
      BY DEF ConservingStep
    <2>1. m \in Nat /\ m = ExitPrice
      BY DEF ExitPrice, TypeOK
    <2> QED
      BY <2>1, StepConserves
  <1> QED
    BY <1>1, TypeCorrect, PTL DEF Spec, ClaimsConserved

\* In a market the factory created no transaction makes or destroys value until
\* the market is resolved: its book is balanced, so funding is paid by one side
\* to the other whatever its sign, in any order of trades and updates.
THEOREM TradingConservesValue ==
  ASSUME Params.maintenanceMarginBps = 0
  PROVE  Spec => ClaimsConservedTrading
  <1>1. TypeOK /\ TypeOK' /\ Flat /\ [Next]_vars => [~resolved => ConservingStep]_vars
    <2> SUFFICES ASSUME TypeOK, TypeOK', Flat, [Next]_vars, ~resolved,
                        NEW m \in {ExitPrice}
                 PROVE  Abs(Claims(m)' - Claims(m)) <= Dust
      BY DEF ConservingStep
    <2>1. m \in Nat /\ m = ExitPrice
      BY DEF ExitPrice, TypeOK
    <2>2. FundingNetted
      BY SignedSum DEF Flat, FundingNetted
    <2> QED
      BY <2>1, <2>2, StepConserves
  <1> QED
    BY <1>1, FlatBook, TypeCorrect, PTL DEF Spec, ClaimsConservedTrading


-----------------------------------------------------------------------------
(* Liquidation.  What is closed takes its share of the maintenance margin   *)
(* with it, which covers the penalty; its gain is in the collateral.        *)

\* A product by a positive factor is strictly monotone, read backwards.
LEMMA MulCancels ==
  ASSUME NEW d \in Nat \ {0}, NEW x \in Int, NEW y \in Int, d * x < d * y
  PROVE  x < y
  <1> SUFFICES ASSUME x >= y PROVE FALSE
    OBVIOUS
  <1>1. PICK z \in Nat : x = y + z
    BY x - y \in Nat
  <1>2. d * (y + z) = d * y + d * z
    OBVIOUS
  <1>3. d * z \in Nat /\ d * y \in Int
    BY MulNat
  <1> QED
    BY <1>1, <1>2, <1>3

\* Dividing a sum at once or in two parts differs by at most one.
LEMMA DivAdds ==
  ASSUME NEW x \in Nat, NEW y \in Nat, NEW d \in Nat \ {0}
  PROVE  /\ x \div d + y \div d <= (x + y) \div d
         /\ (x + y) \div d <= x \div d + y \div d + 1
  <1>1. PICK q \in Nat, r \in Nat, s \in Nat :
          q = x \div d /\ r = y \div d /\ s = (x + y) \div d
    BY DivNat
  <1>2. d * q <= x /\ d * r <= y /\ d * s <= x + y
    BY <1>1
  <1>3. x < d * q + d /\ y < d * r + d /\ x + y < d * s + d
    BY <1>1
  <1>4. d * q \in Nat /\ d * r \in Nat /\ d * s \in Nat
    BY MulNat
  <1>5. /\ d * (q + r) = d * q + d * r /\ d * (s + 1) = d * s + d
        /\ d * (q + r + 2) = d * q + d * r + d + d
    OBVIOUS
  <1>6. d * (q + r) < d * (s + 1)
    BY <1>2, <1>3, <1>4, <1>5
  <1>7. d * s < d * (q + r + 2)
    BY <1>2, <1>3, <1>4, <1>5
  <1>8. q + r < s + 1
    BY <1>6, MulCancels
  <1>9. s < q + r + 2
    BY <1>7, MulCancels
  <1> QED
    BY <1>1, <1>8, <1>9

\* Division is monotone in the dividend.
LEMMA DivGrows ==
  ASSUME NEW x \in Nat, NEW y \in Nat, NEW d \in Nat \ {0}, x <= y
  PROVE  x \div d <= y \div d
  <1>1. PICK z \in Nat : y = x + z
    BY y - x \in Nat
  <1>2. x \div d + z \div d <= (x + z) \div d
    BY DivAdds
  <1>3. x \div d \in Nat /\ z \div d \in Nat /\ (x + z) \div d \in Nat
    BY DivNat
  <1> QED
    BY <1>1, <1>2, <1>3

\* Two gains, or two losses, realised apart lose at most one token.
LEMMA TruncDivAdds ==
  ASSUME NEW x \in Int, NEW y \in Int, NEW d \in Nat \ {0},
         (x >= 0 /\ y >= 0) \/ (x <= 0 /\ y <= 0)
  PROVE  TruncDiv(x + y, d) <= TruncDiv(x, d) + TruncDiv(y, d) + 1
  <1>1. CASE x >= 0 /\ y >= 0
    <2>1. (x + y) \div d <= x \div d + y \div d + 1
      BY <1>1, DivAdds
    <2> QED
      BY <1>1, <2>1 DEF TruncDiv
  <1>2. CASE x <= 0 /\ y <= 0
    <2>1. PICK u \in Nat, v \in Nat : u = -x /\ v = -y
      BY <1>2
    <2>2. \A z \in Int, w \in Nat : z + w = 0 => TruncDiv(z, d) = -(w \div d)
      <3> SUFFICES ASSUME NEW z \in Int, NEW w \in Nat, z + w = 0
                   PROVE  TruncDiv(z, d) = -(w \div d)
        OBVIOUS
      <3>1. CASE z < 0
        <4>1. -z = w
          OBVIOUS
        <4> QED
          BY <3>1, <4>1 DEF TruncDiv
      <3>2. CASE z = 0
        <4>1. 0 \div d = 0 /\ w = 0
          BY <3>2
        <4>2. PICK q \in Nat : q = w \div d
          BY DivNat
        <4>3. -q = 0 - q
          OBVIOUS
        <4> QED
          BY <3>2, <4>1, <4>2, <4>3 DEF TruncDiv
      <3> QED
        BY <3>1, <3>2
    <2>3. u \div d + v \div d <= (u + v) \div d
      BY DivAdds
    <2>4. u \div d \in Nat /\ v \div d \in Nat /\ (u + v) \div d \in Nat
      BY DivNat
    <2>5. x + u = 0 /\ y + v = 0 /\ (x + y) + (u + v) = 0
      BY <2>1
    <2>6. /\ TruncDiv(x, d) = -(u \div d) /\ TruncDiv(y, d) = -(v \div d)
          /\ TruncDiv(x + y, d) = -((u + v) \div d)
      <3>1. PICK z \in Int, w \in Nat : z = x + y /\ w = u + v
        OBVIOUS
      <3>2. z + w = 0
        BY <2>5, <3>1
      <3>3. TruncDiv(z, d) = -(w \div d)
        BY <2>2, <3>2
      <3>4. TruncDiv(x, d) = -(u \div d) /\ TruncDiv(y, d) = -(v \div d)
        BY <2>2, <2>5
      <3> QED
        BY <3>1, <3>3, <3>4
    <2> QED
      BY <2>3, <2>4, <2>6
  <1> QED
    BY <1>1, <1>2

\* Closing a position in two parts.
LEMMA PnlAdds ==
  ASSUME NEW c \in Nat, NEW r \in Nat, NEW entry \in Nat, NEW exit \in Nat,
         NEW isLong \in BOOLEAN
  PROVE  Pnl(c + r, entry, exit, isLong)
           <= Pnl(c, entry, exit, isLong) + Pnl(r, entry, exit, isLong) + 1
  <1> DEFINE rate == IF isLong THEN exit - entry ELSE entry - exit
  <1>0. rate \in Int
    OBVIOUS
  <1> HIDE DEF rate
  <1>1. PICK g \in Int : g = rate
    BY <1>0
  <1>2. PICK x \in Int, y \in Int : x = c * g /\ y = r * g
    OBVIOUS
  <1>3. (x >= 0 /\ y >= 0) \/ (x <= 0 /\ y <= 0)
    <2>1. CASE g >= 0
      BY <1>2, <2>1, MulNat
    <2>2. CASE g < 0
      <3>1. PICK h \in Nat : g = -h
        BY <2>2
      <3>2. c * (-h) = -(c * h) /\ r * (-h) = -(r * h)
        OBVIOUS
      <3>3. c * h \in Nat /\ r * h \in Nat
        BY MulNat
      <3> QED
        BY <1>2, <3>1, <3>2, <3>3
    <2> QED
      BY <2>1, <2>2
  <1>4. (c + r) * g = x + y
    BY <1>2
  <1>5. TruncDiv(x + y, PRECISION)
          <= TruncDiv(x, PRECISION) + TruncDiv(y, PRECISION) + 1
    BY <1>3, TruncDivAdds
  <1> QED
    BY <1>1, <1>2, <1>4, <1>5 DEF Pnl, rate

\* The margins of two parts never exceed the margin of the whole.
LEMMA MarginAdds ==
  ASSUME NEW c \in Nat, NEW r \in Nat, NEW price \in Nat, NEW bps \in Nat
  PROVE  MarginRequired(c, price, bps) + MarginRequired(r, price, bps)
           <= MarginRequired(c + r, price, bps)
  <1>1. PICK d \in Nat \ {0} : d = PRECISION * BPS
    BY DEF BPS
  <1>2. PICK x \in Nat, y \in Nat : x = c * price * bps /\ y = r * price * bps
    BY MulNat
  <1>3. (c + r) * price * bps = c * price * bps + r * price * bps
    OBVIOUS
  <1>4. x \div d + y \div d <= (x + y) \div d
    BY DivAdds
  <1> QED
    BY <1>1, <1>2, <1>3, <1>4 DEF MarginRequired

\* A margin grows with its rate.
LEMMA MarginGrows ==
  ASSUME NEW c \in Nat, NEW price \in Nat, NEW low \in Nat, NEW high \in Nat, low <= high
  PROVE  MarginRequired(c, price, low) <= MarginRequired(c, price, high)
  <1>1. PICK d \in Nat \ {0} : d = PRECISION * BPS
    BY DEF BPS
  <1>2. PICK n \in Nat : n = c * price
    BY MulNat
  <1>3. low * n <= high * n /\ low * n = n * low /\ high * n = n * high
    BY MulMonotone
  <1>4. n * low \in Nat /\ n * high \in Nat
    BY MulNat
  <1>5. (n * low) \div d <= (n * high) \div d
    BY <1>3, <1>4, DivGrows
  <1> QED
    BY <1>1, <1>2, <1>5 DEF MarginRequired


\* Equity and maintenance are natural numbers.
LEMMA EquityNat ==
  ASSUME NEW a \in AccountType, NEW m \in Nat
  PROVE  /\ Pnl(a.pos.size, a.pos.entryPrice, m, a.pos.isLong) \in Int
         /\ Equity(a, m) \in Nat /\ Maintenance(a) \in Nat
         /\ Equity(a, m) >= a.col + Pnl(a.pos.size, a.pos.entryPrice, m, a.pos.isLong)
  <1>1. a.pos \in Position /\ a.col \in Int
    BY DEF AccountType
  <1>2. Pnl(a.pos.size, a.pos.entryPrice, m, a.pos.isLong) \in Int
    BY <1>1, PnlInt DEF Position
  <1>3. Maintenance(a) \in Nat
    BY <1>1, MarginNat DEF Maintenance, Position, ParamsType
  <1> QED
    BY <1>1, <1>2, <1>3 DEF Equity

\* A liquidation leaves its trader at most one token further from the margin.
LEMMA LiquidateHeals ==
  ASSUME TypeOK, TypeOK',
         Params.liquidationPenaltyBps <= Params.maintenanceMarginBps,
         NEW l \in Traders, NEW t \in Traders, Liquidate(l, t)
  PROVE  Deficit(Account(t))' <= Deficit(Settled(Account(t), fundingIndex')) + 1
  <1>1. PICK a \in AccountType, c \in Nat, closed \in Nat, taken \in Nat, reward \in Nat :
           /\ a = Settled(Account(t), NextFundingIndex)
           /\ c > 0 /\ c <= a.pos.size
           /\ closed = a.col + Pnl(c, a.pos.entryPrice, markPrice, a.pos.isLong)
           /\ taken <= closed
           /\ taken <= Penalty(a.pos, c)
           /\ collateralBalance' = [[collateralBalance EXCEPT ![t] = closed - taken]
                                      EXCEPT ![l] = @ + reward]
           /\ positions' = [positions EXCEPT ![t] = Left(a.pos, c)]
           /\ markPrice' = markPrice
           /\ fundingIndex' = NextFundingIndex
           /\ Equity(a, markPrice) < Maintenance(a)
    BY LiquidateParts
  <1>2. PICK m \in Nat : m = markPrice
    BY DEF TypeOK
  <1>4. PICK b \in AccountType : /\ b = Account(t)' /\ b.col = collateralBalance'[t]
                                 /\ b.pos = positions'[t]
    <2>1. Account(t)' \in AccountType
      BY DEF TypeOK, Account, AccountType
    <2> QED
      BY <2>1 DEF Account
  <1>5. /\ Deficit(Settled(Account(t), fundingIndex')) = Maintenance(a) - Equity(a, m)
        /\ Deficit(Account(t))' = Maintenance(b) - Equity(b, m)
    <2>1. Deficit(Settled(Account(t), fundingIndex')) = Maintenance(a) - Equity(a, m)
      BY <1>1, <1>2 DEF Deficit
    <2>2. Deficit(Account(t))' = Maintenance(b) - Equity(b, m)
      BY <1>1, <1>2, <1>4 DEF Deficit, Equity, Maintenance
    <2> QED
      BY <2>1, <2>2
  <1>6. b.col >= closed - taken /\ b.pos = Left(a.pos, c)
    <2>1. b.col = IF l = t THEN closed - taken + reward ELSE closed - taken
      BY <1>1, <1>4 DEF TypeOK
    <2>2. b.pos = Left(a.pos, c)
      BY <1>1, <1>4 DEF TypeOK
    <2> QED
      BY <2>1, <2>2
  <1>7. /\ a.pos \in Position /\ a.col \in Int /\ a.pos.size \in Nat
        /\ a.pos.entryPrice \in Nat /\ a.pos.isLong \in BOOLEAN
        /\ b.pos \in Position /\ b.col \in Int
    BY DEF AccountType, Position
  <1>8. PICK u \in Nat, v \in Nat, x \in Nat, y \in Nat :
          u = Maintenance(a) /\ v = Maintenance(b) /\ x = Equity(a, m) /\ y = Equity(b, m)
    BY EquityNat
  <1>9. x < u
    BY <1>1, <1>2, <1>8
  <1>10. CASE c >= a.pos.size
    <2>1. b.pos.size = 0 /\ b.pos.entryPrice = 0
      BY <1>6, <1>10 DEF Left, NoPosition
    <2>2. v = 0
      <3>1. 0 * 0 * Params.maintenanceMarginBps = 0
        BY DEF ParamsType
      <3>2. PRECISION * BPS \in Nat \ {0}
        BY DEF BPS
      <3>3. 0 \div (PRECISION * BPS) = 0
        BY <3>2
      <3> QED
        BY <1>8, <2>1, <3>1, <3>3 DEF Maintenance, MarginRequired
    <2> QED
      BY <1>5, <1>8, <1>9, <2>2
  <1>11. CASE ~(c >= a.pos.size)
    <2>0. PICK r \in Nat : r = a.pos.size - c
      BY <1>7, <1>11
    <2>1. PICK entry \in Nat, side \in BOOLEAN :
            r = a.pos.size - c /\ entry = a.pos.entryPrice /\ side = a.pos.isLong
      BY <1>7, <2>0
    <2>2. /\ b.pos.size = r /\ b.pos.entryPrice = entry /\ b.pos.isLong = side
          /\ a.pos.size = c + r
      BY <1>6, <1>7, <1>11, <2>1 DEF Left, Position
    <2>3. taken + v <= u
      <3>1. PICK low \in Nat, high \in Nat :
              /\ low = Params.liquidationPenaltyBps /\ high = Params.maintenanceMarginBps
              /\ low <= high
        BY DEF ParamsType
      <3>2. PICK p \in Nat, q \in Nat : /\ p = MarginRequired(c, entry, low)
                                        /\ q = MarginRequired(c, entry, high)
        BY <3>1, MarginNat
      <3>3. p <= q
        BY <3>1, <3>2, MarginGrows
      <3>4. taken <= p
        BY <1>1, <2>1, <3>1, <3>2 DEF Penalty
      <3>5. u = MarginRequired(c + r, entry, high) /\ v = MarginRequired(r, entry, high)
        BY <1>8, <2>1, <2>2, <3>1 DEF Maintenance
      <3>6. q + v <= u
        BY <3>2, <3>5, MarginAdds
      <3> QED
        BY <3>3, <3>4, <3>6
    <2>4. PICK g \in Int, h \in Int, k \in Int :
            /\ g = Pnl(c, entry, m, side) /\ h = Pnl(r, entry, m, side)
            /\ k = Pnl(c + r, entry, m, side)
      <3>1. c + r \in Nat
        OBVIOUS
      <3>2. /\ Pnl(c, entry, m, side) \in Int /\ Pnl(r, entry, m, side) \in Int
            /\ Pnl(c + r, entry, m, side) \in Int
        BY <3>1, PnlInt
      <3> QED
        BY <3>2
    <2>5. k <= g + h + 1
      BY <2>4, PnlAdds
    <2>6. closed = a.col + g
      BY <1>1, <1>2, <2>1, <2>4
    <2>7. y >= b.col + h
      BY <1>8, <2>2, <2>4, EquityNat
    <2>8. x = IF a.col + k > 0 THEN a.col + k ELSE 0
      BY <1>8, <2>1, <2>2, <2>4 DEF Equity
    <2>9. v - y <= u - x + 1
      <3>1. CASE a.col + k > 0
        <4>1. PICK z \in Int, w \in Int : z = a.col /\ w = b.col
          BY <1>7
        <4> QED
          BY <1>6, <2>3, <2>5, <2>6, <2>7, <2>8, <3>1, <4>1
      <3>2. CASE ~(a.col + k > 0)
        BY <2>3, <2>8, <3>2
      <3> QED
        BY <3>1, <3>2
    <2> QED
      BY <1>5, <1>8, <2>9
  <1> QED
    BY <1>10, <1>11

\* Only a liquidation makes a position smaller without executing an order.
LEMMA OnlyLiquidationShrinks ==
  ASSUME TypeOK, ~resolved, executed' = executed, [Next]_vars,
         NEW t \in Traders, positions'[t].size < positions[t].size
  PROVE  \E l \in Traders : Liquidate(l, t)
  <1>1. positions[t].size \in Nat /\ \A s \in Traders : positions[s] \in Position
    BY DEF TypeOK, Position
  <1>2. ASSUME positions'[t].size = positions[t].size PROVE FALSE
    BY <1>1, <1>2
  <1>3. ASSUME UNCHANGED positions PROVE FALSE
    BY <1>2, <1>3
  <1>4. ASSUME NEW s \in Traders, NEW amount \in Amounts, Withdraw(s, amount)
        PROVE  FALSE
    <2>1. PICK a \in AccountType : a = Account(s) /\ a.pos = positions[s]
      BY AccountIsTyped DEF Account
    <2>2. PICK index \in 0 .. WORD - 1 : index = NextFundingIndex
      BY <1>4, FundingType DEF Withdraw, AdvanceFunding
    <2>3. PICK pos : pos = Settled(a, index).pos /\ pos.size = a.pos.size
      <3>1. AsSigned(index) \in Int
        BY SignedInt
      <3>2. Settled(a, index).pos.size = a.pos.size
        BY <3>1, SettledWorth, 0 \in Nat
      <3> QED
        BY <3>2
    <2>4. positions' = [positions EXCEPT ![s] = pos]
      BY <1>4, <2>1, <2>2, <2>3 DEF Withdraw
    <2> QED
      BY <1>2, <2>1, <2>3, <2>4 DEF TypeOK
  <1>5. ASSUME NEW taker \in Traders, NEW price \in FillPrices,
               NEW offered \in FillSizes, NEW o \in Orders,
               SubmitFill(taker, price, offered, o)
        PROVE  FALSE
    <2>1. PICK side \in BOOLEAN : side = ~o.isLong
      OBVIOUS
    <2>2. PICK maker \in Traders, bought \in BOOLEAN : maker = o.maker /\ bought = o.isLong
      BY KeyType
    <2>3. /\ price \in Nat /\ offered \in Nat /\ offered > 0 /\ Fillable(o, offered)
          /\ FundingFits
      BY <1>5 DEF SubmitFill, ValidFill, AdvanceFunding
    <2>4. PICK size \in Nat : size = FillSize(o, offered)
      BY <2>3, FillSizeNat
    <2>5. size = 0
      <3>1. executed' = [executed EXCEPT ![Key(o)] = @ + size]
        BY <1>5, <2>4 DEF SubmitFill, RecordFill
      <3>2. Key(o) \in Keys /\ executed[Key(o)] \in Nat
        BY KeyType DEF TypeOK
      <3>3. executed[Key(o)] + size = executed[Key(o)]
        BY <3>1, <3>2 DEF TypeOK
      <3> QED
        BY <3>2, <3>3
    <2>6. ASSUME NEW s \in Traders, NEW long \in BOOLEAN
          PROVE  AfterSide(s, long, price, size).pos.size = positions[s].size
      <3>1. PICK pos \in Position : pos = AfterSide(s, long, price, size).pos
                                       /\ Signed(pos) = Signed(positions[s])
                                            + (IF long THEN size ELSE -size)
        BY <2>3, AfterSideAddsSize
      <3>2. PICK old \in Position : old = positions[s]
        BY <1>1
      <3>3. /\ pos.size \in Nat /\ old.size \in Nat
            /\ Signed(pos) \in {pos.size, -pos.size}
            /\ Signed(old) \in {old.size, -old.size}
        BY DEF Position, Signed
      <3>4. PICK d \in Int : d = (IF long THEN size ELSE -size)
        OBVIOUS
      <3>5. d = size \/ d + size = 0
        BY <3>4
      <3>6. d = 0
        BY <2>5, <3>5
      <3>7. Signed(pos) = Signed(old)
        BY <3>1, <3>2, <3>3, <3>4, <3>6
      <3> QED
        BY <3>1, <3>2, <3>3, <3>7
    <2>7. PICK p, q : /\ p = AfterSide(taker, side, price, size).pos
                      /\ q = AfterSide(maker, bought, price, size).pos
      OBVIOUS
    <2>8. p.size = positions[taker].size /\ q.size = positions[maker].size
      BY <2>6, <2>7
    <2>9. positions' = [positions EXCEPT ![taker] = p, ![maker] = q]
      BY <1>5, <2>1, <2>2, <2>4, <2>7 DEF SubmitFill
    <2> QED
      BY <1>2, <2>8, <2>9 DEF TypeOK
  <1>6. ASSUME NEW l \in Traders, NEW s \in Traders, Liquidate(l, s), s # t
        PROVE  FALSE
    <2>1. positions'[t] = positions[t]
      BY <1>6 DEF Liquidate, TypeOK
    <2> QED
      BY <1>2, <2>1
  <1>7. ASSUME NEW s \in Traders, SettleAndWithdraw(s) PROVE FALSE
    BY <1>7 DEF SettleAndWithdraw
  <1>8. ASSUME NEW s \in Traders, NEW amount \in Amounts, Deposit(s, amount)
        PROVE  FALSE
    BY <1>3, <1>8 DEF Deposit
  <1>9. ASSUME NEW k \in Keys, CancelOrder(k) PROVE FALSE
    BY <1>3, <1>9 DEF CancelOrder, accounts
  <1>10. ASSUME UpdateFunding \/ Tick \/ UNCHANGED vars PROVE FALSE
    BY <1>3, <1>10 DEF UpdateFunding, Tick, vars, accounts
  <1>11. ASSUME FactoryStep PROVE FALSE
    BY <1>3, <1>11 DEF FactoryStep, SetIndexPrice, SetMarkMicrostructure, SetCloseOnly,
       SetFundingRateCaps, SetMaxLiquidationSizeBps, Resolve, accounts
  <1> QED
    BY <1>4, <1>5, <1>6, <1>7, <1>8, <1>9, <1>10, <1>11 DEF Next, UserStep

\* A liquidation whose penalty is at most the maintenance margin never leaves its
\* trader further from that margin than it was, but for the token its divisions
\* may lose: whatever the sizes, the mark and the size cap.
THEOREM LiquidationsHeal ==
  ASSUME Params.liquidationPenaltyBps <= Params.maintenanceMarginBps
  PROVE  Spec => LiquidationHeals
  <1> DEFINE Heals == ~resolved /\ executed' = executed =>
                        \A t \in Traders : positions'[t].size < positions[t].size =>
                          Deficit(Account(t))'
                            <= Deficit(Settled(Account(t), fundingIndex')) + LiquidationSlack
  <1>1. TypeOK /\ TypeOK' /\ [Next]_vars => [Heals]_vars
    <2> SUFFICES ASSUME TypeOK, TypeOK', [Next]_vars, ~resolved,
                        executed' = executed, NEW t \in Traders,
                        positions'[t].size < positions[t].size
                 PROVE  Deficit(Account(t))'
                          <= Deficit(Settled(Account(t), fundingIndex')) + LiquidationSlack
      OBVIOUS
    <2>1. PICK l \in Traders : Liquidate(l, t)
      BY OnlyLiquidationShrinks
    <2> QED
      BY <2>1, LiquidateHeals DEF LiquidationSlack
  <1> QED
    BY <1>1, TypeCorrect, PTL DEF Spec, LiquidationHeals

-----------------------------------------------------------------------------
(* Resolution.  A balanced book owes the same whatever the outcome, and     *)
(* settlements take from the tokens held what they take from the debt.      *)

\* What open positions are worth at an exit price, pending funding included.
OpenAt(m) == [t \in Traders |-> Gain(positions[t], m) + Pending(positions[t])]

\* A change of the exit price moves what a position is worth by its signed size.
LEMMA GainMoves ==
  ASSUME TypeOK, NEW t \in Traders, NEW p \in Nat, NEW q \in Nat
  PROVE  /\ OpenAt(p)[t] \in Int /\ OpenAt(q)[t] \in Int /\ SignedSizes[t] \in Int
         /\ OpenAt(p)[t] = OpenAt(q)[t] + (p - q) * SignedSizes[t]
  <1>1. PICK pos \in Position : pos = positions[t]
    BY DEF TypeOK
  <1>2. PICK size \in Nat, entry \in Nat, long \in BOOLEAN :
          size = pos.size /\ entry = pos.entryPrice /\ long = pos.isLong
    BY DEF Position
  <1>3. PICK due \in Int : due = Pending(pos)
    <2>1. PICK f \in Int, last \in Int :
            f = AsSigned(fundingIndex) /\ last = AsSigned(pos.lastFundingIndex)
      BY SignedInt DEF TypeOK, Position
    <2>2. size * (f - last) \in Int /\ -(size * (f - last)) \in Int
      OBVIOUS
    <2> QED
      BY <1>2, <2>1, <2>2 DEF Pending
  <1>4. /\ OpenAt(p)[t] = Gain(pos, p) + due /\ OpenAt(q)[t] = Gain(pos, q) + due
        /\ SignedSizes[t] = Signed(pos)
    BY <1>1, <1>3 DEF OpenAt, SignedSizes
  <1>5. CASE long
    <2>1. /\ Gain(pos, p) = size * (p - entry) /\ Gain(pos, q) = size * (q - entry)
          /\ Signed(pos) = size
      BY <1>2, <1>5 DEF Gain, Signed
    <2>2. size * (p - entry) = size * (q - entry) + (p - q) * size
      OBVIOUS
    <2>3. size * (p - entry) \in Int /\ size * (q - entry) \in Int /\ (p - q) * size \in Int
      OBVIOUS
    <2> QED
      BY <1>4, <2>1, <2>2, <2>3
  <1>6. CASE ~long
    <2>1. /\ Gain(pos, p) = size * (entry - p) /\ Gain(pos, q) = size * (entry - q)
          /\ Signed(pos) = -size
      BY <1>2, <1>6 DEF Gain, Signed
    <2>2. size * (entry - p) = size * (entry - q) + (p - q) * (-size)
      OBVIOUS
    <2>3. size * (entry - p) \in Int /\ size * (entry - q) \in Int /\ (p - q) * (-size) \in Int
      OBVIOUS
    <2> QED
      BY <1>4, <2>1, <2>2, <2>3
  <1> QED
    BY <1>5, <1>6

\* In a market the factory created, what all accounts are owed against the tokens
\* held is the same at every price the positions could be closed at: whichever
\* way the event is resolved, one side gains exactly what the other loses.
THEOREM OutcomeNeutral ==
  ASSUME Params.maintenanceMarginBps = 0
  PROVE  Spec => [](~resolved => \A p, q \in Nat : Claims(p) = Claims(q))
  <1>1. TypeOK /\ Flat => (~resolved => \A p, q \in Nat : Claims(p) = Claims(q))
    <2> SUFFICES ASSUME TypeOK, Flat, ~resolved, NEW p \in Nat, NEW q \in Nat
                 PROVE  Claims(p) = Claims(q)
      OBVIOUS
    <2> DEFINE moved == [t \in Traders |-> (p - q) * SignedSizes[t]]
    <2>1. Total(SignedSizes) = 0
      BY DEF Flat
    <2>2. \A t \in Traders : /\ OpenAt(p)[t] \in Int /\ OpenAt(q)[t] \in Int
                             /\ SignedSizes[t] \in Int /\ moved[t] \in Int
                             /\ OpenAt(p)[t] = OpenAt(q)[t] + moved[t]
      BY GainMoves
    <2>3. Multiple(SignedSizes, moved, p - q, Traders)
      BY <2>2 DEF Multiple
    <2> HIDE DEF moved
    <2>4. p - q \in Int /\ (p - q) * 0 = 0
      OBVIOUS
    <2>5. Total(moved) = (p - q) * Total(SignedSizes)
      BY <2>3, <2>4, SumScale, TradersAssumption DEF Total
    <2>6. Total(moved) = 0
      BY <2>1, <2>4, <2>5
    <2>7. Total(OpenAt(p)) = Total(OpenAt(q)) + Total(moved) /\ Total(OpenAt(q)) \in Int
      BY <2>2, SumPlus, SumType, TradersAssumption DEF Total
    <2>8. Total(OpenAt(p)) = Total(OpenAt(q))
      BY <2>6, <2>7
    <2> QED
      BY <2>8 DEF Claims, OpenAt
  <1> QED
    BY <1>1, FlatBook, TypeCorrect, PTL

\* The gain of a position is an integer.
LEMMA PnlOfPosition ==
  ASSUME NEW pos \in Position, NEW exit \in Nat
  PROVE  Pnl(pos.size, pos.entryPrice, exit, pos.isLong) \in Int
  BY PnlInt DEF Position

\* A payout is an integer, before a step and after it.
LEMMA PayoutInt ==
  ASSUME TypeOK, NEW t \in Traders
  PROVE  Payouts[t] = Payout(t) /\ Payouts[t] \in Int
  <1>1. positions[t] \in Position /\ collateralBalance[t] \in Nat /\ ExitPrice \in Nat
    BY DEF TypeOK, ExitPrice
  <1>2. PICK gain \in Int : gain = Pnl(positions[t].size, positions[t].entryPrice,
                                       ExitPrice, positions[t].isLong)
    BY <1>1, PnlOfPosition
  <1> QED
    BY <1>1, <1>2 DEF Payouts, Payout

LEMMA PayoutIntAfter ==
  ASSUME TypeOK', NEW t \in Traders
  PROVE  Payouts'[t] = Payout(t)' /\ Payouts'[t] \in Int
  <1>1. positions'[t] \in Position /\ collateralBalance'[t] \in Nat /\ ExitPrice' \in Nat
    BY DEF TypeOK, ExitPrice
  <1>2. PICK gain \in Int : gain = Pnl(positions'[t].size, positions'[t].entryPrice,
                                       ExitPrice', positions'[t].isLong)
    BY <1>1, PnlOfPosition
  <1> QED
    BY <1>1, <1>2 DEF Payouts, Payout

\* A position of size zero has no profit.
LEMMA NoPnl ==
  ASSUME NEW entry \in Nat, NEW exit \in Nat, NEW long \in BOOLEAN
  PROVE  Pnl(0, entry, exit, long) = 0
  <1> DEFINE d == IF long THEN exit - entry ELSE entry - exit
  <1>1. PICK z \in Int : z = d
    <2>1. CASE long
      BY <2>1
    <2>2. CASE ~long
      BY <2>2
    <2> QED
      BY <2>1, <2>2
  <1>2. 0 * z = 0 /\ TruncDiv(0, PRECISION) = 0
    BY DEF TruncDiv
  <1> QED
    BY <1>1, <1>2 DEF Pnl

\* A settlement takes a payout from the debt and from the tokens held.
LEMMA SettlementPays ==
  ASSUME TypeOK, resolved, NEW t \in Traders, SettleAndWithdraw(t)
  PROVE  /\ resolved' /\ held' = held - Payout(t)
         /\ Payouts'[t] = 0
         /\ \A u \in Traders : u # t => Payouts'[u] = Payouts[u]
  <1>1. PICK pos \in Position, exit \in Nat : pos = positions[t] /\ exit = ExitPrice
    BY DEF TypeOK, ExitPrice
  <1>2. resolved' = resolved /\ outcome' = outcome
    BY DEF SettleAndWithdraw, phase
  <1>3. ExitPrice' = exit /\ SettlementPrice = exit
    BY <1>1, <1>2 DEF ExitPrice, SettlementPrice
  <1>4. held' = held - Payout(t)
    BY <1>1, <1>3 DEF SettleAndWithdraw, Payout
  <1>5. /\ positions' = [positions EXCEPT ![t] = IF pos.size = 0 THEN pos ELSE NoPosition]
        /\ collateralBalance' = [collateralBalance EXCEPT ![t] = 0]
    BY <1>1 DEF SettleAndWithdraw
  <1>6. PICK left \in Position : /\ left = IF pos.size = 0 THEN pos ELSE NoPosition
                                 /\ left.size = 0
    BY <1>1, NoPositionType DEF NoPosition
  <1>7. positions'[t] = left /\ collateralBalance'[t] = 0
    BY <1>5, <1>6 DEF TypeOK
  <1>8. Pnl(0, left.entryPrice, exit, left.isLong) = 0
    BY NoPnl DEF Position
  <1>9. Payouts'[t] = 0
    BY <1>3, <1>6, <1>7, <1>8 DEF Payouts, Payout
  <1>10. ASSUME NEW u \in Traders, u # t
         PROVE  Payouts'[u] = Payouts[u]
    <2>1. positions'[u] = positions[u] /\ collateralBalance'[u] = collateralBalance[u]
      BY <1>5, <1>10 DEF TypeOK
    <2> QED
      BY <1>1, <1>3, <2>1 DEF Payouts, Payout
  <1> QED
    BY <1>2, <1>4, <1>9, <1>10

\* Once resolved, a step settles one trader or leaves payouts and tokens alone.
LEMMA ResolvedStep ==
  ASSUME [Next]_vars, resolved
  PROVE  \/ \E t \in Traders : SettleAndWithdraw(t)
         \/ UNCHANGED <<accounts, held, resolved, outcome>>
  <1>1. CASE UserStep
    <2>1. \A t \in Traders, amount \in Amounts : ~Deposit(t, amount) /\ ~Withdraw(t, amount)
      BY DEF Deposit, Withdraw, AdvanceFunding
    <2>2. \A taker \in Traders, price \in FillPrices, size \in FillSizes, o \in Orders :
            ~SubmitFill(taker, price, size, o)
      BY DEF SubmitFill, AdvanceFunding
    <2>3. (\A l, t \in Traders : ~Liquidate(l, t)) /\ ~UpdateFunding
      BY DEF Liquidate, UpdateFunding, AdvanceFunding
    <2>4. \A k \in Keys : CancelOrder(k) => UNCHANGED <<accounts, held, resolved, outcome>>
      BY DEF CancelOrder, phase, tokens
    <2> QED
      BY <1>1, <2>1, <2>2, <2>3, <2>4 DEF UserStep
  <1>2. CASE FactoryStep
    BY <1>2 DEF FactoryStep, SetIndexPrice, SetMarkMicrostructure, SetCloseOnly,
       SetFundingRateCaps, SetMaxLiquidationSizeBps, Resolve, phase, tokens
  <1>3. CASE Tick \/ UNCHANGED vars
    BY <1>3 DEF Tick, vars, phase, tokens
  <1> QED
    BY <1>1, <1>2, <1>3 DEF Next

\* Such a step keeps the difference between debt and tokens.
LEMMA DebtFollowsTokens ==
  ASSUME TypeOK, TypeOK', [Next]_vars, resolved
  PROVE  /\ resolved' /\ Owed \in Int /\ Owed' - held' = Owed - held
         /\ (\A t \in Traders : Payouts[t] >= 0) => \A t \in Traders : Payouts'[t] >= 0
  <1>1. \A t \in Traders : Payouts[t] \in Int /\ Payouts'[t] \in Int
    BY PayoutInt, PayoutIntAfter
  <1>2. Owed \in Int /\ held \in Int
    BY <1>1, SumType, TradersAssumption DEF Owed, Total, TypeOK
  <1>3. CASE UNCHANGED <<accounts, held, resolved, outcome>>
    <2>1. Payouts' = Payouts
      BY <1>3 DEF Payouts, Payout, ExitPrice, accounts
    <2> QED
      BY <1>2, <1>3, <2>1 DEF Owed, Total
  <1>4. ASSUME NEW t \in Traders, SettleAndWithdraw(t)
        PROVE  /\ resolved' /\ Owed' - held' = Owed - held
               /\ (\A u \in Traders : Payouts[u] >= 0) => \A u \in Traders : Payouts'[u] >= 0
    <2>1. /\ resolved' /\ held' = held - Payouts[t] /\ Payouts'[t] = 0
          /\ \A u \in Traders : u # t => Payouts'[u] = Payouts[u]
      BY <1>4, SettlementPays, PayoutInt
    <2>2. Owed' = Owed + Payouts'[t] - Payouts[t]
      BY <1>1, <2>1, SumChange, TradersAssumption DEF Owed, Total
    <2>3. Payouts[t] \in Int
      BY <1>1
    <2>4. Owed' - held' = Owed - held
      BY <1>2, <2>1, <2>2, <2>3
    <2> QED
      BY <2>1, <2>4
  <1> QED
    BY <1>2, <1>3, <1>4, ResolvedStep DEF Payouts

\* No order of settlements is better for anybody: each takes from the tokens held
\* exactly what it takes from the sum of the payouts.
THEOREM SettlementOrderIsFree == Spec => [][resolved => Owed' - held' = Owed - held]_vars
  <1>1. TypeOK /\ TypeOK' /\ [Next]_vars => [resolved => Owed' - held' = Owed - held]_vars
    BY DebtFollowsTokens
  <1> QED
    BY <1>1, TypeCorrect, PTL DEF Spec

\* A payout that all others leave nonnegative is within their sum.
LEMMA WithinOwed ==
  ASSUME TypeOK, NEW t \in Traders, \A u \in Traders : Payouts[u] >= 0
  PROVE  Payouts[t] <= Owed
  <1> DEFINE only == [u \in Traders |-> IF u = t THEN Payouts[u] ELSE 0]
  <1>1. \A u \in Traders : only[u] \in Int /\ Payouts[u] \in Int /\ only[u] <= Payouts[u]
    BY PayoutInt
  <1>2. OnlyAt(only, t, Traders) /\ only[t] = Payouts[t]
    BY <1>1 DEF OnlyAt
  <1> HIDE DEF only
  <1>3. SumFunctionOnSet(only, Traders) = Payouts[t]
    BY <1>2, SumOnlyAt, TradersAssumption
  <1>4. SumFunctionOnSet(only, Traders) <= SumFunctionOnSet(Payouts, Traders)
    BY <1>1, SumMonotonic, TradersAssumption
  <1> QED
    BY <1>3, <1>4 DEF Owed, Total

\* If once every trader of a resolved market covers the loss of the position and
\* the payouts add up to no more than the tokens, it stays so, and no payout is
\* ever negative or more than the tokens: settleAndWithdraw() reverts for nobody.
THEOREM CoveredMarketPays ==
  Spec => /\ [][AllPayable => AllPayable']_vars
          /\ [](AllPayable => \A t \in Traders : Payout(t) \in 0 .. held)
  <1>1. TypeOK /\ TypeOK' /\ [Next]_vars => [AllPayable => AllPayable']_vars
    <2> SUFFICES ASSUME TypeOK, TypeOK', [Next]_vars, AllPayable
                 PROVE  AllPayable'
      OBVIOUS
    <2>1. /\ \A t \in Traders : Payouts[t] >= 0
          /\ resolved /\ Owed <= held
      BY PayoutInt DEF AllPayable, Covered
    <2>2. /\ resolved' /\ Owed' - held' = Owed - held
          /\ \A t \in Traders : Payouts'[t] >= 0
      BY <2>1, DebtFollowsTokens
    <2>3. Owed \in Int /\ held \in Int
      BY PayoutInt, SumType, TradersAssumption DEF Owed, Total, TypeOK
    <2>4. Owed' \in Int /\ held' \in Int
      <3>1. \A t \in Traders : Payouts'[t] \in Int
        BY PayoutIntAfter
      <3>2. SumFunctionOnSet(Payouts', Traders) \in Int
        BY <3>1, SumType, TradersAssumption
      <3> QED
        BY <3>2 DEF Owed, Total, TypeOK
    <2>5. Owed' <= held'
      <3>1. PICK o \in Int, h \in Int, p \in Int, k \in Int :
              o = Owed /\ h = held /\ p = Owed' /\ k = held'
        BY <2>3, <2>4
      <3>2. o <= h /\ p - k = o - h
        BY <2>1, <2>2, <3>1
      <3>3. p <= k
        BY <3>2
      <3> QED
        BY <3>1, <3>3
    <2>6. \A t \in Traders : Covered(t)'
      BY <2>2, PayoutIntAfter DEF Covered
    <2> QED
      BY <2>2, <2>5, <2>6 DEF AllPayable
  <1>2. TypeOK => (AllPayable => \A t \in Traders : Payout(t) \in 0 .. held)
    <2> SUFFICES ASSUME TypeOK, AllPayable, NEW t \in Traders
                 PROVE  Payout(t) \in 0 .. held
      OBVIOUS
    <2>1. \A u \in Traders : Payouts[u] = Payout(u) /\ Payouts[u] >= 0 /\ Payouts[u] \in Int
      BY PayoutInt DEF AllPayable, Covered
    <2>2. Payouts[t] <= Owed /\ Owed <= held
      BY <2>1, WithinOwed DEF AllPayable
    <2>3. Owed \in Int /\ held \in Int
      BY <2>1, SumType, TradersAssumption DEF Owed, Total, TypeOK
    <2> QED
      BY <2>1, <2>2, <2>3
  <1> QED
    BY <1>1, <1>2, TypeCorrect, PTL DEF Spec
=============================================================================
