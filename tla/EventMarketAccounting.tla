------------------------ MODULE EventMarketAccounting ------------------------
(***************************************************************************)
(* The properties of EventMarket that add up over the traders: open        *)
(* interest, what the market owes against the tokens it holds, margin and  *)
(* liquidation, and what settlement pays.                                  *)
(***************************************************************************)
EXTENDS EventMarket, Functions, FiniteSets

ASSUME TradersAssumption == IsFiniteSet(Traders)     \* an address has 160 bits

Total(f) == SumFunctionOnSet(f, Traders)

\* What a position adds to the open interest of a side.
OnSide(pos, side) == IF pos.isLong = side THEN pos.size ELSE 0

OpenInterest(side) == Total([t \in Traders |-> OnSide(positions[t], side)])

Balanced == OpenInterest(TRUE) = OpenInterest(FALSE)

\* Until the market is resolved every long is somebody's short, as the
\* specification says.  It holds of a market created by the factory: its
\* maintenance margin is zero, so none of its positions can be liquidated.  Where
\* they can be, a liquidation closes one side alone.
OIBalanced == ~resolved => Balanced

Abs(x) == IF x >= 0 THEN x ELSE -x

Gain(pos, exit) == pos.size * (IF pos.isLong THEN exit - pos.entryPrice
                                             ELSE pos.entryPrice - exit)

Pending(pos) ==
  LET due == pos.size * (AsSigned(fundingIndex) - AsSigned(pos.lastFundingIndex))
  IN  IF pos.isLong THEN -due ELSE due

\* What the market owes beyond the tokens it holds if all positions are closed
\* at `exit`, in units of 1/PRECISION of a token.
Claims(exit) ==
  PRECISION * (Total(collateralBalance) + insuranceFund - held)
    + Total([t \in Traders |-> Gain(positions[t], exit) + Pending(positions[t])])

\* What truncation may move in a step: a division for the funding that is paid
\* up to `index`, one for the PnL of what is closed, and the remainder of an
\* averaged entry.
Truncated(old, new, index) ==
  LET turned == new.isLong # old.isLong
  IN  (IF new # old /\ old.lastFundingIndex # index THEN PRECISION - 1 ELSE 0)
        + (IF new.size < old.size \/ turned THEN PRECISION - 1 ELSE 0)
        + (IF new.size > old.size /\ old.size > 0 /\ ~turned THEN new.size - 1
                                                             ELSE 0)

Dust ==
  Total([t \in Traders |-> Truncated(positions[t], positions'[t], fundingIndex')])

ExitPrice == IF resolved THEN (IF outcome THEN PRECISION ELSE 0) ELSE markPrice

\* Both sides are valued at the exit price from before the step.
ConservingStep == \A m \in {ExitPrice} : Abs(Claims(m)' - Claims(m)) <= Dust

\* Funding has a receiver for every payer when the sides are equal, which they
\* are until a liquidation closes one side alone; and a settlement drops what is
\* pending.  Any other step pays no funding that is not somebody's.
FundingNetted ==
  /\ Balanced \/ fundingIndex' = fundingIndex
  /\ resolved => \A t \in Traders :
       positions'[t] # positions[t] => Pending(positions[t]) = 0

\* No transaction creates or destroys value at the price positions are closed
\* at: deposits, fills that open, average, reduce or flip, fees, funding,
\* liquidations, withdrawals and settlements only move it between traders, the
\* insurance fund and the tokens held.
ClaimsConserved == [][FundingNetted => ConservingStep]_vars

\* The same of every step until the market is resolved.
ClaimsConservedTrading == [][~resolved => ConservingStep]_vars

-----------------------------------------------------------------------------
(* Margin and liquidation.                                                 *)

Deficit(a) == Maintenance(a) - Equity(a, markPrice)
LiquidationSlack == 1     \* the token the divisions of one liquidation may lose

\* A liquidation, penalty included, leaves its trader no further from the
\* maintenance margin than the funding it had to settle first put it, but for the
\* token its divisions may lose: repeated partial calls cannot chase a trader down.
LiquidationHeals == [][
  ~resolved /\ executed' = executed =>
    \A t \in Traders : positions'[t].size < positions[t].size =>
      Deficit(Account(t))'
        <= Deficit(Settled(Account(t), fundingIndex')) + LiquidationSlack]_vars

-----------------------------------------------------------------------------
(* Settlement.                                                             *)

\* What settleAndWithdraw() owes a trader of a resolved market.
Payout(t) == collateralBalance[t] + Pnl(positions[t].size,
               positions[t].entryPrice, ExitPrice, positions[t].isLong)
Covered(t) == Payout(t) >= 0
Paid(t) == collateralBalance[t] = 0 /\ positions[t].size = 0

\* What the payouts add up to, and the state in which each of them and their
\* sum can be paid.
Payouts == [t \in Traders |-> Payout(t)]
Owed == Total(Payouts)
AllPayable == /\ resolved
              /\ \A t \in Traders : Covered(t)
              /\ Owed <= held

\* From a resolved market in which every trader covers the loss of the position
\* and the payouts add up to no more than the tokens held, every trader who asks
\* is paid and loses the position, in whatever order they come: nobody is paid
\* from what another one is owed.
PayableMarketSettles == AllPayable ~> \A t \in Traders : Paid(t)

\* What the specification says of every resolved market: each trader who covers
\* the loss of the position calls settleAndWithdraw() and is paid.
CoveredMarketSettles ==
  resolved /\ (\A t \in Traders : Covered(t)) ~> \A t \in Traders : Paid(t)
=============================================================================
