---------------------------- MODULE EventMarketMC ----------------------------
(***************************************************************************)
(* Instances of EventMarket for TLC.  Every run has a section of           *)
(* definitions its .cfg gives to the constants.                            *)
(***************************************************************************)
EXTENDS EventMarketAccounting

CONSTANTS a, b, c     \* model values: the traders

Two   == {a, b}
Three == {a, b, c}

Signed(maker, price, size, isLong, nonce, expiry, salt) ==
  [maker |-> maker, price |-> price, size |-> size, isLong |-> isLong,
   nonce |-> nonce, expiry |-> expiry, salt |-> salt]

None == {}
Deployed == ProxyParams
Declared == DeclaredParams

-----------------------------------------------------------------------------
(* Order books: twins that share a hash, rivals for one V1 nonce, an order  *)
(* for the next nonce, one that expires; partial fills and cancels.         *)
LedgerOrders == {
  Signed(a, 2, 3, TRUE,  0, 1, 1), Signed(a, 2, 3, FALSE, 0, 1, 1),
  Signed(a, 2, 1, TRUE,  0, 1, 0), Signed(a, 2, 2, FALSE, 0, 1, 0),
  Signed(a, 2, 1, FALSE, 1, 1, 0), Signed(b, 2, 2, FALSE, 5, 0, 2) }
LedgerSizes == {1, 2}

-----------------------------------------------------------------------------
(* Trading and settlement with the parameters of a created market: opens,   *)
(* averages, reductions and flips by three traders, withdrawals, both       *)
(* outcomes; collateral that covers any loss or not, two sizes and two      *)
(* prices, so that some averages are exact and some are truncated, in       *)
(* favour of the market or against it.                                      *)
TradingOrders == { Signed(a, 3, 8, TRUE, 0, 0, 1), Signed(b, 1, 4, TRUE, 0, 0, 1) }

-----------------------------------------------------------------------------
(* Funding and mark: two traders, both signs of the premium, several        *)
(* periods at once, a word small enough to wrap, a clamp that bites.        *)
FundingOrders == { Signed(a, 3, 8, TRUE, 0, 3, 1), Signed(b, 1, 4, TRUE, 0, 3, 1) }
FundingBoth == {<<1, -1>>}
FundingMicro == {<<10000, 1000>>}

(* Risk: the declared parameters, sizes large enough for fees, penalties    *)
(* and rewards not to round to zero.  The small orders set the mark: while  *)
(* it is zero a long needs its whole notional as collateral.                *)
RiskOrders == { Signed(a, 5, 10000, TRUE, 0, 0, 1), Signed(c, 4, 1000, FALSE, 0, 0, 2),
                Signed(c, 4, 1000, FALSE, 0, 0, 3) }
RiskMicro == {<<10000, 0>>}
\* Bounds of this run: nothing follows resolution or close-only mode (which only
\* fills read), and a chain of liquidations is followed until less than a tenth
\* of the large position is left.
RiskBound == ~resolved /\ ~closeOnly /\ \A t \in Traders :
                positions[t].size = 0 \/ positions[t].size >= 1000
=============================================================================
