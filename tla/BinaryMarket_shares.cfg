\* Shares, trades, cancels and redemption of one binary market.
SPECIFICATION RedeemSpec
CONSTANTS
  a = a  b = b
  PRECISION = 4
  Traders = {a, b}
  Orders <- BinaryOrders
  FillPrices = {2, 3}
  FillSizes = {1, 2}
  Amounts = {1, 2}
  MaxTime = 1
  WalletInit = 2
INVARIANTS TypeOK FullyBacked LedgerInv
PROPERTIES OrdersKeepPromise WinnersArePaid
CHECK_DEADLOCK FALSE
