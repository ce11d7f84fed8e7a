\* Order books of one market: partial fills, twins, V1 nonces, cancels, expiry.
SPECIFICATION Spec
CONSTANTS
  a = a  b = b  c = c
  PRECISION = 4
  Traders <- Two
  Orders <- LedgerOrders
  FillPrices = {2}
  FillSizes <- LedgerSizes
  Amounts <- None
  IndexPrices <- None
  MicroConfigs <- None
  FundingCaps <- None
  LiquidationCaps <- None
  Params <- Deployed
  WORD = 1024
  FundingPeriod = 1
  MaxTime = 1
  WalletInit = 8
INVARIANTS LedgerInv NoOverfill NonceSpentOnce
PROPERTIES OrdersKeepPromise
CHECK_DEADLOCK FALSE
