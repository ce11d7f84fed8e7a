\* Finding: truncated averages leave the last winner of a resolved market unpaid.
SPECIFICATION SettleSpec
CONSTANTS
  a = a  b = b  c = c
  Traders <- Three
  Orders <- TradingOrders
  FillPrices = {1, 3}
  FillSizes = {3, 4}
  Amounts = {6}
  IndexPrices <- None
  MicroConfigs <- None
  FundingCaps <- None
  LiquidationCaps <- None
  Params <- Deployed
  WORD = 1024
  FundingPeriod = 1
  MaxTime = 0
  WalletInit = 6
  PRECISION = 4
PROPERTIES CoveredMarketSettles
CHECK_DEADLOCK FALSE
