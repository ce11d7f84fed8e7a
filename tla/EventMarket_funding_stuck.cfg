\* Finding: the funding index cannot follow a rate that turns negative twice.
SPECIFICATION FundingSpec
CONSTANTS
  a = a  b = b  c = c
  Traders <- Two
  Orders <- FundingOrders
  FillPrices = {1, 3}
  FillSizes = {8}
  Amounts <- None
  IndexPrices = {2}
  MicroConfigs <- None
  FundingCaps <- FundingBoth
  LiquidationCaps <- None
  Params <- Deployed
  WORD = 64
  FundingPeriod = 1
  MaxTime = 2
  WalletInit = 0
  PRECISION = 4
PROPERTIES FundingCatchesUp
CHECK_DEADLOCK FALSE
