\* Funding of either sign, while no addition overflows.
SPECIFICATION Spec
CONSTANTS
  a = a  b = b  c = c
  Traders <- Two
  Orders <- FundingOrders
  FillPrices = {1, 3}
  FillSizes = {4}
  Amounts = {20}
  IndexPrices = {2, 4}
  MicroConfigs <- FundingMicro
  FundingCaps <- FundingBoth
  LiquidationCaps <- None
  Params <- Deployed
  WORD = 64
  FundingPeriod = 1
  MaxTime = 2
  WalletInit = 20
  PRECISION = 4
INVARIANTS MarkInRange
PROPERTIES ClaimsConservedTrading AccruesFromChange MarkStaysSet
CHECK_DEADLOCK FALSE
