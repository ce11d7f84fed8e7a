\* Margin, fees and liquidation with the declared parameters.
SPECIFICATION Spec
CONSTANTS
  a = a  b = b  c = c
  Traders <- Three
  Orders <- RiskOrders
  FillPrices = {4, 5}
  FillSizes = {10000}
  Amounts = {1300}
  IndexPrices <- None
  MicroConfigs <- RiskMicro
  FundingCaps <- None
  LiquidationCaps = {4500}
  Params <- Declared
  WORD = 1024
  FundingPeriod = 1
  MaxTime = 0
  WalletInit = 1300
  PRECISION = 10
CONSTRAINT RiskBound
INVARIANTS TypeOK
PROPERTIES ClaimsConserved LiquidationHeals
CHECK_DEADLOCK FALSE
