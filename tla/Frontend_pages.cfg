\* Two tabs sign, select and fill orders, or approve, deposit, mint and redeem,
\* or two operators create and resolve markets.
SPECIFICATION Spec
CONSTANTS
  Parts = {"trade", "funds", "admin"}
  t1 = t1
  t2 = t2
  a = a
  b = b
  Tabs = {t1, t2}
  Pages = {t1, t2}
  Wallets = {a, b}
  Offers <- OneOffer
  Prices = {2}
  Sizes = {1}
  Grain = 2
  NoOrder = NoOrder
  NoTx = NoTx
  MaxOrders = 2
  MaxExtras = 1
  Amounts = {2}
  WalletInit = 3
  SharesInit = 1
  MaxCalls = 3
  Operators = {a, b}
  Nobody = Nobody
  Days = {0, 1}
  MaxSent = 3
  MaxClock = 1
SYMMETRY Symmetric
INVARIANTS
  SignedOrdersKept
  FormFollowsSelection
  RecordsAgree
PROPERTIES
  FailedFillIsExcused
  FailedFundsCallIsExcused
  ResolutionIsFinal
  FailedCallIsExcused
CHECK_DEADLOCK FALSE
