\* Finding: the reconciler throws on the number ethers returns for the head.
SPECIFICATION Spec
CONSTANTS
  a = a
  m = m
  fill = fill
  indexer = indexer
  reconciler = reconciler
  Hashes = {a}
  NoHash = NoHash
  Makers = {m}
  Orders <- MCOrders
  NoOrder = NoOrder
  AnySalt = AnySalt
  Fills = {}
  Workers = {reconciler}
  Reconcilers = {reconciler}
  Finality = 1
  BigIntHead = FALSE
  MaxHeight = 3
  MaxMined = 3
  MaxReorgs = 0
  MaxFaults = 0
PROPERTIES
  CancelReachesBook
CHECK_DEADLOCK FALSE
