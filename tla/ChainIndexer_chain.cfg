\* Two workers beside a chain that reorganises, with the head the code expects.
SPECIFICATION Spec
CONSTANTS
  a = a
  m = m
  fill = fill
  indexer = indexer
  reconciler = reconciler
  Hashes = {a}
  NoHash = NoHash
  Makers = {m}
  Orders <- MCOrders
  NoOrder = NoOrder
  AnySalt = AnySalt
  Fills = {fill}
  Workers = {indexer, reconciler}
  Reconcilers = {reconciler}
  Finality = 1
  BigIntHead = TRUE
  MaxHeight = 3
  MaxMined = 4
  MaxReorgs = 1
  MaxFaults = 1
INVARIANTS
  TypeOK
  NothingMissed
  NothingInvented
  AppliedMeansOut
CHECK_DEADLOCK FALSE
