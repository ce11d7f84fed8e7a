\* Two publishers follow a book that changes, with failures and a kill switch.
SPECIFICATION Spec
CONSTANTS
  a = a
  b = b
  c = c
  m = m
  cron = cron
  dry = dry
  Hashes <- MCHashes
  NoHash = NoHash
  Makers = {m}
  Orders <- MCOrders
  NoOrder = NoOrder
  AnySalt = AnySalt
  Publishers = {cron, dry}
  DryRuns = {dry}
  Precision = 28
  MaxDeltaBps = 1
  Bps = 10
  MaxBookOps = 3
  MaxFaults = 1
  MaxKills = 2
PROPERTIES
  PublishedStep
  IndexFollowsBook
CHECK_DEADLOCK FALSE
