\* Overlapping requests, lost answers and crashes of the matcher API.
SPECIFICATION Spec
CONSTANTS
  a = a
  b = b
  m = m
  ip = ip
  lower = lower
  bare = bare
  key = key
  long = long
  h1 = h1
  h2 = h2
  s0 = s0
  Hashes <- MCHashes
  NoHash = NoHash
  Makers = {m}
  Orders <- MCOrders
  NoOrder = NoOrder
  AnySalt = AnySalt
  Window = 0
  IpLimit = 3
  MakerLimit = 2
  Ips = {ip}
  Spellings = {lower, bare}
  Keys = {key, long}
  LongKeys = {long}
  NoKey = NoKey
  Requests <- MCRequests
  NoRequest = NoRequest
  Handlers = {h1, h2}
  NoMaker = NoMaker
  NoSalt = NoSalt
  EmptySalt = EmptySalt
  MaxExpiryOffset = 2
  MaxNow = 1
  MaxSends = 3
  MaxFaults = 1
SYMMETRY Symmetric
INVARIANTS
  TypeOK
  RetryIsSafe
  OneEffectPerKey
  CachesAgree
  CanceledMeansGone
PROPERTIES
  OrdersKeepPromise
CHECK_DEADLOCK FALSE
