SPECIFICATION FairSpec
CONSTANTS
  v = v  w = w  x = x  y = y  z = z
  b1 = b1  b2 = b2
  A = A  LAN = LAN
  vl = vl  wa = wa  xa = xa  xl = xl  ya = ya  za = za
  ID = {x}
  IP <- MCIP
  Endpoint <- OneEndpoint
  Bucket = {b1}
  bucketOf <- OneBucketOf
  Subnet = {A}
  netOf <- MCnetOf
  bucketSize = 2
  maxReplacements = 1
  bucketIPLimit = 2
  tableIPLimit = 3
  Waiter = {r1, r2}
  initDone = initDone
  None = None
  MayClose = TRUE
  maxQueries = 1
INVARIANT NoDoubleClose
PROPERTY RefreshReturns
PROPERTY CloseReturns
PROPERTY RevalidationGoesOn
