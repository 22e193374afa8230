SPECIFICATION Spec
CONSTANTS
  v = v  w = w  x = x  y = y  z = z
  b1 = b1  b2 = b2
  A = A  LAN = LAN
  vl = vl  wa = wa  xa = xa  xl = xl  ya = ya  za = za
  ID <- MCID
  IP <- MCIP
  Endpoint <- MCEndpoint
  Bucket = {b1, b2}
  bucketOf <- MCbucketOf
  Subnet = {A}
  netOf <- MCnetOf
  bucketSize = 2
  maxReplacements = 1
  bucketIPLimit = 2
  tableIPLimit = 3
  Waiter = {}
  initDone = initDone
  None = None
  MayClose = FALSE
  maxQueries = 1
INVARIANT TypeOK
INVARIANT OncePerTable
PROPERTY EvictionHasCause
PROPERTY UncountedOnlyWhenStale
SYMMETRY Exchange
