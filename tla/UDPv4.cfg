SPECIFICATION FairSpec
CONSTANTS
  n1 = n1  n2 = n2
  f = f  g = g  b = b
  NoRequest = NoRequest
  Node = {n1, n2}
  Request = {f, g, b}
  NodeOf <- MCNodeOf
  KindOf <- MCKindOf
  PingBack = {b}
  Known = {n2}
  bucketSize = 1
  MaxPackets = 2
  MayClose = TRUE
INVARIANT NoEarlyTimeout
INVARIANT EndpointProof
PROPERTY EveryRequestReturns
PROPERTY CloseReturns
CHECK_DEADLOCK FALSE
