SPECIFICATION RequestsSpec
CONSTANTS
  hashBits = 4
  nBuckets = 2
  bucketSize = 5
  lookupRequestLimit = 3
  findnodeResultLimit = 5
  totalNodesResponseLimit = 2
  nodesResponseItemLimit = 2
  Self = 1
  Dest = 0
  Other = {1, 2, 4, 5, 6, 8}
  Target = {0, 3, 12}
  LAN = {1, 6}
  MaxSeq = 3
  MaxChanges = 1
  MaxFaults = 1
  Length = {1, 499, 500, 501, 1000, 1001}
  Protocol <- Names
  MaxMessages = 2
INVARIANT AnswerIsWhole
INVARIANT CloserNodesArrive
INVARIANT ResolvedIsNewest
INVARIANT CompletedIsWhole
INVARIANT IndexLeadsToField
INVARIANT BranchesProve
CHECK_DEADLOCK FALSE
