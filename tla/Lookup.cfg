SPECIFICATION FairSpec
CONSTANTS
  Node = {1, 2, 4, 5, 6}
  Self = 3
  Known = {5, 6}
  Neighbours <- MCNeighbours
  alpha = 2
  bucketSize = 3
  MaxLookups = 2
INVARIANT QueriesAccounted
INVARIANT ResultIsClosest
INVARIANT SearchIsComplete
INVARIANT EachNodeOnce
PROPERTY QueriesEnd
PROPERTY AdvanceReturns
CHECK_DEADLOCK FALSE
