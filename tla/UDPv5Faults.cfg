SPECIFICATION Spec
CONSTANTS
  n1 = n1
  n2 = n2
  c1 = c1
  c2 = c2
  c3 = c3
  NoCall = NoCall
  Node = {n1, n2}
  Call = {c1, c2, c3}
  NodeOf <- ThreeCalls
  Multi = {}
  EncodeErrors = TRUE
  TempErrors = TRUE
  MayClose = TRUE
  MaxPackets = 1
INVARIANT AuthNamesActiveCall
INVARIANT BufferIsExclusive
INVARIANT NoWaiterForgotten
SYMMETRY Symmetry
CHECK_DEADLOCK FALSE
