SPECIFICATION FairSpec
CONSTANTS
  n1 = n1
  n2 = n2
  c1 = c1
  c2 = c2
  c3 = c3
  NoCall = NoCall
  Node = {n1}
  Call = {c1}
  NodeOf <- OneCall
  Multi = {c1}
  EncodeErrors = FALSE
  TempErrors = FALSE
  MayClose = TRUE
  MaxPackets = 3
PROPERTY CloseEndsDispatch
CHECK_DEADLOCK FALSE
