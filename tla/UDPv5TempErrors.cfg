SPECIFICATION FairSpec
CONSTANTS
  n1 = n1
  n2 = n2
  c1 = c1
  c2 = c2
  c3 = c3
  NoCall = NoCall
  Node = {n1}
  Call = {c1, c2}
  NodeOf <- TwoCalls
  Multi = {c1}
  EncodeErrors = FALSE
  TempErrors = TRUE
  MayClose = FALSE
  MaxPackets = 3
PROPERTY TemporaryErrorsIgnored
CHECK_DEADLOCK FALSE
