SPECIFICATION Spec
CONSTANTS
  a = a  b = b  a1 = a1  a2 = a2  b1 = b1
  None = None
  Node = {a, b}
  Call = {a1, a2, b1}
  From <- MCFrom
  To <- MCTo
  MaxSeq <- MCMaxSeq
  MaxFaults = 1
INVARIANT CountersNeverReused
INVARIANT UndisturbedCallSucceeds
INVARIANT RecordIsCurrent
SYMMETRY Exchange
CHECK_DEADLOCK FALSE
