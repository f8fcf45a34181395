SPECIFICATION Spec
CONSTANTS
  None = None
  NotString = NotString
  MinusOne = MinusOne
  True = True
  w1 = w1
  w2 = w2
  k1 = k1
  k2 = k2
  Worker = {w1, w2}
  Key = {k1, k2}
  MaxLen = 2
  MaxCalls = 2
SYMMETRY ApiSymmetry
CHECK_DEADLOCK FALSE
INVARIANTS AddReportsFailures LookupBracketed
