SPECIFICATION Spec
CONSTANTS
  None = None
  Ghost = Ghost
  k1 = k1
  k2 = k2
  k3 = k3
  Proc = {w1, w2}
  Key = {k1, k2}
  Val = {v1}
  Serialized = {}
  Cell = {c1, c2, c3}
  Hash <- MCHash2
  NSlots = 3
  NLocks = 2
  Ops = {"add", "fetch", "stat", "info"}
  Recursive = {FALSE, TRUE}
  LockMayFail = TRUE
  ProtectMemory = TRUE
  ZTS = FALSE
  Bailout = FALSE
  MaxCalls = 2
  MaxCrashes = 1
CHECK_DEADLOCK FALSE
SYMMETRY Symmetry
INVARIANTS IndInv InfoConsistent NoFault
PROPERTIES ImplementsMap
