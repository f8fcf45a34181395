SPECIFICATION Spec
CONSTANTS
  None = None
  Ghost = Ghost
  k1 = k1
  k2 = k2
  k3 = k3
  Proc = {w1, w2}
  Key = {k1, k2, k3}
  Val = {v1, v2}
  Serialized = {v2}
  Cell = {c1, c2, c3}
  Hash <- MCHash
  NSlots = 3
  NLocks = 2
  Ops = {"add", "fetch", "exists"}
  Recursive = {FALSE}
  LockMayFail = FALSE
  ProtectMemory = FALSE
  ZTS = FALSE
  Bailout = FALSE
  MaxCalls = 2
  MaxCrashes = 0
SYMMETRY Symmetry
INVARIANTS UniqueKeys NoDangling AnswerStable NoLeak HitsExact
PROPERTIES Immutable ImplementsMap
