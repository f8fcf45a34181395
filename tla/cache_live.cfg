SPECIFICATION FairSpec
CONSTANTS
  None = None
  Ghost = Ghost
  k1 = k1
  k2 = k2
  k3 = k3
  Proc = {w1, w2}
  Key = {k1, k2}
  Val = {v1}
  Serialized = {v1}
  Cell = {c1, c2}
  Hash <- MCHash2
  NSlots = 3
  NLocks = 2
  Ops = {"add", "fetch", "info", "smainfo"}
  Recursive = {FALSE, TRUE}
  LockMayFail = FALSE
  ProtectMemory = FALSE
  ZTS = FALSE
  Bailout = TRUE
  MaxCalls = 2
  MaxCrashes = 0
CHECK_DEADLOCK FALSE
PROPERTIES Completes ReadsComplete
