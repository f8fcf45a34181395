SPECIFICATION Spec
CONSTANTS
  None = None
  k1 = k1
  k2 = k2
  k3 = k3
  k4 = k4
  Key = {k1, k2, k3}
  SlotOf <- MCSlotOf3
  NSlots = 2
  Match = {k1, k2, k3}
  ChunkSize = 1
  Scripts = {"free"}
  LockMayFail = FALSE
  Bailout = FALSE
  HitKeys = {k1}
  MaxHits = 1
  Wakes = {}
  WakeOp = "fetch"
  MaxCalls = 6
  MaxLoops = 0
INVARIANTS GetInRange
