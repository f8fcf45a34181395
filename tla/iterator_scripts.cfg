SPECIFICATION FairSpec
CONSTANTS
  None = None
  k1 = k1
  k2 = k2
  k3 = k3
  k4 = k4
  Key = {k1, k2, k3, k4}
  SlotOf <- MCSlotOf
  NSlots = 3
  Match = {k1, k2, k3}
  ChunkSize = 1
  Scripts = {"foreach", "free"}
  LockMayFail = TRUE
  Bailout = TRUE
  Wakes = {k1}
  WakeOp = "fetch"
  MaxCalls = 6
  MaxLoops = 2
  HitKeys = {k1}
  MaxHits = 1
INVARIANTS YieldedOnce LoopComplete CurrentStays TotalsBounded LockReleased
PROPERTIES LoopEnds
