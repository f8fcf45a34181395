SPECIFICATION FairSpec
CONSTANTS
  None = None
  Thread = {t1, t2, t3}
  Kinds = {"rwlock", "mutex", "spin", "fcntl", "srw"}
  Zts = FALSE
  LockMayFail = TRUE
  FcntlMayFail = TRUE
  t1 = t1
  t2 = t2
  t3 = t3
  OpsOf <- MCOpsOf
  MaxFaults = 1
CHECK_DEADLOCK FALSE
INVARIANTS IdleHoldsNothing
PROPERTIES ImplementsRWLock Drains
