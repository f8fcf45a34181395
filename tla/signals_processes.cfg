SPECIFICATION FairSpec
CONSTANTS
  None = None
  Master = m
  Process = {m, w}
  segv = segv
  quit = quit
  Signal <- MCSignal
  Flags = {"SA_RESETHAND", "SA_NODEFER"}
  Builds = {"mmap", "shm"}
  IniSegments <- MCIniSegments
  IniMasks = {"", "/dev/zero", "template"}
  MaxSignals = 2
  MaxHandlers = 1
CHECK_DEADLOCK FALSE
INVARIANTS ServesMapped NamesDropped CoreWithoutSegments EarlierHandlerCalled
PROPERTIES CoreSignalEnds
