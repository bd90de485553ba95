CONSTANTS
  AB_MAX_PRIORITY = 15
  AB_MAX_TRIES = 2
  Procs = {p1, p2}
  NoProc = NoProc
  MaxCalls = 3
  current = "a"
SPECIFICATION Spec
INVARIANTS
  BothViewsBootable
  SuccessIsDurable
  WriterInv
PROPERTIES
  Atomic
