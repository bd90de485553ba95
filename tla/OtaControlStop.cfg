CONSTANTS
  Ids = {r1}
  NoId = NoId
  CONTROL_CACHE_SIZE = 1
  MaxRequests = 1
SPECIFICATION Spec
INVARIANTS
  StopWakesTheWait
