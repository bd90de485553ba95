CONSTANTS
  Ids = {r1, r2, r3}
  NoId = NoId
  CONTROL_CACHE_SIZE = 2
  MaxRequests = 4
SPECIFICATION LiveSpec
INVARIANTS
  AcceptedIsConsumedOnce
  RetryIsIdempotent
  ControlInv
PROPERTIES
  AcceptedStartsCycle
  CloseEnds
