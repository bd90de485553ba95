CONSTANTS
  Networks = {x, y}
  Endpoints = {e}
  Nothing = Nothing
  MaxRequests = 3
  MaxFaults = 2
  MaxCycles = 1
SPECIFICATION Spec
INVARIANTS
  CommittedIsDurable
  ConnectedIsCanonical
  NoLostRetry
  WifiInv
PROPERTIES
  CanonicalFirst
