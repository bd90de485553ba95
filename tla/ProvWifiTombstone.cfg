CONSTANTS
  Networks = {x}
  Endpoints = {e}
  Nothing = Nothing
  MaxRequests = 3
  MaxFaults = 0
  MaxCycles = 0
SPECIFICATION Spec
INVARIANTS
  TombstoneCanComplete
