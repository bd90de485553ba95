CONSTANTS
  Networks = {x}
  Endpoints = {e}
  Nothing = Nothing
  MaxRequests = 1
  MaxFaults = 1
  MaxCycles = 1
SPECIFICATION Spec
INVARIANTS
  CycleKeepsEndpoint
