CONSTANTS
  Networks = {x}
  Endpoints = {e}
  Nothing = Nothing
  MaxRequests = 1
  MaxFaults = 1
  MaxCycles = 0
SPECIFICATION Spec
INVARIANTS
  NoneMeansUnchanged
