CONSTANTS
  AB_MAX_PRIORITY = 15
  AB_MAX_TRIES = 2
  MaxRelease = 3
  MaxAttempts = 2
  MaxFaults = 3
  FaultKinds = {"power", "query"}
SPECIFICATION LiveSpec
PROPERTIES
  InstallResolves
  RejectedCandidateIsLeft
