CONSTANTS
  AB_MAX_PRIORITY = 15
  AB_MAX_TRIES = 2
  MaxRelease = 3
  MaxAttempts = 2
  MaxFaults = 3
  FaultKinds = {"kill", "stop", "power", "save", "query", "reboot", "start"}
SPECIFICATION Spec
INVARIANTS
  InstallAtMostOnce
  ConfirmedOnlyAfterHealth
  FallbackExists
  NeverSelectsPartialImage
  SuccessMeansConfirmed
  RollbackArmed
  NoConflictingReports
  DeviceInv
PROPERTIES
  TerminalIsFinal
  RebootOnlyWhenArmed
  TrialUpdate
