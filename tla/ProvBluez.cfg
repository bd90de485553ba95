CONSTANTS
  MaxFailures = 3
  MaxRestarts = 1
  MaxInbox = 3
SPECIFICATION LiveSpec
INVARIANTS
  QuietOutsideWindow
  BluezInv
PROPERTIES
  RegistrationCompletes
CHECK_DEADLOCK FALSE
