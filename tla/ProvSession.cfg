CONSTANTS
  Peers = {p, q}
  Frames <- MCFrames
  None = None
  OneShot = TRUE
  MaxIncomplete = 8
  CacheLimit = 1
  MaxWindows = 2
  MaxPeerEpochs = 5
SPECIFICATION Spec
SYMMETRY PeerSymmetry
INVARIANTS
  ResultIsOwn
  AcceptedIsRunning
  ReadIsCurrent
  NoCommitAfterCut
  SessionInv
PROPERTIES
  RetryRunsOnce
CHECK_DEADLOCK FALSE
