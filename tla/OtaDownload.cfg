CONSTANTS
  Artifacts = {x, y}
  Stale = Stale
  Garbage = Garbage
  Size = 2
  Inodes = {1, 2, 3}
  MaxFaults = 2
SPECIFICATION Spec
INVARIANTS
  BundleReadyForRauc
  PublishedIsWhole
  StalePartialIsGone
  DownloadInv
