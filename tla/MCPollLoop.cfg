CONSTANTS
  ip1 = ip1
  IP <- OneIP
  MapOrder <- MCMapOrder
  MapTypes = {"txt", "dbm"}
  TwoFileBackend = TRUE
  ResyncEnabled = TRUE
  Deletable = TRUE
  MaxFaults = 3
  MinSnapshotIPs = 1
  SnapshotShrinkDenom = 2
SPECIFICATION FairSpec
INVARIANTS
  TypeOK
  FilesInStep
  EnsuredMapsExist
  RetiredListsEmpty
  NoneMissingOncePolling
PROPERTIES
  MapsSpec
  Converges
