CONSTANTS
  ip1 = ip1
  IP <- OneIP
  MapOrder <- MCMapOrder
  MapTypes = {"txt"}
  TwoFileBackend = FALSE
  ResyncEnabled = FALSE
  Deletable = FALSE
  MaxFaults = 1
  MinSnapshotIPs = 1
  SnapshotShrinkDenom = 2
SPECIFICATION FairSpec
PROPERTIES
  EveryChangeIsWritten
