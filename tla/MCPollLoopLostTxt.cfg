CONSTANTS
  ip1 = ip1
  IP <- OneIP
  MapOrder <- MCMapOrder
  MapTypes = {"dbm"}
  TwoFileBackend = FALSE
  ResyncEnabled = TRUE
  Deletable = TRUE
  MaxFaults = 3
  MinSnapshotIPs = 1
  SnapshotShrinkDenom = 2
SPECIFICATION Spec
PROPERTIES
  ExistingMapsLeftAlone
