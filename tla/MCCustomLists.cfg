CONSTANTS
  Lists <- BothLists
  MapTypes = {"txt", "dbm"}
  TwoFileBackend = TRUE
  MaxStamp = 3
  MaxFaults = 3
SPECIFICATION FairSpec
INVARIANTS
  TypeOK
  SettledIsLive
PROPERTIES
  NewMapIsRecent
  EditGoesLive
  DeletedMapComesBack
