CONSTANTS
  IP = {a1}
  Request = {r1, r2, r3, r4}
  None = None
  MintTokens = 2
  MaxLive = 1
  TTL = 2
  MaxLifetime = 3
  SweepEvery = 1
  WritesFail = TRUE
  MaxClock = 1
SPECIFICATION FairSpec
PROPERTIES
  EveryRequestEnds
