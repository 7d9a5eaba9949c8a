CONSTANTS
  IP = {a1, a2}
  Solver = {s1, s2}
  None = None
  FailAt <- Failure
SPECIFICATION FairSpec
INVARIANTS
  TypeOK
  ExemptionsHaveExpiry
  RedirectsLeadToChallenge
  SolvedGetsThrough
PROPERTIES
  ExemptionEnds
  MapComesBack
  DeadRedirectsEnd
