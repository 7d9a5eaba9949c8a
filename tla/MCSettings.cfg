CONSTANTS
  Environment <- MCEnvironment
  Dials <- MCDials
  Real <- MCReal
  PlainAlgorithm <- MCPlain
  KeyedAlgorithm <- MCKeyed
  DefaultDials <- MCDefaultDials
  CostRange <- MCCostRange
  ComplexityRange <- MCComplexityRange
  MaxCalls = 5000000
  MaxIterations = 250000000
SPECIFICATION Spec
INVARIANTS
  TypeOK
  NothingUnenforced
  MapsMatchRouting
  ServedIsSolvable
  FilesOutlastPolicy
  CaptchaSlipKeepsBans
