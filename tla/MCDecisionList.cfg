CONSTANTS
  ip1 = ip1
  ip2 = ip2
  id1 = id1
  id2 = id2
  id3 = id3
  IP <- MCIP
  DecisionId <- MCDecisionId
  Remediation <- MCRemediation
  DecisionType <- MCDecisionType
  Value <- MCValue
  Covers <- MCCovers
  Oversized <- MCOversized
  Route <- MCRoute
  NoMap = "none"
  Nil = Nil
  MinSnapshotIPs = 2
  SnapshotShrinkDenom = 2
  ResortThreshold = 1
  MaxSkipped = 1
SPECIFICATION Spec
SYMMETRY Symmetry
INVARIANTS
  TypeOK
  RefcountExact
  RenderedInStep
PROPERTIES
  DeltaReportIsNet
  MassUnbanIsConfirmed
  ListSpec
