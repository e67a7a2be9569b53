SPECIFICATION FairSpec
CONSTANTS
  r1 = r1
  r2 = r2
  Ranks <- TwoRanks
  Rows = 3
  SpLayers = 1
  TailLayers = 2
  Window = 1
  Cases <- Looked
CHECK_DEADLOCK FALSE
INVARIANTS
  OneRunner
  OwnState
  StreamOrder
  SameCollectives
  TailGated
  GroupsCover
  RaisesForAReason
PROPERTIES
  StepEnds
