SPECIFICATION Spec
CONSTANTS
  r1 = r1
  r2 = r2
  Ranks <- TwoRanks
  Rows = 3
  SpLayers = 1
  TailLayers = 2
  Window = 1
  Cases <- Shortened
CHECK_DEADLOCK FALSE
INVARIANT
  StreamOrder
