SPECIFICATION FairSpec
CONSTANTS
  f1 = f1
  f2 = f2
  NoFetcher = NoFetcher
  Fetchers <- TwoFetchers
  BufferDepth = 1
  MaxStep = 2
CHECK_DEADLOCK FALSE
INVARIANTS
  OneCaller
  ServedInOrder
PROPERTIES
  ClearEnds
  RequestBegun
