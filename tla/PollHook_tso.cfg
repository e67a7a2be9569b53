SPECIFICATION Spec
CONSTANTS
  f1 = f1
  f2 = f2
  NoFetcher = NoFetcher
  Fetchers <- OneFetcher
  BufferDepth = 2
  MaxStep = 1
CHECK_DEADLOCK FALSE
INVARIANTS
  NoCallOnFreed
