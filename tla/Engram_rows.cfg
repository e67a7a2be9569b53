SPECIFICATION FairSpec
CONSTANTS
  a = a
  b = b
  z = z
  Zero = Zero
  Torn = Torn
  NLayers = 2
  Owned <- TwoRows
  Requests <- TwoRequests
  Lookaheads <- OneAhead
  Depth = 2
  Batch = 1
  CacheRows = 1
  ResidentScales = FALSE
  NCtas = 1
  MaxRequests <- TwoOne
  MaxPlans = 1
  Faults = {"short", "submit"}
CHECK_DEADLOCK FALSE
INVARIANTS
  TypeOK
  JobsCounted
PROPERTIES
  RowsRight
  LookupAnswered
