SPECIFICATION FairSpec
CHECK_DEADLOCK FALSE
CONSTANTS
  e1 = e1
  e2 = e2
  e3 = e3
  e4 = e4
  s1 = s1
  s2 = s2
  None = None
  Torn = Torn
  NLayers = 1
  Experts = {e1, e2, e3, e4}
  Slots = {s1, s2}
  Recorded = {e2, e3, e4}
  Placement <- PlacedTwo
  Routings <- Pairs
  NCtas = 2
  Faults = {4}
  MaxSteps = 3
  MaxRestarts = 1
INVARIANTS
  TypeOK
  TableSound
  PinsOutliveCopies
  NoMissingRecord
PROPERTIES
  NoSilentRow
  CatchesUp
  StepsEnd
