SPECIFICATION Spec
CONSTANTS
  L1 = L1
  L2 = L2
  s1 = s1
  s2 = s2
  s3 = s3
  s4 = s4
  s5 = s5
  set1 = set1
  set2 = set2
  NoSlot = NoSlot
  NoRec = NoRec
  Torn = Torn
  Layers <- OneLayer
  Experts <- Experts3
  Slots <- ThreeSlots
  PerLayer = 1
  Entries = 2
  InStore <- AllInStore
  MaxPairs = 2
  MaxPromotions = 1
  PrefillSets = {}
  MaxAhead = 1
  Faults = {"submit", "partial"}
SYMMETRY SlotSymmetry
CHECK_DEADLOCK FALSE
INVARIANTS
  RingQuiet
