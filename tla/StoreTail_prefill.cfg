SPECIFICATION Spec
CONSTANTS
  L1 = L1
  L2 = L2
  s1 = s1
  s2 = s2
  s3 = s3
  s4 = s4
  s5 = s5
  set1 = set1
  set2 = set2
  NoSlot = NoSlot
  NoRec = NoRec
  Torn = Torn
  Layers <- TwoLayers
  Experts <- Experts2
  Slots <- FourSlots
  PerLayer = 1
  Entries = 2
  InStore <- AllInStore
  MaxPairs = 2
  MaxPromotions = 0
  PrefillSets <- TwoSets
  MaxAhead = 1
  Faults = {"short", "kernel", "pread"}
SYMMETRY SlotSymmetry
CHECK_DEADLOCK FALSE
INVARIANTS
  ReadsRight
  PinAccounting
