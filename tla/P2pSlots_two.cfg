SPECIFICATION FairSpec
CONSTANTS
  r1 = r1
  r2 = r2
  r3 = r3
  NoPeer = NoPeer
  Torn = Torn
  Ranks <- ThreeRanks
  Shots = 2
  NSlots = 4
  Width = 16
  MaxOps = 9
  Hasty <- FirstRank
  LateFrom = 8
  Live <- ThreeRanks
CHECK_DEADLOCK FALSE
INVARIANTS
  TimeoutsTold
PROPERTIES
  Implements
  AllFinish
