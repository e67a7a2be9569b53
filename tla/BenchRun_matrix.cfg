SPECIFICATION FairSpec
CONSTANTS
  p1 = p1
  p2 = p2
  a = a
  b = b
  NoProc = NoProc
  Procs <- TwoProcs
  Recipes <- TwoRecipes
  Served <- TwoModels
  Plan <- Lists
  Killable <- TwoProcs
  Stubborn <- OneProc
  Docker <- OneProc
CHECK_DEADLOCK FALSE
INVARIANTS
  TypeOK
  NoServerLeft
PROPERTIES
  NeverReplaced
  RefusedForAReason
  RunnersEnd
