SPECIFICATION Spec
CONSTANTS
  MaxDepth = 4
  Names <- AllNames
  Workers = {w1, w2}
  NoWorker = none
  Confs <- GoodPaths
  InitialList <- OneList
  MaxDirLevel = 4
  MaxUpdates = 2
INVARIANTS
  InSync
CHECK_DEADLOCK FALSE
