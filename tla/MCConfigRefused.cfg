SPECIFICATION Spec
CONSTANTS
  MaxDepth = 4
  Names <- AllNames
  Workers = {w1, w2}
  NoWorker = none
  Confs <- AllPaths
  InitialList <- OneList
  MaxDirLevel = 4
  MaxUpdates = 2
INVARIANTS
  FileLoads
CHECK_DEADLOCK FALSE
