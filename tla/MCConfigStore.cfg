SPECIFICATION LiveSpec
CONSTANTS
  MaxDepth = 4
  Names <- AllNames
  Workers = {w1, w2}
  NoWorker = none
  Confs <- AllPaths
  InitialList <- OneList
  MaxDirLevel = 4
  MaxUpdates = 3
INVARIANTS
  TypeOK
  FileIsWhole
  AckedInForce
PROPERTIES
  KeepsDurableList
  MutexIsFreed
CHECK_DEADLOCK FALSE
