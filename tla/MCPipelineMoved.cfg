SPECIFICATION Spec
CONSTANTS
  MaxDepth = 2
  Names <- AllNames
  Tasks <- OneTask
  Calls <- MoveOnly
  SelfTgid = 40
  RingSlots = 2
  NewKernel = TRUE
  MaxRecords = 3
  Clients = {}
  Counts <- OneCount
  MaxQueue = 2
  DefaultCount = 1
  CacheData = TRUE
  Publish = TRUE
  Verbose = FALSE
  MonitorFile <- Path1
  InitialList <- OneList
  ListChanges <- NoPaths
  SkipProcesses <- Skipped
  DotNames <- Dots
INVARIANTS
  RelativeRenameResolved
CHECK_DEADLOCK FALSE
