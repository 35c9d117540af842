SPECIFICATION LiveSpec
CONSTANTS
  MaxDepth = 2
  Names <- AllNames
  Tasks <- LiveTasks
  Calls <- LiveCalls
  SelfTgid = 40
  RingSlots = 2
  NewKernel = TRUE
  MaxRecords = 4
  Clients = {w1, w2}
  Counts <- BothCounts
  MaxQueue = 2
  DefaultCount = 1
  CacheData = TRUE
  Publish = TRUE
  Verbose = FALSE
  MonitorFile <- Path1
  InitialList <- OneList
  ListChanges <- NoPaths
  SkipProcesses <- Skipped
  DotNames <- Dots
INVARIANTS
  GivenOnce
PROPERTIES
  AllHandled
CHECK_DEADLOCK FALSE
