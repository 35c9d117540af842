SPECIFICATION Spec
CONSTANTS
  MaxDepth = 2
  Names <- AllNames
  Tasks <- VerboseTasks
  Calls <- VerboseCalls
  SelfTgid = 40
  RingSlots = 2
  NewKernel = FALSE
  MaxRecords = 2
  Clients = {}
  Counts <- OneCount
  MaxQueue = 2
  DefaultCount = 1
  CacheData = TRUE
  Publish = TRUE
  Verbose = TRUE
  MonitorFile <- Path1
  InitialList <- FstabList
  ListChanges <- FstabList
  SkipProcesses <- Skipped
  DotNames <- Dots
INVARIANTS
  EffectsFollow
  CaptureIsExact
PROPERTIES
  KeepsAuditTrail
CHECK_DEADLOCK FALSE
