SPECIFICATION Spec
CONSTANTS
  MaxDepth = 2
  Names <- AllNames
  Tasks <- SafeTasks
  Calls <- SafeCalls
  SelfTgid = 40
  RingSlots = 2
  NewKernel = TRUE
  MaxRecords = 3
  Clients = {w1}
  Counts <- OneCount
  MaxQueue = 2
  DefaultCount = 1
  CacheData = TRUE
  Publish = TRUE
  Verbose = FALSE
  MonitorFile <- Path1
  InitialList <- OneList
  ListChanges <- OneList
  SkipProcesses <- Skipped
  DotNames <- Dots
INVARIANTS
  TypeOK
  EffectsFollow
  SettledInOrder
  CaptureIsExact
PROPERTIES
  KeepsAuditTrail
CHECK_DEADLOCK FALSE
