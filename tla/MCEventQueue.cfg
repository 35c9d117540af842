SPECIFICATION QueueSpec
CONSTANTS
  Clients = {w1, w2}
  Counts <- MCCounts
  MaxQueue = 3
  DefaultCount = 2
  CacheData = TRUE
  Publish = TRUE
  MaxEvents = 5
INVARIANTS
  QueueTypeOK
  QueueIsRecent
  HandedOutOnce
  LossHasCause
PROPERTIES
  RetainsRecent
  PollingDrains
