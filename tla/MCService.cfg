SPECIFICATION LiveSpec
CONSTANTS
  Pids = {p, q}
  NoPid = nobody
  Timeout = 2
  MaxDelay = 1
  MaxFailures = 2
INVARIANTS
  TypeOK
  SeriesTracked
  RecentExported
  ExporterOutlivesUsers
PROPERTIES
  ShowsActivity
  IdleExpires
  ServiceReturns
CHECK_DEADLOCK FALSE
