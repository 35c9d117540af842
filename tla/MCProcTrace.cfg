SPECIFICATION LiveSpec
CONSTANTS
  Ids = {1, 2, 3}
  MapSize = 2
  MaxProcs = 4
INVARIANTS
  TypeOK
  TraceIsLineage
  RingsNeedReuse
PROPERTIES
  WalkClimbs
  WalkEnds
CHECK_DEADLOCK FALSE
