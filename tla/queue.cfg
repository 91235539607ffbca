SPECIFICATION FairSpec
CONSTANTS
  t1 = t1
  t2 = t2
  Tasks = {t1, t2}
  MaxRuns = 2
  MaxConcurrent = 1
  None = None
  Events = {"pause", "resume", "cancel", "remove", "wifionly", "stopall", "cancelall", "deleteall", "network", "nolib", "fail", "restart"}
  Budget = 2
INVARIANTS
  TypeOK
  ConcurrencyBounded
  PlaceIsUsed
  RowsAreListed
PROPERTIES
  QueueMoves
CONSTRAINT InOrder
CHECK_DEADLOCK FALSE
