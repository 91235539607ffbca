SPECIFICATION FairSpec
CONSTANTS
  Workers = {w1, w2}
  NumChunks = 4
  ChunkLen = 2
  MaxPrefetch = 2
  MaxRetries = 1
  Budget = 2
  Events = {"cancel", "close", "refused", "dropped", "fatal"}
INVARIANTS
  TypeOK
  PrefetchBounded
PROPERTIES
  InOrder
  ReadReturns
  WorkersReleased
  StreamEnds
CHECK_DEADLOCK FALSE
