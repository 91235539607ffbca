SPECIFICATION Spec
CONSTANTS
  Workers = {w1}
  NumChunks = 1
  ChunkLen = 2
  MaxPrefetch = 1
  MaxRetries = 1
  Budget = 1
  Events = {"dropped"}
INVARIANTS
  NothingMissing
CHECK_DEADLOCK FALSE
