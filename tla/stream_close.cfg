SPECIFICATION Spec
CONSTANTS
  Workers = {w1}
  NumChunks = 2
  ChunkLen = 1
  MaxPrefetch = 1
  MaxRetries = 0
  Budget = 1
  Events = {"close"}
INVARIANTS
  CloseIsSafe
CHECK_DEADLOCK FALSE
