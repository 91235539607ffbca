SPECIFICATION FairSpec
CONSTANTS
  Workers = {w1, w2}
  NoWorker = NoWorker
  NumChunks = 3
  Start <- MCStart5
  End <- MCEnd5
  Length = 5
  MaxRetries = 2
  MaxVersion = 2
  HeaderSets = {{}, {"ETag"}}
  Budget = 3
  AutoRename = FALSE
  Flapping = TRUE
  Events = {"transient", "short", "savefail", "update"}
PROPERTIES
  FailureNeedsCause
  RetriesSuffice
