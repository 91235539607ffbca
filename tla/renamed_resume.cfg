SPECIFICATION Spec
CONSTANTS
  Workers = {w1, w2}
  NoWorker = NoWorker
  NumChunks = 2
  Start <- MCStart
  End <- MCEnd
  Length = 3
  MaxRetries = 1
  MaxVersion = 1
  HeaderSets = {{"ETag"}}
  Budget = 1
  AutoRename = TRUE
  Flapping = FALSE
  Events = {"pause", "existing"}
INVARIANTS
  ExistingFileKept
