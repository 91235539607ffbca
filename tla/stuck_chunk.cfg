SPECIFICATION RetryingSpec
CONSTANTS
  Workers = {w1, w2}
  NoWorker = NoWorker
  NumChunks = 2
  Start <- MCStart
  End <- MCEnd
  Length = 3
  MaxRetries = 1
  MaxVersion = 1
  HeaderSets = {{"ETag"}}
  Budget = 1
  AutoRename = FALSE
  Flapping = FALSE
  Events = {"pause"}
PROPERTIES
  EventuallyDownloaded
