SPECIFICATION Spec
CONSTANTS
  Workers = {w1, w2}
  NoWorker = NoWorker
  NumChunks = 3
  Start <- MCStart4
  End <- MCEnd4
  Length = 4
  MaxRetries = 1
  MaxVersion = 2
  HeaderSets = {{}, {"ETag"}, {"Last-Modified"}}
  Budget = 3
  AutoRename = TRUE
  Flapping = TRUE
  Events = {"pause", "crash", "update", "transient", "fatal", "full", "short", "diskfull", "savefail"}
INVARIANTS
  TypeOK
  OneWriterPerChunk
  DownloadedOnDisk
  CheckpointBacked
  SuccessComplete
  TrackerCoversAttempts
SYMMETRY SymmetricWorkers
