SPECIFICATION FairSpec
CONSTANTS
  Workers = {w1, w2}
  NoWorker = NoWorker
  NumChunks = 3
  Start <- MCStartLong
  End <- MCEndLong
  Length = 5
  MaxRetries = 1
  MaxVersion = 1
  HeaderSets = {{}}
  Budget = 3
  AutoRename = FALSE
  Flapping = FALSE
  Events = {"pause", "transient", "fatal", "short", "diskfull"}
INVARIANTS
  TrackerNeverOverstates
PROPERTIES
  NeverLosesProgress
  ResumeLosesNothing
  CallReturns
