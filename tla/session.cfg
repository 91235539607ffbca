SPECIFICATION FairSpec
CONSTANTS
  NumChunks = 2
  MaxRetries = 1
  MaxWorkers = 2
  Servers <- MCServers
  Modes = {"file", "stream", "probe"}
  Events = {"cancel", "fault", "refused", "stall", "fatal", "full", "cut", "slow"}
  Budget = 2
INVARIANTS
  TypeOK
  CompletedIsWhole
  LastProgressIsFinal
PROPERTIES
  TerminalIsLast
  SessionEnds
CHECK_DEADLOCK FALSE
