SPECIFICATION Spec
CONSTANTS
  Totals <- MCTotals
  Preferred <- MCPreferred
  Concurrencies <- MCConcurrencies
  DefaultConcurrency = 1
  MinChunk = 2
  MaxChunk = 4
  Values <- MCValues
INVARIANTS
  TypeOK
  TilesSoFar
  FreshLayoutAccepted
  AcceptedLayoutTiles
CHECK_DEADLOCK FALSE
