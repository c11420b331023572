\* Three clients for a table of two.
SPECIFICATION FairSpec
CONSTANTS
  c1 = c1
  c2 = c2
  c3 = c3
  Clients = {c1, c2, c3}
  MaxConnections = 2
  PipeSize = 2
  BufferSize = 1
  Aborting = {c3}
  MaxPieces <- MCPieces
INVARIANTS TypeOK CommandsInOrder LinesIntact NoSocketLeaks
PROPERTIES BroadcastReachesAll DestroyEnds
CHECK_DEADLOCK FALSE
