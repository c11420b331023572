\* One connection under fairness.  Connections share nothing but the sample
\* cache and the server's stop, so one of them shows what a client can meet.
CONSTANTS
  c1 = c1
  m1 = m1
  m2 = m2
  Conns = {c1}
  Metrics = {m1}
  ColonIds = {}
  Floats = {}
  BpsValues = {0, 8}
  KernelBuf = 0
  HighWater = 0
  MaxVersion <- MCMaxVersion
  MaxFlushed = 0
  MaxMsgs = 2
SPECIFICATION FairSpec
CHECK_DEADLOCK FALSE
PROPERTIES
  ResetEndsHandler
  LatestIsDownlinked
  StopEnds
