\* One metric and two requests of the operator: the two workers
\* overlap with each other and with the sync task.
CONSTANTS
  m1 = m1
  Metrics = {m1}
  NoTask = NoTask
  SubIds = {1, 2, 3, 4, 5}
  Modes = {"fair", "manual"}
  DefaultMaxBps = 2
  BpsValues = {1, 2}
  MaxRequests = 2
SPECIFICATION FairSpec
CHECK_DEADLOCK FALSE
INVARIANTS
  NoMetricAbandoned
PROPERTIES
  RequestsFinish
