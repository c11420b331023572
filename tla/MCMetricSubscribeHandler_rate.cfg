\* One metric in fair mode and one request: setbps meets the redistribution of
\* the sync task.
CONSTANTS
  m1 = m1
  Metrics = {m1}
  NoTask = NoTask
  SubIds = {1, 2, 3, 4, 5}
  Modes = {"fair"}
  DefaultMaxBps = 2
  BpsValues = {1}
  MaxRequests = 1
SPECIFICATION Spec
CHECK_DEADLOCK FALSE
INVARIANT
  BpsAsAllocated
