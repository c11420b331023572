\* Two metrics, so that in fair mode adding the second redistributes to
\* both, and one request of the operator, which overlaps with that in every way.
CONSTANTS
  m1 = m1
  m2 = m2
  Metrics = {m1, m2}
  NoTask = NoTask
  SubIds = {1, 2, 3, 4, 5}
  Modes = {"fair", "manual"}
  DefaultMaxBps = 2
  BpsValues = {1}
  MaxRequests = 1
SPECIFICATION Spec
CHECK_DEADLOCK FALSE
INVARIANTS
  TypeOK
  NoMetricAbandoned
