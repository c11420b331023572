\* One connection in depth: two metrics, one of them with a ':' in its id, a
\* client that sends two messages, and the smallest buffers, so that drain()
\* really waits.
CONSTANTS
  c1 = c1
  m1 = m1
  m2 = m2
  Conns = {c1}
  Metrics = {m1, m2}
  ColonIds = {m2}
  Floats = {m1}
  BpsValues = {8}
  KernelBuf = 0
  HighWater = 0
  MaxVersion <- MCMaxVersion
  MaxFlushed = 1
  MaxMsgs = 2
SPECIFICATION Spec
CHECK_DEADLOCK FALSE
INVARIANTS
  TypeOK
  NothingOutlivesHandler
  BacklogBounded
PROPERTIES
  StreamSpec
  NothingWrittenAfterLoop
  SubscriptionLasts
