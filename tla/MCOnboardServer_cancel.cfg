\* A running subscription is sent Cancel.
CONSTANTS
  c1 = c1
  m1 = m1
  m2 = m2
  Conns = {c1}
  Metrics = {m1}
  ColonIds = {}
  Floats = {}
  BpsValues = {0, 8}
  KernelBuf = 0
  HighWater = 0
  MaxVersion <- MCOneVersion
  MaxFlushed = 0
  MaxMsgs = 2
SPECIFICATION Spec
CHECK_DEADLOCK FALSE
PROPERTY
  CancelStopsCommand
