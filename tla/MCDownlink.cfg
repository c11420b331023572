\* Two subscriptions of one metric, in turn or at a time.
SPECIFICATION FairSpec
CONSTANTS
  m1 = m1
  c1 = c1
  c2 = c2
  Conns = {c1, c2}
  Metrics = {m1}
  MaxVersion = 3
  ReadMax = 2
  Size <- MCSize
  Inner <- MCInner
INVARIANTS TypeOK InStep
PROPERTIES FeedInOrder GroundNeverGoesBack KeepsUp
CHECK_DEADLOCK FALSE
