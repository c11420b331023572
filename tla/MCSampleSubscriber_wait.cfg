\* One producer and one thread that waits without end.
SPECIFICATION FairSpec
CONSTANTS
  p1 = p1
  t1 = t1
  Producers = {p1}
  Threads = {t1}
  MaxSamples = 1
  MaxEnters = 1
  MaxLosses = 0
PROPERTIES WaitReturnsWhatIsAvailable
CHECK_DEADLOCK FALSE
