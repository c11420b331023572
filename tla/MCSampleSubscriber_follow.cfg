\* Two producers, a waiting thread, a lost connection, a second entry.
SPECIFICATION FairSpec
CONSTANTS
  p1 = p1
  p2 = p2
  t1 = t1
  Producers = {p1, p2}
  Threads = {t1}
  MaxSamples = 2
  MaxEnters = 2
  MaxLosses = 2
INVARIANTS TypeOK ChannelFollowsCache NothingListensOutside WaitReturnsNewest
PROPERTIES LatestNeverGoesBack ExitEnds StoredSampleEndsWait SamplesAreFollowed
CHECK_DEADLOCK FALSE
