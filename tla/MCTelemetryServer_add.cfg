\* Two subscriptions of one metric, in turn or at a time, and one socket.
SPECIFICATION Spec
CONSTANTS
  m1 = m1
  f1 = f1
  f2 = f2
  i1 = i1
  Metrics = {m1}
  Feeds = {f1, f2}
  Plugins = {}
  Interactive = {i1}
  MaxSamples = 2
  MaxMsgs <- MCMaxMsgs
  MaxPluginMsgs = 0
  MaxTypedMsgs = 1
  MaxViews = 0
SYMMETRY FeedSymmetry
INVARIANTS TypeOK OldHistoryGone AddedIsInHistory
PROPERTIES SocketNeverGoesBack
CHECK_DEADLOCK FALSE
