\* One subscription, a page with the plugin and an interactive page.
SPECIFICATION FairSpec
CONSTANTS
  m1 = m1
  f1 = f1
  p1 = p1
  i1 = i1
  Metrics = {m1}
  Feeds = {f1}
  Plugins = {p1}
  Interactive = {i1}
  MaxSamples = 1
  MaxMsgs <- MCMaxMsgs
  MaxPluginMsgs = 3
  MaxTypedMsgs = 1
  MaxViews = 2
INVARIANTS EverySubscriberIsSent ServerFollowsViews
PROPERTIES AddSampleTerminates ClosedSocketForgotten
CHECK_DEADLOCK FALSE
