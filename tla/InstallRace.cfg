SPECIFICATION Spec
CONSTANTS
  Producers = {p1, p2}
  Views = {v1}
  BadView = BadView
  NoCall = NoCall
  MaxEntries = 2
  MaxPosts = 1
  MaxRuns = 1
INVARIANT PumpLivesWhileWindowRuns
CHECK_DEADLOCK FALSE
