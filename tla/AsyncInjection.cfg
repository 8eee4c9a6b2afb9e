SPECIFICATION FairSpec
CONSTANTS
  Producers = {p1, p2}
  Views = {v1}
  BadView = BadView
  NoCall = NoCall
  MaxEntries = 2
  MaxPosts = 2
  MaxRuns = 2
INVARIANTS TypeOK ExactlyOnceInOrder OkMeansAccepted NoLostWake OwedIsDelivered
PROPERTIES ImplementsFifo BacklogDrains
CHECK_DEADLOCK FALSE
