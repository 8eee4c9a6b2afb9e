SPECIFICATION FairSpec
CONSTANTS
  Views = {v1, v2}
  feed = feed
  side = side
  Shapes <- SomeShapes
  Texts = {plain, edited}
  NoKey = NoKey
  NoView = NoView
  NoTree = NoTree
  First <- SomeFirst
  WheelTo <- SomeOffsets
  MaxWheel = 2
  MaxChanges = 2
  MaxOpens = 2
INVARIANTS TypeOK MapsAgree UnheardIsDeferred PullIsOnScreen OnlyExcusedBehind
PROPERTIES EventuallyQuiet WantedIsShown
CHECK_DEADLOCK FALSE
