SPECIFICATION Spec
CONSTANTS
  Views = {v1}
  Keys = {k1}
  NoKey = NoKey
  NoTree = NoTree
  Contents <- ShapeContents
  Ranges <- NoRanges
  Carets <- NoCarets
  NoCaret = NoCaret
  MaxDepth = 3
  MaxNodes = 5
  MaxRuns = 0
  MaxCalls = 1
INVARIANTS TypeOK HandlesSound CommittedWellFormed FormatsAgree
CHECK_DEADLOCK FALSE
