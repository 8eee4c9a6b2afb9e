SPECIFICATION Spec
CONSTANTS
  Views = {v1}
  Keys = {k1}
  NoKey = NoKey
  NoTree = NoTree
  Contents <- TextContents
  Ranges <- TextRanges
  Carets <- TextCarets
  NoCaret = NoCaret
  MaxDepth = 3
  MaxNodes = 2
  MaxRuns = 2
  MaxCalls = 2
INVARIANTS CommittedTextValid
CHECK_DEADLOCK FALSE
