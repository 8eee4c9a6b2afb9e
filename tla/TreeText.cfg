SPECIFICATION Spec
CONSTANTS
  Views = {v1, v2}
  Keys = {k1}
  NoKey = NoKey
  NoTree = NoTree
  Contents <- TextContents
  Ranges <- TextRanges
  Carets <- TextCarets
  NoCaret = NoCaret
  MaxDepth = 3
  MaxNodes = 2
  MaxRuns = 2
  MaxCalls = 2
INVARIANT BuiltTextValid
PROPERTY BuildIsAtomic
CHECK_DEADLOCK FALSE
SYMMETRY ViewSymmetry
