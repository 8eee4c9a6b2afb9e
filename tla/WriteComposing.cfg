SPECIFICATION FairSpec
CONSTANTS
  Inputs = {i1}
  plain = plain
  wide = wide
  Chars = {plain}
  Utf8 <- PlainUtf8
  Utf16 <- PlainUtf16
  Offsets <- PlainOffsets
  Texts <- PlainTexts
  NoModel = NoModel
  NoEntry = NoEntry
  NoWrite = NoWrite
  MaxLen = 1
  MaxWrites = 1
PROPERTY CompositionSurvivesWrites
