SPECIFICATION FairSpec
CONSTANTS
  Inputs = {i1, i2}
  plain = plain
  wide = wide
  Chars = {plain}
  Utf8 <- PlainUtf8
  Utf16 <- PlainUtf16
  Offsets <- PlainOffsets
  Texts <- PlainTexts
  NoModel = NoModel
  NoEntry = NoEntry
  NoWrite = NoWrite
  MaxLen = 1
  MaxWrites = 1
INVARIANTS GateIsExact MirrorFresh WriteNotForgotten
PROPERTIES ScheduledWriteApplied ImplementsRedraw
