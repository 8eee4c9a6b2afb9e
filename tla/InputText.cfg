SPECIFICATION Spec
CONSTANTS
  Inputs = {i1}
  plain = plain
  wide = wide
  Chars = {plain, wide}
  Utf8 <- WideUtf8
  Utf16 <- WideUtf16
  Offsets <- WideOffsets
  Texts <- WideTexts
  NoModel = NoModel
  NoEntry = NoEntry
  NoWrite = NoWrite
  MaxLen = 2
  MaxWrites = 2
INVARIANTS TypeOK SlicesAreSafe
