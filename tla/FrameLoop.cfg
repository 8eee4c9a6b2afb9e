SPECIFICATION FairSpec
CONSTANTS
  a = a
  kanji = kanji
  mark = mark
  emoji = emoji
  Glyphs = {a, kanji, mark, emoji}
  Width <- SomeWidth
  Advance <- SomeAdvance
  Trees <- SomeTrees
  NoTree = NoTree
  Target = 3
  NoBench = NoBench
  NoReport = NoReport
  MaxEarly = 1
  MaxClosed = 1
INVARIANTS TypeOK OneTick ReportAccounts TablesArePainted ClickPutsCaret
PROPERTIES BenchmarkEnds BlinkGoesOn
