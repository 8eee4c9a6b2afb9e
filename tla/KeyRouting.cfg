SPECIFICATION Spec
CONSTANTS
  Platforms = {"macos", "windows"}
  Keys <- SomeKeys
  Preedits = {p1, p2}
  Empty = Empty
  Typed = Typed
INVARIANTS TypeOK TextArrivesOnce EnterOnce WidgetOwnsKeys MarkedIsShown ChangeIsDrawn
