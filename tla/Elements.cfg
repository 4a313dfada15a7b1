SPECIFICATION Spec
CONSTANTS
  Letters = {"a"}
  NewLine = "n"
  BlockSize = 2
  Width = 2
  Height = 2
  MaxText = 4
  MaxInputs = 4
  Chars = {"a"}
  FieldWidth = 2
  Pre = 1
  MaxLength = 4
  MaxFrames = 12
  MaxOptions = 3
  Rows = 2
  MaxTurns = 8
  Window = 3
  Parts = 2
  MaxContent = 7
  MaxScrolls = 5
  Preload = 1
  MaxViews = 6
  Values = {0, 1}
  MaxSubs = 3
  MaxCalls = 5
  MaxDepth = 3
  ScreenWidths = {8, 12}
  ScreenHeight = 6
  MaxChanges = 4
INVARIANTS
  TextKept
  ToldLast
  IndicesInside
  ViewsAgree
  ValuesCurrent
  ScreenCurrent
PROPERTY PointerShown
CHECK_DEADLOCK FALSE
