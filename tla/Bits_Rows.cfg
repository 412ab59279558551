SPECIFICATION Spec
CONSTANTS
  MaxHeight = 2
  MaxBytes = 2
  Bitmaps <- MCBitmaps
  Fg = 16909060
  Bg = 84281096
  Unwritten = Unwritten
INVARIANTS
  RowsExpanded
  PointersTogether
CHECK_DEADLOCK FALSE
