SPECIFICATION Spec
CONSTANTS
  ROWS = 3
  COLS = 4
  MAX_ESC_VALUES = 3
  MaxPrintf = 3
  Messages <- MCMessages
INVARIANTS
  QueueFits
  ScreenShowsText
  ValuesFit
  TextAsOnPaper
PROPERTIES
  RegionKept
CHECK_DEADLOCK FALSE
