SPECIFICATION Spec
CONSTANTS
  CharBits = 3
  ShortBits = 4
  IntBits = 5
  LongBits = 7
  POOL_SIZE = 873000
  WIDTH_LIMIT = 1920
  HEIGHT_LIMIT = 1200
  CONTEXT_SIZE = 816
  Font <- MCFont
  Directives <- MCDirectives
  BufferSizes = {0, 1, 5, 64}
  Screens <- MCScreens
  Characters <- MCCharacters
  Bases = {0, 1, 15}
  CodePoints <- MCCodePoints
  CodeLists <- MCCodeLists
INVARIANTS
  FormatsRight
  DrawingsRight
  PoolNeverFails
  WidthsRight
  ReverseVideoUndone
CHECK_DEADLOCK FALSE
