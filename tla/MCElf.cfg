SPECIFICATION Spec
CHECK_DEADLOCK FALSE
CONSTANTS
  PAGE_SIZE = 3
  Pages = 13
  FileLen = 6
  Headers <- MCHeaders
  MaxHeaders = 2
INVARIANT Loaded
PROPERTY LoadingEnds
