SPECIFICATION Spec
CHECK_DEADLOCK FALSE
CONSTANTS
  Users = {u1, u2}
  MaxFrame = 7
  HighestPage = 8
  HeapStart = 1
  StackBase = 3
  StackTop = 4
  MaxPage = 4
  MaxPages = 2
SYMMETRY Symmetry
INVARIANTS Apart  
