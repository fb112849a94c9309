SPECIFICATION Spec
CHECK_DEADLOCK FALSE
CONSTANTS
  HEAP_ALIGNMENT = 16
  PageUnits = 3
  KERNEL_INITIAL_PAGES = 1
  ExpandPages = 1
  Frames = 3
  Sizes = {1, 17, 96}
  kmain = kmain
  p = p
  q = q
  Procs = {p, q}
  Main = kmain
  Preempted = FALSE
INVARIANT Inv
PROPERTY Implements
