SPECIFICATION Spec
CONSTANTS
  PAGE_SIZE = 4
  PMM_BITMAP_SIZE = 1
  PagesBelow1mb = 1
  BootInfos <- MCBootInfos
  Users = {u1, u2}
  Kernel = kernel
  None = None
CHECK_DEADLOCK FALSE
INVARIANTS
  Accounting
  Exclusive
  
  ContentsKept
