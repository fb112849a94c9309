SPECIFICATION RSpec
CONSTANTS
  MaxPid = 4
  BootEntries <- MCBootEntries
  MaxSleep = 1
  FsBases = {0}
  EarlyReturn = FALSE
INVARIANT SyscallFindsCurrent
