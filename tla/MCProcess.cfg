SPECIFICATION RSpec
CONSTANTS
  MaxPid = 5
  BootEntries <- MCBootEntries
  MaxSleep = 2
  FsBases = {0, 1}
  EarlyReturn = FALSE
INVARIANTS
  CurrentIsRunning
  OwnAddressSpace
  FsBasePreserved
  PreemptionDiscipline
  StacksSafe
  RingIntact
PROPERTIES
  RoundRobin
  SwitchSpec
  EveryoneGetsATurn
  DeadAreReaped
