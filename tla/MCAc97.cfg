SPECIFICATION Spec
CONSTANTS
  Players = {1, 2}
  FileLen <- MCFileLen
  PCM_BUFFER = 3
  AC97_BUFFERS = 4
  AC97_BUFFER_SIZE = 2
INVARIANTS
  StreamKept
  HeardInOrder
PROPERTIES
  PanicsOnlyOnAFreeLap
  WritesEnd
CHECK_DEADLOCK FALSE
