SPECIFICATION Spec
CHECK_DEADLOCK FALSE
CONSTANTS
  Procs = {p, q}
  Buffers = {"path"}
  TarFiles = {"a", "b"}
  Devices = {"keyboard"}
  Keyboard = "keyboard"
  FileSize <- MCFileSize
  Objects = {o1, o2, o3}
  VFS_FD_OFFSET = 1
  VFS_MAX_FILE_DESCRIPTORS = 3
  Sizes = {2}
  Offsets = {2, 7}
  IntBits = 3
  SizeBits = 4
  KB_BUFFER_SIZE = 2
  NULL = NULL
SYMMETRY MCSymmetry
INVARIANTS TableRight ReadInside 
