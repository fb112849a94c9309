SPECIFICATION Spec
CHECK_DEADLOCK FALSE
CONSTANTS
  Idx = {0, 1, 2}
  Upper = {1, 2}
  MaxFrame = 19
  Phys <- MCPhys
  kernel = kernel
  p = p
  q = q
  Users = {p, q}
  Kernel = kernel
  UserVirts <- MCUserVirts
  Unmapped <- MCUnmapped
  Boot <- MCBoot
  LateVirts <- MCLateVirts
INVARIANT Inv
PROPERTY Implements
