CONSTANTS
  Dumps <- MCDumps
  PageSizes = {4096, 2097152, 0}
  PhysDefault = 9
SPECIFICATION Spec
INVARIANTS
  DepthMatchesKernel
  LayoutMatchesKernel
CHECK_DEADLOCK FALSE
