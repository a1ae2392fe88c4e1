CONSTANTS
  Dumps <- MCAnyDumps
  PageSizes = {4096, 2097152, 0}
  PhysDefault = 9
SPECIFICATION Spec
INVARIANTS
  MandatoryRangesExact
CHECK_DEADLOCK FALSE
