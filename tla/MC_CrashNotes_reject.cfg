CONSTANTS
  NCpus = 2
  Dumps <- MCDumps
SPECIFICATION Spec
INVARIANTS RejectionFinal
CHECK_DEADLOCK FALSE
