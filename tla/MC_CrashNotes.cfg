CONSTANTS
  NCpus = 2
  Dumps <- MCDumps
SPECIFICATION Spec
INVARIANTS TypeOK RegsFromOwnCpu NoDanglingRegs
PROPERTIES PublishedRegsFrozen
CHECK_DEADLOCK FALSE
