CONSTANTS
  Depth = 3
  PtrsPerTable = 2
  PageSize = 2
  LevelSpan <- MCLevelSpan
  MaxPfn = 3
  Readable = {1, 2}
  PageOffset = 12
  VmallocStart = 6
  VmallocEnd = 9
  VmemmapStart = 10
  VmemmapEnd = 11
  ModulesStart = 6
  ModulesEnd = 9
  PhysBase = 2
  Images <- WellFormedImages
  Tasks <- MCTasks
  KernelPgd = 1
SPECIFICATION Spec
INVARIANTS TypeOK CacheCoherent
PROPERTIES TranslationMatchesSpec
