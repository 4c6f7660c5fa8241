CONSTANTS
  ARENA_SIZE = 11
  JAM_SIZE = 13
  GC_SAFETY = 1
  STACK_SIZE = 6
  NSymbols = 1
  NRegs = 2
  Assigned = {"M1"}
  Values = {0}
  Programs <- OfPairs
  Lengths = {0}
  Interior = FALSE
SPECIFICATION FairSpec
INVARIANTS TypeOK ConstantsKeepTheirAddress NoBrokenHeart NewSpaceFitsOld ScannedCellsAreRelocated
PROPERTIES ImplementsAbstractHeap CollectionEnds
CHECK_DEADLOCK FALSE
