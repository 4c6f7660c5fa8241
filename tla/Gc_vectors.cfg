CONSTANTS
  ARENA_SIZE = 13
  JAM_SIZE = 15
  GC_SAFETY = 1
  STACK_SIZE = 3
  NSymbols = 1
  NRegs = 2
  Assigned = {}
  Values = {9}
  Programs <- OfVectors
  Lengths = {0, 1, 2}
  Interior = FALSE
SPECIFICATION Spec
PROPERTIES ImplementsAbstractHeap CollectionIsExact
CHECK_DEADLOCK FALSE
