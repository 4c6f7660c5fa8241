CONSTANTS
  ARENA_SIZE = 16
  JAM_SIZE = 18
  GC_SAFETY = 8
  STACK_SIZE = 3
  NSymbols = 1
  NRegs = 2
  Assigned = {}
  Values = {9}
  Programs <- OfInteriors
  Lengths = {1}
  Interior = TRUE
SPECIFICATION Spec
INVARIANTS NoBrokenHeart
CHECK_DEADLOCK FALSE
