CONSTANTS
  Builds = {"gcc"}
  Arenas = {30}
  MaxArenas = {30}
  Jams <- DefaultOnly
  Safeties <- SomeSafety
  STACK_SIZE = 10
  CELL_BYTES = 12
  WORD = 256
  Static = 4
  MaxLive = 20
  MaxAlloc = 3
SPECIFICATION Spec
INVARIANTS CollectsWithoutASecondHalf
CHECK_DEADLOCK FALSE
