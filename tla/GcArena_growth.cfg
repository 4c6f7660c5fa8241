CONSTANTS
  Builds = {"gcc"}
  Arenas = {10}
  MaxArenas = {40}
  Jams <- WideJam
  Safeties <- SomeSafety
  STACK_SIZE = 10
  CELL_BYTES = 12
  WORD = 256
  Static = 4
  MaxLive = 12
  MaxAlloc = 3
SPECIFICATION Spec
INVARIANTS OutOfMemoryOnlyAtMaximum
CHECK_DEADLOCK FALSE
