CONSTANTS
  Builds = {"gcc", "M2"}
  Arenas = {10, 15}
  MaxArenas = {10, 40}
  Jams <- DefaultOrWide
  Safeties <- DefaultOrSome
  STACK_SIZE = 10
  CELL_BYTES = 12
  WORD = 256
  Static = 4
  MaxLive = 8
  MaxAlloc = 3
SPECIFICATION Spec
INVARIANTS TypeOK RoomyJamKeepsTheStack SafetyMarginHolds
CHECK_DEADLOCK FALSE
