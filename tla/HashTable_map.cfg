CONSTANTS
  a1 = a1
  a2 = a2
  b = b
  one = one
  x = x
  y = y
  cell_f = cell_f
  unspecified = unspecified
  Crash = Crash
  Absent = Absent
  Nobody = Nobody
  Stale = Stale
  Keys = {a1, a2, b, one, x, y}
  type <- MCtype
  text <- MCtext
  hash_cstring <- MChash_cstring
  KeysOf <- MCKeysOf
  HandleKeys = {one}
  Size = 2
  MaxEntries = 3
  MaxVectors = 2
SYMMETRY Alike
SPECIFICATION Spec
INVARIANTS TypeOK WalkMissesNothing
PROPERTIES ImplementsAbstractTable
CHECK_DEADLOCK FALSE
