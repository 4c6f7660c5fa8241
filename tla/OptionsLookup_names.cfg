CONSTANTS
  a1 = a1
  a2 = a2
  b = b
  cell_f = cell_f
  unspecified = unspecified
  Crash = Crash
  Keys = {a1, a2, b}
  type <- MCtype
  text <- MCtext
  hash_cstring <- MChash_cstring
  KeysOf <- MCKeysOf
  HandleKeys = {a1, a2, b}
  Size = 2
  MaxEntries = 3
  MaxVectors = 1
SPECIFICATION LookupSpec
INVARIANTS NamesAreDistinct
CHECK_DEADLOCK FALSE
