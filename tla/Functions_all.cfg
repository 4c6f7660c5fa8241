SPECIFICATION Spec
CONSTANTS
  WordBits = 16
  IntBits = 8
INVARIANTS
  WrittenIsReadBack
  ReadingGoesForward
  NumbersAreReadBack
  DivisionIsExact
  LibraryMeansC
  CallsMeanPosix
  ListsAreSequences
  PrintsLikeC
CHECK_DEADLOCK FALSE
