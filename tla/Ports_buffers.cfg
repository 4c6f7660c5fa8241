SPECIFICATION Spec
CONSTANTS
  Pipe = "pipe"
  Log = "log"
  Contents <- ContentsDef
  Bytes = {66}
  Requests = {1, 2, 3}
  Seeks <- SeeksDef
  MaxLength <- MaxLengthDef
  FILEDES_MAX = 4
  OPEN_MAX = 5
  BufferSizes = {0, 2}
  Texts <- TextsDef
  MaxPorts = 1
  Workloads <- WorkloadsDef
INVARIANTS
  TypeOK
  CacheIsPartOfTheFile
PROPERTIES
  ImplementsCharacterPorts
  ReturnsWhatIsThere
CHECK_DEADLOCK FALSE
