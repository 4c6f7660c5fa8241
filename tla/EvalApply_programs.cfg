SPECIFICATION Spec
CONSTANTS
  Programs <- CorePrograms
  Images <- MCImages
  Fuel = 9
  MaxCells = 600
  TailFrames = 5
INVARIANTS
  TypeOK MeansWhatItSays TailCallsKeepTheStack
PROPERTIES
  BasesMatchActivations QuotedDataIsConstant EndsWhenItsMeaningEnds
