SPECIFICATION Spec
CONSTANTS
  Values = {1, 2, 3}
  Length <- ShortLengths
  Modes <- AllModes
  FanIn = 2
  AssumedLength = 1
  MaxArena = 3
  MaxRecord = 1
  Header = 1
  CursorUnits = 1
  SampleUnits = 1
  MaxSamples = 2
  MemoryCap = 10
  TempCap = 18
  MaxPressure = 4
  MaxRows = 5
INVARIANTS SummaryIsExact WithinBudgets
PROPERTIES InMemoryFinishes CorruptMeansDamaged
CHECK_DEADLOCK FALSE
