SPECIFICATION FairSpec
CONSTANTS
  Inputs <- MCInputs
  MaxThreads = 3
  FindingLimit = 2
  MemoryCap = 3
INVARIANTS ReportIsSequential UnreadableNeverPasses OneScanEach MemoryAccounted PeakWasReached
PROPERTIES CallerAnswered
CHECK_DEADLOCK FALSE
