SPECIFICATION FairSpec
CONSTANTS
  Holders = {h1, h2, h3}
  NoHolder = NoHolder
  Nodes = {"root", "part", "leaf"}
  Accounts = {"operation", "partition", "distinct"}
  Path <- MCPath
  Cap <- MCCap
  Requests <- MCRequests
  MaxWord = 3
  MaxAttempts = 2
INVARIANTS Conservation PeakCoversUsage
PROPERTIES RefusalIsHonest ImplementsBudget AttemptsEnd
CHECK_DEADLOCK FALSE
