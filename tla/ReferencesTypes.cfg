SPECIFICATION Spec
CONSTANTS
  Jobs <- SharedScan
  FindingLimit = 2
  Tag <- MCTag
INVARIANTS ValidMeansMember
CHECK_DEADLOCK FALSE
