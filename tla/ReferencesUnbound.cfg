SPECIFICATION Spec
CONSTANTS
  Jobs <- DistinctColumns
  FindingLimit = 2
  Tag <- MCTag
INVARIANTS UnboundMeansUnbound
CHECK_DEADLOCK FALSE
