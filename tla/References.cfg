SPECIFICATION Spec
CONSTANTS
  Jobs <- MCJobs
  FindingLimit = 2
  Tag <- MCTag
INVARIANTS ReportIsExact FindingsAreReal BindingsMatch
CHECK_DEADLOCK FALSE
