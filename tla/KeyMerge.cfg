SPECIFICATION FairSpec
CONSTANTS
  Run = {1, 2}
  Value = {1, 2, 3}
  LeftRows = 3
  RightRows = 2
  MaxSamples = 1
  Inputs <- MCInputs
INVARIANTS AnswerIsExact SamplesAreFirst
PROPERTIES Terminates
CHECK_DEADLOCK FALSE
