SPECIFICATION Spec
CONSTANTS
    TextLength <- MCTextLength
    IntMax = 100
    FloatMax = 150
    TotalMax = 250
    FloatExact = 64
    Budget = 2
    SampleLimit = 3
    FindingRoom = 2
    Jobs <- DocumentJobs
INVARIANTS ValidMeansHeld
CHECK_DEADLOCK FALSE
