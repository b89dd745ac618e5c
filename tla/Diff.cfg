SPECIFICATION Spec
CONSTANTS
  Jobs <- MCJobs
  Display <- MCDisplay
  Partitions = 2
  PartitionOf <- MCPartitionOf
  Chunk = 4
  WriterBuffer = 1
  WriterRoom = 1
  HeaderBytes = 2
  SinkBytes = 2
  EventRoom = 1
  MaxRecord = 4
INVARIANTS ReportIsExact OutputIsAtomic ErrorsAreTrue UseIsReserved
CHECK_DEADLOCK FALSE
