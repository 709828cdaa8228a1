\* One job, two workers, a buffer of one: a crash at any point and a panic,
\* while the FIFO sweeper makes copies of the job.
CONSTANTS
  Jobs = {1}
  QType <- SingleTypes
  Prio <- SinglePrio
  MaxRetries = 2
  ExtraRetries = 1
  Backend = "postgres"
  CountTo = 0
  BufferSize = 1
  SortedBound = 1
  Burst = 1
  Workers = {1, 2}
  Sweepers = {"fifo"}
  MaxFaults <- RecoveryFaults
SPECIFICATION FairSpec
PROPERTIES
  Settles
