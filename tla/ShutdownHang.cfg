\* Two rate-limited jobs, one token, two workers, a graceful stop.
CONSTANTS
  Jobs = {1, 2}
  QType <- LimitedTypes
  Prio <- NormalPrio
  MaxRetries = 1
  ExtraRetries = 1
  Backend = "postgres"
  CountTo = 0
  BufferSize = 2
  SortedBound = 1
  Burst = 1
  Workers = {1, 2}
  Sweepers = {}
  MaxFaults <- ShutdownFaults
SPECIFICATION FairSpec
PROPERTIES
  ShutdownCompletes
\* Both workers may be blocked for good: that is what the run shows.
CHECK_DEADLOCK FALSE
