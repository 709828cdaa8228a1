\* Three priority jobs, a buffer of one, one worker, a crash.
CONSTANTS
  Jobs = {1, 2, 3}
  QType <- BacklogTypes
  Prio <- BacklogPrio
  MaxRetries = 1
  ExtraRetries = 1
  Backend = "postgres"
  CountTo = 0
  BufferSize = 1
  SortedBound = 6
  Burst = 1
  Workers = {1}
  Sweepers = {}
  MaxFaults <- CrashFaults
SPECIFICATION FairSpec
PROPERTIES
  RecoveryEnds
