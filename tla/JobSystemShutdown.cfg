\* A normal and a super-urgent job, a graceful stop and a restart.
CONSTANTS
  Jobs = {1, 2}
  QType <- PairTypes
  Prio <- PairPrio
  MaxRetries = 2
  ExtraRetries = 1
  Backend = "postgres"
  CountTo = 0
  BufferSize = 4
  SortedBound = 4
  Burst = 1
  Workers = {1}
  Sweepers = {}
  MaxFaults <- ShutdownFaults
SPECIFICATION FairSpec
PROPERTIES
  ShutdownCompletes
  Settles
