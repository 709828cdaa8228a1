\* The job of TestNack_MaxRetries, which may be retried twice.
CONSTANTS
  Jobs = {1}
  QType <- SingleTypes
  Prio <- SinglePrio
  MaxRetries = 2
  ExtraRetries = 1
  Backend = "postgres"
  CountTo = 0
  BufferSize = 2
  SortedBound = 1
  Burst = 1
  Workers = {1}
  Sweepers = {}
  MaxFaults <- NoFaults
SPECIFICATION Spec
INVARIANTS
  FailsAboveMax
