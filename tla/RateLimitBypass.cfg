\* A running FIFO job and a super-urgent rate-limited one.
CONSTANTS
  Jobs = {1, 2}
  QType <- UrgentTypes
  Prio <- PairPrio
  MaxRetries = 2
  ExtraRetries = 1
  Backend = "postgres"
  CountTo = 0
  BufferSize = 2
  SortedBound = 1
  Burst = 1
  Workers = {1}
  Sweepers = {}
  MaxFaults <- NoFaults
SPECIFICATION Spec
PROPERTIES
  TokenPerStart
