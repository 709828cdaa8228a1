\* Two jobs, one worker, a crash, and a buffer that the copies made by the FIFO
\* sweeper fill, so that the Enqueue of the other job times out.
CONSTANTS
  Jobs = {1, 2}
  QType <- TwoTypes
  Prio <- NormalPrio
  MaxRetries = 2
  ExtraRetries = 1
  Backend = "postgres"
  CountTo = 0
  BufferSize = 2
  SortedBound = 4
  Burst = 1
  Workers = {1}
  Sweepers = {"fifo"}
  MaxFaults <- CrashFaults
SPECIFICATION Spec
INVARIANTS
  RecoveredIsHeld
