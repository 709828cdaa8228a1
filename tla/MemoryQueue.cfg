\* A blocked Enqueue beside another, two overlapping Close calls, a receiver
\* beside a finished one, and a buffer that is full while a caller waits.
CONSTANTS
  Enqueuers = {e1, e2}
  Dequeuers = {d1, d2}
  Closers = {c1, c2}
  Jobs = {j1, j2}
  Capacity = 2
  MaxCalls = 4
SPECIFICATION FairSpec
INVARIANTS
  TypeOK
  WgCountsActive
  NoSendOnClosed
  ClosesOnce
  DrainedIsFinal
PROPERTIES
  Implements
  EnqueueReturns
  CloseReturns
  DequeueUnblocks
\* Every caller may have returned for good.
CHECK_DEADLOCK FALSE
