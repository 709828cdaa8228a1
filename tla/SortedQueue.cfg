\* Two goroutines enqueue while one dequeues, polls or both.
CONSTANTS
  Enqueuers = {e1, e2}
  Dequeuers = {d1}
  Jobs = {1, 2, 3}
  Prio <- SomePrio
  MaxCalls = 4
SPECIFICATION FairSpec
INVARIANTS
  TypeOK
  SliceInOrder
  NoLostWakeup
PROPERTIES
  DequeueReturns
  Implements
\* Every caller may have returned for good.
CHECK_DEADLOCK FALSE
