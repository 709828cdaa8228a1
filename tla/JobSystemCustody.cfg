\* Three jobs, one per queue, two of them super-urgent, two workers, a panic, a
\* failing statement and a manual retry; neither sweeps nor restarts.
CONSTANTS
  Jobs = {1, 2, 3}
  QType <- MixedTypes
  Prio <- MixedPrio
  MaxRetries = 2
  ExtraRetries = 1
  Backend = "postgres"
  CountTo = 9
  BufferSize = 3
  SortedBound = 3
  Burst = 1
  Workers = {1, 2}
  Sweepers = {}
  MaxFaults <- CustodyFaults
SPECIFICATION Spec
INVARIANTS
  TypeOK
  SingleCustody
  PendingIsHeld
  TerminalIsReleased
  AttemptsWithinBudget
  CanceledForUrgent
  TableTellsWhere
  CountersAgree
PROPERTIES
  FollowsLifecycle
