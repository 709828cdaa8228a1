\* Two workers, each of which may panic twice.
CONSTANTS
  Workers = {w1, w2}
  MaxPanics = 2
SPECIFICATION FairSpec
INVARIANTS
  OneGoroutinePerID
  WgExact
  NoSignalDropped
  NoJobAfterWait
PROPERTIES
  DeadIsReplaced
  HealthRecovers
  WaitReturns
\* The pool may have stopped.
CHECK_DEADLOCK FALSE
