\* Two attempts and one preemption.
CONSTANTS
  MaxRetries = 2
  MaxPreempts = 1
SPECIFICATION FairSpec
INVARIANTS
  CompletedIsAccepted
  NoOverlap
  ResentOnlyIfCut
PROPERTIES
  SenderEnds
  JobSettles
\* The job may be over.
CHECK_DEADLOCK FALSE
