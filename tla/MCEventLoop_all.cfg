SPECIFICATION FairSpec
CONSTANTS
  worker1 = worker1
  worker2 = worker2
  Callers <- MCCallers
  MaxPosts = 2
INVARIANTS
  QueueInv
  NoLostWakeup
PROPERTIES
  ImplementsExecutor
  PostedRuns
  
CHECK_DEADLOCK FALSE
