SPECIFICATION FairSpec
CONSTANTS
  w1 = w1
  w2 = w2
  w3 = w3
  c1 = c1
  c2 = c2
  Workers <- MCWorkers
  Callers <- MCCallers
  MaxTasks = 2
  NoTask = NoTask
INVARIANTS
  TypeOK
  NoIdleStall
  DrainedWhenDestroyed
PROPERTIES
  ImplementsExecutor
  DestructorReturns
CHECK_DEADLOCK FALSE
