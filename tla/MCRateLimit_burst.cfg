SPECIFICATION Spec
CONSTANTS
  w1 = w1
  w2 = w2
  Workers <- MCWorkers
  Rate = 1
  Second = 2
  MaxClock = 4
  MaxCalls = 4
INVARIANT BurstIsCapacity
CHECK_DEADLOCK FALSE
