SPECIFICATION Spec
CONSTANTS
  w1 = w1
  w2 = w2
  Workers <- MCWorkers
  Rate = 1
  Second = 2
  MaxClock = 7
  MaxCalls = 3
INVARIANTS
  BucketInv
  AbsentIsFull
  WindowBound
  RejectedOnlyWhenFull
SYMMETRY MCSymmetry
CHECK_DEADLOCK FALSE
