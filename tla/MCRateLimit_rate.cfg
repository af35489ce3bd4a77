SPECIFICATION Spec
CONSTANTS
  w1 = w1
  w2 = w2
  Workers <- MCOneWorker
  Rate = 1
  Second = 2
  MaxClock = 4
  MaxCalls = 6
INVARIANT RateIsKept
CHECK_DEADLOCK FALSE
