SPECIFICATION Spec
CONSTANTS
  w1 = w1
  w2 = w2
  Workers <- MCOneWorker
  Rate = 1
  Second = 2
  MaxClock = 2
  MaxCalls = 3
PROPERTY DenialIsFinal
CHECK_DEADLOCK FALSE
