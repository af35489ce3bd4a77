SPECIFICATION Spec
CONSTANTS
  a1 = a1
  m1 = m1
  None = None
  Clients <- MCMgmt
  Mgmt <- MCMgmt
  NumFds = 1
  MaxReq = 1
  NumWorkers = 1
INVARIANTS
  HalfCloseIsAnswered
CHECK_DEADLOCK FALSE
