SPECIFICATION FairSpec
CONSTANTS
  a1 = a1
  m1 = m1
  None = None
  Clients <- MCMixed
  Mgmt <- MCMgmt
  NumFds = 2
  MaxReq = 2
  NumWorkers = 2
INVARIANTS
  ConnInv
  OutputInv
  NoCrossTalk
  AnswerInv
PROPERTIES
  ClosedIsFinal
  RequestIsAnswered
  HangupIsClosed
CHECK_DEADLOCK FALSE
