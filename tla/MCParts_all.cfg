SPECIFICATION FairSpec
CONSTANTS
  Texts <- MCTexts
  MaxInt = 9
  Threshold = 2
  MaxMessages = 4
  WheelSize = 3
  TickMs = 1
  Delays <- MCDelays
  MaxTime = 3
  MaxTimers = 2
  MinBlockSize = 8
  MaxBlockSize = 16
  BlockCount = 2
  MaxChunks = 2
  MaxGrown = 1
  Requests <- MCRequests
  Null = Null
  Junk = Junk
  t1 = t1
  t2 = t2
  t3 = t3
  t4 = t4
  x1 = x1
  x2 = x2
  Threads <- MCThreads
  Contexts <- MCContexts
  NoContext = NoContext
  MaxExecutes = 5
  BatchSize = 2
  MaxLen = 3
  None = None
  MaxPushes = 5
  MaxFailures = 2
  MaxRestarts = 2
  Workers <- MCWorkers
  MaxAccepted = 2
INVARIANTS
  PartsInv
  FragmentsDoNotMatter
  WheelHoldsTimers
  BlocksAreSound
  NoContextIdles
  StreamInv
  OwnersOutlive
PROPERTIES
  FileIsTheLog
  LoggedIsWritten
  CalledWhenDue
  ExecuteEnds
  GivenToWriter
  ShutdownEnds
CHECK_DEADLOCK FALSE
