SPECIFICATION FairSpec
CONSTANTS
  u1 = u1
  u2 = u2
  u3 = u3
  u4 = u4
  k1 = k1
  k2 = k2
  NoConn = NoConn
  Users <- MCUsers
  Conns <- MCConns
  MaxAcquires = 5
  MaxOutages = 2
INVARIANTS
  PoolInv
  NoIdleWait
PROPERTIES
  AcquireEnds
CHECK_DEADLOCK FALSE
