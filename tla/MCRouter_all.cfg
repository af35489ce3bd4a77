SPECIFICATION Spec
CONSTANTS
  r1 = r1
  r2 = r2
  w1 = w1
  NoRoute = NoRoute
  Routes <- MCRoutes
  Workers <- MCWorkers
  MaxEdits = 2
  MaxCommands = 2
  MaxRequests = 1
INVARIANTS
  LoadInv
PROPERTIES
  NoAnonymousService
CHECK_DEADLOCK FALSE
