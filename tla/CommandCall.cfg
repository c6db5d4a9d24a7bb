SPECIFICATION Spec
CONSTANTS
  w1 = w1
  w2 = w2
  w3 = w3
  Workers <- MCWorkers
  Clients <- MCClients
  SyncRoutes <- MCSyncRoutes
  AsyncRoutes <- MCAsyncRoutes
  Redirects <- MCRedirects
  Cmds = {c1, c2, c3}
  NoCmd = nocmd
  NoRec = norec
  Destroyable = {}
  Timed = {}
INVARIANTS TypeOK SingleCustodian NoCommandLost ReplyTargetAlive EventsMatchQueue PostponedHasDrain
PROPERTIES CallsReturn PromiseKept
CHECK_DEADLOCK FALSE
