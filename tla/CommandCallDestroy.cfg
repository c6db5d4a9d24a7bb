SPECIFICATION Spec
CONSTANTS
  w1 = w1
  w2 = w2
  w3 = w3
  Workers <- MCWorkers
  Clients <- MCClients
  SyncRoutes <- MCSyncRoutes
  AsyncRoutes <- MCAsyncRoutes
  Redirects <- MCRedirects
  Cmds = {c1, c2}
  NoCmd = nocmd
  NoRec = norec
  Destroyable = {w1, w2}
  Timed = {c1, c2}
INVARIANT GoneIsQuiet
PROPERTY TimedCallsReturn
CHECK_DEADLOCK FALSE
