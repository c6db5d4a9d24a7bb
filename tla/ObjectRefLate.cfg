SPECIFICATION Spec
CONSTANTS
  Refs = {r1, r2, parent}
  Parent = parent
  Kids = {k1}
  Thrd = thrd
  Mgr = mgr
  Local = local
  LateAdd = TRUE
INVARIANT WaitingHasRef
CHECK_DEADLOCK FALSE
