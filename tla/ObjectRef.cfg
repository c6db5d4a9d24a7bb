SPECIFICATION Spec
CONSTANTS
  Refs = {r1, r2, parent}
  Parent = parent
  Kids = {k1, k2}
  Thrd = thrd
  Mgr = mgr
  Local = local
  LateAdd = FALSE
INVARIANTS TypeOK RefCountExact DestroyedAlone WaitingHasRef IInv
PROPERTIES StagesInOrder AutoDestroyOnlyUnused CleanupInOwnThread EventuallyFreed
CHECK_DEADLOCK FALSE
