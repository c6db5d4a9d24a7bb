SPECIFICATION Spec
CONSTANTS
  Workers = {w1, w2, w3}
  None = none
  Keepers = {w1}
  Busy = {w2}
  MaxFire = 1
  MaxNest = 2
  MaxJoins = 2
  RetryLimit = 1
  LateAssign = FALSE
  Unordered = FALSE
INVARIANTS TypeOK IdsMatchSlots BalanceExact RequestsFindTheirWorker NeverHaltedInside ThreadKeptWhileUsed
PROPERTIES DestroyServed HaltAnswered ThreadCollected
CHECK_DEADLOCK FALSE
