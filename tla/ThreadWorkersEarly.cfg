SPECIFICATION Spec
CONSTANTS
  Workers = {w1, w2, w3}
  None = none
  Keepers = {w1}
  Busy = {w2}
  MaxFire = 1
  MaxNest = 2
  MaxJoins = 2
  RetryLimit = 1
  LateAssign = FALSE
  Unordered = TRUE
CHECK_DEADLOCK FALSE
INVARIANT PromiseHasCarrier
