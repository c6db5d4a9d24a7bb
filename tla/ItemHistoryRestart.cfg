SPECIFICATION HistorySpec
CONSTANTS
  Capacity = 2
  HLimits = {2, 3}
  MaxSteps = 5
  MaxRestarts = 1
  MaxLostReplies = 1
INVARIANT GapIsTold
CHECK_DEADLOCK FALSE
