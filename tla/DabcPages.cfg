SPECIFICATION DabcSpec
CONSTANTS
  Nodes <- MCNodes
  Nobody = nobody
  ServerLists <- MCServerLists
  Batches = {1, 2}
  MaxListChanges = 2
  MaxHubClicks = 1
  MaxBnetFails = 1
  MaxOpenings = 3
  MaxStatusFails = 1
  Capacity = 2
  HLimits = {2, 3}
  MaxSteps = 6
  MaxRestarts = 1
  MaxLostReplies = 1
INVARIANTS DabcTypeOK SeriesIsConsecutive
PROPERTIES RowsSettle GoneIsSilent PollingGoesOn
CHECK_DEADLOCK FALSE
