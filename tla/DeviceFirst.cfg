CONSTANTS
  P = 2
  Clusters <- TwoAdapters
  Draws <- TwoDraws
  QpNumber <- MCQpNumber
  retry_cnt = 1
  MaxFailures = 0
SPECIFICATION Spec
INVARIANTS PicksActiveDevice
CHECK_DEADLOCK FALSE
