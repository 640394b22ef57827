CONSTANTS
  P = 3
  Clusters <- MCClusters
  Draws <- TwoDraws
  QpNumber <- MCQpNumber
  retry_cnt = 1
  MaxFailures = 1
SPECIFICATION FairSpec
INVARIANTS Connected BarrierConnects NoStray NotLostAfterBarrier SameWire
PROPERTIES AllOver
CHECK_DEADLOCK FALSE
