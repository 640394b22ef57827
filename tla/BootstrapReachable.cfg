CONSTANTS
  P = 3
  Launches <- RightLaunches
  Exchanges = 1
  MaxAttempts = 2
  MaxCrashes = 0
  SockBuf = 2
SPECIFICATION Spec
INVARIANTS ConstructedMeansAllJoined
CHECK_DEADLOCK FALSE
