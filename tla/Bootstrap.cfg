CONSTANTS
  P = 3
  Launches <- AllLaunches
  Exchanges = 3
  MaxAttempts = 2
  MaxCrashes = 1
  SockBuf = 1
SPECIFICATION FairSpec
INVARIANTS BarrierSync WrongLaunchIsLoud
PROPERTIES AllLeave DeathIsNoticed ImplementsExchange
CHECK_DEADLOCK FALSE
