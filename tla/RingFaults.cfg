CONSTANTS
  P = 3
  Span = 10
  SgeLimit = 4
  Counts = {2, 3, 4, 5, 10}
  Mismatch = TRUE
  Calls <- MCCalls
  MaxRounds = 2
  Teardown = TRUE
  Op <- MCOp
  Input <- MCInput
  Zero <- MCZero
SPECIFICATION FairSpec
INVARIANTS RingInv FailsEverywhere MemorySafe FullyReduced OnlyLastAllgatherFails
PROPERTIES AllStop
CHECK_DEADLOCK FALSE
