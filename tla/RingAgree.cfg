CONSTANTS
  P = 3
  Span = 6
  SgeLimit = 4
  Counts = {0, 1, 2, 4, 5}
  Mismatch = FALSE
  Calls <- MCCalls
  MaxRounds = 2
  Teardown = FALSE
  Op <- MCOp
  Input <- MCInput
  Zero <- MCZero
SPECIFICATION FairSpec
INVARIANTS TypeOK CollectiveSync NeverThrows NoDmaConflict OneOutstanding
PROPERTIES SendBufferStable ResultStable AllReturn ImplementsAllreduce
