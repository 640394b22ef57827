CONSTANTS
  P = 2
  Span = 2
  SgeLimit = 4
  Counts = {1, 2}
  Mismatch = TRUE
  Calls <- MCCalls
  MaxRounds = 1
  Teardown = FALSE
  Op <- MCOp
  Input <- MCInput
  Zero <- MCZero
SPECIFICATION Spec
INVARIANTS LoudOrCorrect
CHECK_DEADLOCK FALSE
