CONSTANTS
  P = 2
  Span = 1
  SgeLimit = 4
  Half = 4
  Counts = {1}
  Mismatch = FALSE
  Calls <- MCCalls
  MaxRounds = 1
  Op <- FloatOp
  Input <- FloatInput
  Zero <- FloatZero
SPECIFICATION Spec
INVARIANTS SameAnswer
CHECK_DEADLOCK FALSE
