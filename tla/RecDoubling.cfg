CONSTANTS
  P = 4
  Span = 1
  SgeLimit = 4
  Half = 4
  Counts = {0, 1}
  Mismatch = TRUE
  Calls <- MCCalls
  MaxRounds = 2
  Op <- MCOp
  Input <- MCInput
  Zero <- MCZero
SPECIFICATION FairSpec
INVARIANTS MatchesSerial OnlyLastCallThrows OneOutstanding FailsEverywhere
PROPERTIES AllReturn ImplementsAllreduce
CHECK_DEADLOCK FALSE
