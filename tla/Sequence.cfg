CONSTANTS
  P = 3
  Span = 6
  SgeLimit = 4
  SizeLimit = 16
  Programs <- AllPrograms
  Zero = Zero
SPECIFICATION FairSpec
INVARIANTS RightWhereReturned AllgatherNeedsAll BroadcastTaken NeverThrows
PROPERTIES AllStop
CHECK_DEADLOCK FALSE
