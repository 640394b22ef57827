CONSTANTS
  MaxTotal = 13
  MaxChunks = 6
SPECIFICATION Spec
INVARIANTS Tiling Balanced LoopComputesClosedForm
CHECK_DEADLOCK FALSE
