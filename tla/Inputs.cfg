SPECIFICATION MCSpec
CONSTANTS
  EXP_BITS = 4
  MANT_BITS = 3
  U32 = 8
  U16 = 4
  U8 = 2
  PAGE = 2
  TEMPLATE = 2
  s1 = s1
  s2 = s2
  sx = sx
  Signals <- MCSignals
  NotNumber = NotNumber
  NotList = NotList
CHECK_DEADLOCK FALSE
INVARIANTS
  InputsTypeOK
  TrajectoryReachesMaps
  CellsHoldSums
  CellsHoldExactSums
  UnnamedKeepTheirCells
  FittingIsAccepted
