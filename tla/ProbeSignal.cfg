\* signal perturbation: three cycles of two minor steps, write probe at the timer's address
SPECIFICATION Spec
CONSTANTS
  MAX_CYCLES = 3
  MINOR_TO_MAJOR_RATIO = 2
  NOF_WISIGNALS = 1
  NOF_RISIGNALS = 0
  NOF_ROSIGNALS = 1
  MODE = "signal"
  TraceSize = 3
  OutCap = 1
  PertCap = 2
  StateMapCap = 1
  WriteAtEntry = TRUE
  MemoryFaults = TRUE
  EarlyExit = FALSE
  MaxInjections = 3
  Times <- MCTimes
CHECK_DEADLOCK FALSE
INVARIANTS
  TypeOK
  KilledWhenDone
  SignalsWrittenExactly
  LateIffOfferedLate
PROPERTY
  SimulationStops
