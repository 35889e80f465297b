\* state perturbation: a state map of two entries, so that updates can fail
SPECIFICATION Spec
CONSTANTS
  MAX_CYCLES = 3
  MINOR_TO_MAJOR_RATIO = 1
  NOF_WISIGNALS = 1
  NOF_RISIGNALS = 0
  NOF_ROSIGNALS = 0
  MODE = "state"
  TraceSize = 3
  OutCap = 1
  PertCap = 2
  StateMapCap = 2
  WriteAtEntry = FALSE
  MemoryFaults = TRUE
  EarlyExit = FALSE
  MaxInjections = 4
  Times <- MCTimes
CHECK_DEADLOCK FALSE
INVARIANTS
  StateWrittenLast
  LateIffOfferedLate
