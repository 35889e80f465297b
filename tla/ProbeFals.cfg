\* falsification: outputs and inputs go to traces, reads may fail
SPECIFICATION Spec
CONSTANTS
  MAX_CYCLES = 3
  MINOR_TO_MAJOR_RATIO = 3
  NOF_WISIGNALS = 1
  NOF_RISIGNALS = 1
  NOF_ROSIGNALS = 2
  MODE = "falsification"
  TraceSize = 4
  OutCap = 1
  PertCap = 1
  StateMapCap = 1
  WriteAtEntry = FALSE
  MemoryFaults = TRUE
  EarlyExit = TRUE
  MaxInjections = 0
  Times <- NoTimes
CHECK_DEADLOCK FALSE
INVARIANTS
  TimeCountsMajorSteps
  OutputAccounted
