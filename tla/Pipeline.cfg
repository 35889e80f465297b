\* monitoring: an output ring of two records, batches of three, reads and Redis
\* may fail, the model may exit
SPECIFICATION PipelineSpec
CONSTANTS
  MAX_CYCLES = 7
  MINOR_TO_MAJOR_RATIO = 2
  NOF_WISIGNALS = 0
  NOF_RISIGNALS = 0
  NOF_ROSIGNALS = 2
  MODE = "monitoring"
  TraceSize = 7
  OutCap = 2
  PertCap = 1
  StateMapCap = 1
  WriteAtEntry = FALSE
  MemoryFaults = TRUE
  EarlyExit = TRUE
  MaxInjections = 0
  Times <- NoTimes
  BATCH = 3
  RedisFaults = TRUE
CHECK_DEADLOCK FALSE
INVARIANTS
  PipelineTypeOK
  OutputAccounted
PROPERTIES
  ImplementsStream
  CompleteRunEnds
  PipelineStops
