\* no fault at all: two falsifications
SPECIFICATION Spec
CONSTANTS
  Services = {"falsification"}
  MaxRequests = 2
  NofInputs = 1
  NofOutputs = 1
  Faults = {}
  MaxFaults = 0
  MaxCrashes = 0
CHECK_DEADLOCK FALSE
INVARIANT
  FaultFreeGetsResult
