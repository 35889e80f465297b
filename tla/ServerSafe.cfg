\* all services, two requests, one fault of any kind, one crash
SPECIFICATION Spec
CONSTANTS
  Services = {"monitoring", "falsification", "state", "signal"}
  MaxRequests = 2
  NofInputs = 1
  NofOutputs = 1
  Faults <- AllFaults
  MaxFaults = 1
  MaxCrashes = 1
CHECK_DEADLOCK FALSE
INVARIANTS
  TypeOK
  SimulationsSerialized
  PinsAccounted
  SuccessIsReal
