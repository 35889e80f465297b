\* two services, three requests whose cleanups overlap, one fault of any kind
SPECIFICATION Spec
CONSTANTS
  Services = {"falsification", "signal"}
  MaxRequests = 3
  NofInputs = 1
  NofOutputs = 1
  Faults <- AllFaults
  MaxFaults = 1
  MaxCrashes = 0
CHECK_DEADLOCK FALSE
INVARIANTS
  OneAttached
  OwnTraces
PROPERTY
  PinsRemovedByOwner
