\* two services, two requests, one crash, two faults of any kinds
SPECIFICATION Spec
CONSTANTS
  Services = {"falsification", "signal"}
  MaxRequests = 2
  NofInputs = 0
  NofOutputs = 2
  Faults <- AllFaults
  MaxFaults = 2
  MaxCrashes = 1
CHECK_DEADLOCK FALSE
PROPERTIES
  RequestsAnswered
  AllCleanedUp
  ImplementsService
