\* two sessions, two perturbations of the first one's client, no fault
SPECIFICATION SessionSpec
CONSTANTS
  Services = {"signal"}
  MaxRequests = 2
  NofInputs = 0
  NofOutputs = 1
  Faults = {}
  MaxFaults = 0
  MaxCrashes = 2
  ChanCap = 1
  InjectorFaults = FALSE
  MaxPerts = 2
  PertsOf <- FirstClientSends
CHECK_DEADLOCK FALSE
INVARIANTS
  InjectedOnceInOrder
  StrayOnlyAfterCleanup
