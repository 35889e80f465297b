\* the monitor of a signal perturbation fails
SPECIFICATION Spec
CONSTANTS
  Services = {"signal"}
  MaxRequests = 1
  NofInputs = 1
  NofOutputs = 1
  Faults <- OnlyMonitor
  MaxFaults = 1
  MaxCrashes = 0
CHECK_DEADLOCK FALSE
INVARIANT
  MonitorErrorReported
