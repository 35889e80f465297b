\* one session of two perturbations, one fault, failing injectors
SPECIFICATION SessionSpec
CONSTANTS
  Services = {"signal"}
  MaxRequests = 1
  NofInputs = 0
  NofOutputs = 1
  Faults <- SessionFaults
  MaxFaults = 1
  MaxCrashes = 2
  ChanCap = 1
  InjectorFaults = TRUE
  MaxPerts = 2
  PertsOf <- EveryClientSends
CHECK_DEADLOCK FALSE
INVARIANTS
  SessionTypeOK
  SurvivesPunctualClients
  PatientClientsAreRead
PROPERTIES
  GoroutinesEnd
  SessionsEnd
