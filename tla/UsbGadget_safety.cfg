SPECIFICATION Spec
CONSTANTS
  MaxEvents = 2
  MaxDeaths = 1
  MaxFaults = 1
  FaultSites <- AllFaults
  Requests <- AllKinds
INVARIANTS TypeOK FreshStart SuccessIsTrue NoneMeansDown
           NoLostWakeup AsleepOnlyWhenUp
PROPERTIES EndpointListStable ApiSpec
