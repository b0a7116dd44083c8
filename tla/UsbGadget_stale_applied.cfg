SPECIFICATION Spec
CONSTANTS
  MaxEvents = 1
  MaxDeaths = 0
  MaxFaults = 0
  FaultSites <- NoFaults
  Requests <- FfsOnly
INVARIANT AppliedIsTrue
