SPECIFICATION Spec
CONSTANTS
  MaxEvents = 1
  MaxDeaths = 1
  MaxFaults = 0
  FaultSites <- NoFaults
  Requests <- FfsOnly
INVARIANT RestartPullsUpAgain
