SPECIFICATION FairSpec
CONSTANTS
  MaxEvents = 1
  MaxDeaths = 1
  MaxFaults = 1
  FaultSites <- AllFaults
  Requests <- FfsOnly
PROPERTIES ApiFairSpec PulledUpEventually
