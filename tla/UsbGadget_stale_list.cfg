SPECIFICATION Spec
CONSTANTS
  MaxEvents = 1
  MaxDeaths = 0
  MaxFaults = 1
  FaultSites <- LinkFaults
  Requests <- FfsOnly
INVARIANT PulledUpWhenWritten
