CONSTANTS
  Devices = {"cpu", "gpu"}
  MaxTime = 5
  Durations = {0, 1, 3}
  kDefaultTimeout = 2
  Modes = {"LAUNCH", "OTHER"}
SPECIFICATION FairSpec
INVARIANTS TypeOK BoostFollowsHints BoostHasDeadline
PROPERTY TimedBoostEnds
