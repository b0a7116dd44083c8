SPECIFICATION FairSpec
CONSTANTS
  Composers = {"c1"}
  Slots = {0, 1}
  Durations = {2}
  kEffectMillis = 1
  LengthWidth = 2
  kComposeSizeMax = 2
  MaxTimers = 1
  MaxMishaps = 2
INVARIANTS TypeOK LeaksBounded
PROPERTIES DeviceSpec Settles
CHECK_DEADLOCK FALSE
