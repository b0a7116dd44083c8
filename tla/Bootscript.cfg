CONSTANTS
  Slots = {"a", "b"}
  MaxTries = 2
  HasVolumeKeys = TRUE
  MaxCuts = 4
  MaxFaults = 2
SPECIFICATION FairSpec
INVARIANTS TypeOK FallbackReachesFastbootd
PROPERTIES BcbSpec NormalBootVerified FreshBoardFallsBack
\* Android may run for ever.
CHECK_DEADLOCK FALSE
