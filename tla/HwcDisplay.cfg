SPECIFICATION FairSpec
CONSTANTS
  MaxLayers = 3
  Planes = 2
INVARIANTS TypeOK NoLostWakeup FrameIsCurrent PlanFits RangesComplete
PROPERTIES QuietSpec EndsFlattened
CHECK_DEADLOCK FALSE
