SPECIFICATION Spec
CONSTANTS
  Colors = {264, 65283, 8421504, 16744703}
  MaxBrightness = 1000
INVARIANTS TypeOK LedsAccounted
PROPERTY NeverDarker
