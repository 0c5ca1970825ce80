CONSTANTS
  MaxQueued = 3
  MinBackoff = 2
  MaxBackoff = 12
SPECIFICATION FairSpec
INVARIANT FreshAfterDrain
PROPERTIES NeverHammered TelemetryEnds
CHECK_DEADLOCK FALSE
