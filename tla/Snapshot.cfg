CONSTANTS
  Servers = {s1, s2, s3, s4}
  PoolSize = 3
  MaxHeld = 3
SPECIFICATION FairSpec
INVARIANT OneCaptures
PROPERTY CapturesGoOn
