CONSTANTS
  Clients = {c1, c2}
  QueueSize = 2
  MaxCalls = 5
SPECIFICATION FairSpec
INVARIANTS PausedIsShown AwaitedIsQueued
PROPERTIES ShutdownEnds Answered LastWord
CHECK_DEADLOCK FALSE
