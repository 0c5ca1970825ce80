CONSTANTS
  Graphs = {1, 2, 3}
  Capacity = 2
  MaxSubmissions = 0
  DefaultBatch = 1
  ScoreLimit = 3
  BufferHigh = 1
  BufferKeep = 0
  MaxKnown = 2
  Faults = {"lost", "unanswered", "panic"}
  Overlap = "any"
  Theirs = {1}
SPECIFICATION FairSpec
INVARIANTS GateKeepsRecord Accounted
PROPERTIES SubmittedOnce BufferDrains
