CONSTANTS
  Graphs = {1, 2, 3, 4}
  Capacity = 2
  MaxSubmissions = 1
  DefaultBatch = 1
  ScoreLimit = 4
  BufferHigh = 4
  BufferKeep = 1
  MaxKnown = 4
  Faults = {}
  Overlap = "none"
  Theirs = {1, 2, 3, 4}
SPECIFICATION Spec
INVARIANT GateSkipsBeaten
