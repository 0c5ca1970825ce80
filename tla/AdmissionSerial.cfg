CONSTANTS
  Graphs = {1, 2, 3, 4, 5}
  Capacity = 2
  Txs = {t1}
  Overlap = "none"
SPECIFICATION Spec
INVARIANT BestKept
PROPERTIES Abstract AnswerTrue
