CONSTANTS
  Graphs = {1, 2, 3, 4}
  Capacity = 2
  Txs = {t1, t2}
  Overlap = "any"
SPECIFICATION Spec
INVARIANT TopKept
SYMMETRY Symmetry
