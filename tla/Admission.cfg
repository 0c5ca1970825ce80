CONSTANTS
  Graphs = {1, 2, 3}
  Capacity = 1
  Txs = {t1, t2, t3}
  Overlap = "distinct"
SPECIFICATION FairSpec
INVARIANT TopKept
PROPERTIES StaysBeaten EndKeeps AllEnd
