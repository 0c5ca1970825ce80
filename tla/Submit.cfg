CONSTANTS
  Graphs = {1, 2, 3}
  Capacity = 2
  Requests = {r1, r2}
  Readers = {d1}
  Asked = {"threshold"}
  Listed = {3}
  Found = {1, 2}
SPECIFICATION Spec
INVARIANTS RowsBacked CachedStands AdmissionAnnounced
SYMMETRY Symmetry
