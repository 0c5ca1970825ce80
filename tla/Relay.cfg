CONSTANTS
  Workers = {w1, w2}
  Conns = {c1, c2}
  Uis = {u1}
  MaxWorkers = 1
  BusSize = 2
SPECIFICATION FairSpec
INVARIANTS ConnectedListed ConnectionBound ShownIsListed ListedIsShown
PROPERTY GoneIsUnlisted
