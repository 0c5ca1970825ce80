------------------------------ MODULE MCSearch ------------------------------
\* Jobs for module Search: one seed of every shape, fresh or with the seed
\* already known, and for the beam search a first round or one that has seen
\* every flip of its seed.  The beam searches that draw their slots at random
\* start from the denser shapes only.
EXTENDS Search

MCSeeds == {CanonicalForm(g).graph : g \in AllGraphs(N)}

JobsFor(strategy, iterations, focus, seeds, Carries(_)) ==
  UNION {[strategy : {strategy}, seed : {g}, maxIters : {iterations}, focused : focus,
          known : {{}, {Cid(g)}}, carry : Carries(g)] : g \in seeds}

MCJobs ==
  LET None(g) == {{}}
      FirstOrSeen(g) == {{}, {Fingerprint(Flip(FromAdj(g), p)) : p \in Slots(N)}}
      dense == {g \in MCSeeds : NumEdges(g) >= 5}
      full == {g \in MCSeeds : NumEdges(g) = TotalBits(N)}
  IN  JobsFor("tabu", 8, BOOLEAN, MCSeeds, None)
        \cup JobsFor("tree2", 7, {FALSE}, MCSeeds, FirstOrSeen)
        \cup JobsFor("tree2", 7, {TRUE}, dense, None)
        \cup JobsFor("tree2", 3, {FALSE}, full, None)
        \cup JobsFor("sa", 3, {FALSE}, MCSeeds, None)
=============================================================================
