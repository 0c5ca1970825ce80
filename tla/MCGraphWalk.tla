----------------------------- MODULE MCGraphWalk -----------------------------
\* Clique sizes for module GraphWalk: symmetric, lopsided, the fast paths for
\* pairs and for triangles, the general path.
EXTENDS GraphWalk

MCTargets == {<<3, 3>>, <<4, 3>>, <<2, 5>>}
=============================================================================
