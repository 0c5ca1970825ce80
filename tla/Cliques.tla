------------------------------- MODULE Cliques -------------------------------
(***************************************************************************)
(* Clique counting on neighbour masks (clique.rs), and the score it feeds: *)
(* histogram, Goodman gap, score bytes and their order (histogram.rs,      *)
(* goodman.rs, score.rs).  A mask is the set of its bits; a NeighborSet is *)
(* a function from the vertices to their masks.                            *)
(***************************************************************************)
EXTENDS Graph

CONSTANT WordBits       \* bits of a mask (64 in the code)
ASSUME WordAssumption == WordBits \in Nat \ {0}

FromAdj(g) == [v \in Vertices(g.n) |-> Neighbors(g, v)]

HasEdge(nbrs, u, v) == v \in nbrs[u]

FlipEdge(nbrs, u, v) ==
  [nbrs EXCEPT ![u] = SymDiff(@, {v}), ![v] = SymDiff(@, {u})]

\* mask & !((1 << (v + 1)) - 1).  At the last bit of the word the shift is one
\* too long: the release build takes it as a shift by 0 and keeps every bit.
Above(mask, v) == IF v + 1 < WordBits THEN {w \in mask : w > v} ELSE mask

\* The members of the mask behind v that are joined to it.
Later(nbrs, mask, v) == Above(nbrs[v] \cap mask, v)

Pairs(nbrs, mask) == {p \in mask \X mask : p[2] \in Later(nbrs, mask, p[1])}

Triangles(nbrs, mask) ==
  {t \in mask \X mask \X mask :
     /\ t[2] \in Later(nbrs, mask, t[1])
     /\ t[3] \in Later(nbrs, Later(nbrs, mask, t[1]), t[2])}

\* The cliques of size t in every mask, from those of size t - 1.
CountsOf(nbrs, t, smaller) ==
  [mask \in SUBSET DOMAIN nbrs |->
     CASE t = 0 -> 1
       [] t = 1 -> Cardinality(mask)
       [] t = 2 -> Cardinality(Pairs(nbrs, mask))
       [] t = 3 -> Cardinality(Triangles(nbrs, mask))
       [] t > 3 -> SumFunction([v \in mask |-> smaller[{w \in mask : w > v} \cap nbrs[v]]])]

\* The cliques of a size among the candidates, with the code's fast paths.
CountCliquesInMask(nbrs, candidates, target) ==
  LET count[t \in 0..target] == CountsOf(nbrs, t, count[t - 1])
  IN  count[target][candidates]

CountCliques(nbrs, k) ==
  CASE k = 0 -> 1
    [] k = 1 -> Cardinality(DOMAIN nbrs)
    [] k = 2 -> SumFunction([v \in DOMAIN nbrs |-> Cardinality(Above(nbrs[v], v))])
    [] k > 2 -> SumFunction([v \in DOMAIN nbrs |-> CountCliquesInMask(nbrs, Above(nbrs[v], v), k - 1)])

\* k-cliques on u and v, joined.
CountJoined(nbrs, k, u, v) ==
  LET common == (nbrs[u] \cap nbrs[v]) \ {u, v}
  IN  CASE k < 2 -> 0
        [] k = 2 -> 1
        [] k > 2 -> IF Cardinality(common) < k - 2 THEN 0
                    ELSE CountCliquesInMask(nbrs, common, k - 2)

\* As many, if they were (or are) joined.
CountAssuming(nbrs, k, u, v, present) == IF present THEN CountJoined(nbrs, k, u, v) ELSE 0

CountThroughEdge(nbrs, k, u, v) == CountAssuming(nbrs, k, u, v, HasEdge(nbrs, u, v))

\* A mutant: a removed edge frees the graph, and nothing is charged to the complement.
DeltaHalf(adj, comp, k, ell, u, v) ==
  <<CountAssuming(adj, k, u, v, ~HasEdge(adj, u, v)) - CountThroughEdge(adj, k, u, v),
    - CountThroughEdge(comp, ell, u, v)>>

\* Change of (k-cliques of the graph, ell-cliques of the complement) by a flip.
ViolationDelta(adj, comp, k, ell, u, v) ==
  <<CountAssuming(adj, k, u, v, ~HasEdge(adj, u, v)) - CountThroughEdge(adj, k, u, v),
    CountAssuming(comp, ell, u, v, HasEdge(adj, u, v)) - CountThroughEdge(comp, ell, u, v)>>

Flip(nbrs, p) == FlipEdge(nbrs, p[1], p[2])

-----------------------------------------------------------------------------
(* Edges that take part in a violation *)

\* The sets of rests[v] with v put to each, for every v.
Headed(rests) == UNION {{{v} \cup rest : rest \in rests[v]} : v \in DOMAIN rests}

\* What may follow a clique out of a mask: `left` vertices, each above and
\* joined to the one before.
Rests(nbrs, mask, left, shorter) ==
  CASE left = 0 -> {{}}
    [] left > 0 /\ Cardinality(mask) < left -> {}
    [] left > 0 /\ Cardinality(mask) >= left ->
         Headed([w \in mask |-> shorter[{x \in mask : x > w} \cap nbrs[w]]])

Extensions(nbrs, left, shorter) == [mask \in SUBSET DOMAIN nbrs |-> Rests(nbrs, mask, left, shorter)]

\* The cliques found by extending every vertex with ever higher candidates.
Cliques(nbrs, k) ==
  LET extend[left \in 0..(k - 1)] == Extensions(nbrs, left, extend[left - 1])
  IN  Headed([v \in DOMAIN nbrs |-> extend[k - 1][Above(nbrs[v], v)]])

\* The pairs marked by enumerate_cliques_and_mark, as masks.
Marked(nbrs, k) ==
  CASE k < 2 -> [v \in DOMAIN nbrs |-> {}]
    [] k = 2 -> nbrs
    [] k > 2 -> [v \in DOMAIN nbrs |-> UNION {c \ {v} : c \in {d \in Cliques(nbrs, k) : v \in d}}]

\* A mutant: the complement is searched for the clique size of the graph.
GuiltyByRed(adj, comp, k, ell) ==
  LET red == Marked(adj, k)
      blue == Marked(comp, k)
  IN  {p \in Slots(Cardinality(DOMAIN adj)) : p[2] \in Above(red[p[1]] \cup blue[p[1]], p[1])}

GuiltyEdges(adj, comp, k, ell) ==
  LET red == Marked(adj, k)
      blue == Marked(comp, ell)
  IN  {p \in Slots(Cardinality(DOMAIN adj)) : p[2] \in Above(red[p[1]] \cup blue[p[1]], p[1])}

-----------------------------------------------------------------------------
(* Histogram, gap and score *)

\* Tiers 3..maxK, without the empty ones at the top.
Histogram(g, maxK) ==
  LET adj == FromAdj(g)
      comp == FromAdj(Complement(g))
      tiers == [k \in 3..maxK |-> [red |-> CountCliques(adj, k), blue |-> CountCliques(comp, k)]]
      filled == {k \in 3..maxK : tiers[k].red > 0 \/ tiers[k].blue > 0}
  IN  [k \in {x \in 3..maxK : \E y \in filled : x <= y} |-> tiers[k]]

IsValidRamsey(hist, k, ell) ==
  \A t \in DOMAIN hist : ~(t = k /\ hist[t].red > 0) /\ ~(t = ell /\ hist[t].blue > 0)

\* A mutant: the degrees run to n - 2.
GoodmanOffByOne(n) ==
  IF n < 3 THEN 0
  ELSE (n * (n - 1) * (n - 2)) \div 6 - (n * (((n - 1) * (n - 2)) \div 4)) \div 2

GoodmanMinimum(n) ==
  IF n < 3 THEN 0
  ELSE (n * (n - 1) * (n - 2)) \div 6 - (n * (((n - 1) * (n - 1)) \div 4)) \div 2

GoodmanGap(n, red, blue) ==
  LET actual == red + blue IN IF actual > GoodmanMinimum(n) THEN actual - GoodmanMinimum(n) ELSE 0

TierKey(hist, k) ==
  IF k \notin DOMAIN hist THEN <<0, 0>>
  ELSE IF hist[k].red >= hist[k].blue THEN <<hist[k].red, hist[k].blue>>
       ELSE <<hist[k].blue, hist[k].red>>

ScoreOf(g, maxK) ==
  LET hist == Histogram(g, maxK)
      tri == IF 3 \in DOMAIN hist THEN hist[3] ELSE [red |-> 0, blue |-> 0]
      canon == CanonicalForm(g)
  IN  [hist |-> hist, gap |-> GoodmanGap(g.n, tri.red, tri.blue), aut |-> canon.aut,
       cid |-> ComputeCid(canon.graph)]

\* The order of two sequences of bytes, or of numbers written with fixed width.
LexLess(a, b) ==
  \E i \in 1..(Len(b)) :
    /\ i > Len(a) \/ a[i] < b[i]
    /\ \A j \in 1..(i - 1) : j <= Len(a) /\ a[j] = b[j]

\* The score bytes, each number one element; -aut stands for the inverse 1/aut,
\* which falls as aut grows.
ScoreBytes(score, maxK) ==
  FlattenSeq([x \in 1..(maxK - 2) |-> TierKey(score.hist, maxK + 1 - x)])
    \o <<score.gap, -score.aut>> \o score.cid

\* Ord for GraphScore: a is better than b.
ScoreLess(a, b) ==
  LET top == Max({2} \cup DOMAIN a.hist \cup DOMAIN b.hist)
      Tiers(s) == FlattenSeq([x \in 1..(top - 2) |-> TierKey(s.hist, top + 1 - x)])
  IN  \/ LexLess(Tiers(a), Tiers(b))
      \/ /\ Tiers(a) = Tiers(b)
         /\ \/ a.gap < b.gap
            \/ a.gap = b.gap /\ a.aut > b.aut
            \/ a.gap = b.gap /\ a.aut = b.aut /\ LexLess(a.cid, b.cid)
=============================================================================
