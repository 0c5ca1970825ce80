------------------------------ MODULE GraphWalk ------------------------------
(***************************************************************************)
(* A walk over all the graphs of a size by single edge flips, as every     *)
(* strategy makes it: the neighbour masks of the graph and of its          *)
(* complement are flipped in place and the clique counts follow by deltas. *)
(* Each state is one graph, so its invariants also compare the operators   *)
(* of modules Graph and Cliques with what they should compute.             *)
(* Its specification is named apart from that of Search, which moves by    *)
(* the same flips: SearchProofs is about both.                             *)
(***************************************************************************)
EXTENDS Cliques

CONSTANTS
  Sizes,        \* the numbers of vertices walked
  Targets,      \* the pairs <<k, ell>> of clique sizes walked
  LabelledUpTo  \* bound: the size up to which all relabellings are enumerated

ASSUME SizesAssumption ==
  /\ Sizes \subseteq 2..MaxText /\ \A size \in Sizes : size < WordBits
  /\ Targets \subseteq Nat \X Nat /\ LabelledUpTo \in Nat

VARIABLES
  adj,          \* adj_nbrs
  comp,         \* comp_nbrs
  target,       \* <<target_k, target_ell>>
  kc,           \* k-cliques of the graph, by deltas
  ei            \* ell-cliques of the complement, by deltas
walkVars == <<adj, comp, target, kc, ei>>

n == Cardinality(DOMAIN adj)

graph == GraphWith(n, LAMBDA i, j : HasEdge(adj, i, j))

\* What a search may start from: the empty graph, a Paley graph, one with noise.
Seeds(size) == {NewGraph(size)} \cup Perturbed(PaleyGraph(size), 1)

WalkInit ==
  \E size \in Sizes, t \in Targets : \E seed \in Seeds(size) :
    /\ target = t
    /\ adj = FromAdj(seed)
    /\ comp = FromAdj(Complement(seed))
    /\ kc = CountCliques(adj, t[1])
    /\ ei = CountCliques(comp, t[2])

FlipStep(p) ==
  LET delta == ViolationDelta(adj, comp, target[1], target[2], p[1], p[2])
  IN  /\ kc' = Max({0, kc + delta[1]})
      /\ ei' = Max({0, ei + delta[2]})
      /\ adj' = Flip(adj, p)
      /\ comp' = Flip(comp, p)
      /\ UNCHANGED target

WalkNext == \E p \in Slots(n) : FlipStep(p)

WalkSpec == WalkInit /\ [][WalkNext]_walkVars

-----------------------------------------------------------------------------
(* What the operators should compute *)

\* The k-cliques of a graph, by their definition.
CliquesOf(g, k) == {S \in SUBSET Vertices(g.n) :
  Cardinality(S) = k /\ \A u, v \in S : u # v => Edge(g, u, v)}

PairsIn(S) == {p \in S \X S : p[1] < p[2]}

\* The counts carried along by deltas are never off: along every walk they are
\* the numbers of cliques of the current graph and of its complement, the two
\* masks are those of a graph and of its complement, and a recount (with its
\* fast paths for small cliques) agrees for every clique size.  The periodic
\* recounts of the strategies therefore correct nothing.
CountsExact ==
  /\ kc = Cardinality(CliquesOf(graph, target[1]))
  /\ ei = Cardinality(CliquesOf(Complement(graph), target[2]))
  /\ adj = FromAdj(graph) /\ comp = FromAdj(Complement(graph))
  /\ \A k \in 0..n : CountCliques(adj, k) = Cardinality(CliquesOf(graph, k))
  /\ 3 <= Min(Range(target)) =>
       (IsValidRamsey(Histogram(graph, Max(Range(target))), target[1], target[2]) <=> kc + ei = 0)

\* The focused mode flips exactly the edges that lie in some violation: none
\* that matters is left out, and none is offered that cannot help.
GuiltyExact ==
  GuiltyEdges(adj, comp, target[1], target[2]) =
    UNION {PairsIn(S) : S \in CliquesOf(graph, target[1]) \cup CliquesOf(Complement(graph), target[2])}

\* A graph survives its transport: the text decodes to the same graph, under
\* the vertex count sent with it only, and a text cut short, lengthened or
\* damaged is refused.
TextFaithful ==
  LET json == ToJson(graph)
      text == json.graph6
  IN  /\ FromJson(json) = graph
      /\ \A m \in Sizes \ {n} : IsFailed(FromJson([json EXCEPT !.n = m]))
      /\ IsFailed(Decode(Front(text))) /\ IsFailed(Decode(Append(text, 63)))
      /\ \A i \in DOMAIN text : IsFailed(Decode([text EXCEPT ![i] = 62]))

\* Relabelling the vertices changes nothing of what is stored: isomorphic
\* graphs have one canonical form, one CID and one automorphism order, and the
\* canonical form is a relabelling of the graph.
CanonicalShared ==
  LET Swapped(p) == [v \in Vertices(n) |-> IF v = p[1] THEN p[2] ELSE IF v = p[2] THEN p[1] ELSE v]
      canon == CanonicalForm(graph)
  IN  n <= LabelledUpTo =>
      /\ \A p \in Slots(n) : CanonicalForm(PermuteVertices(graph, Swapped(p))) = canon
      /\ \E lab \in Labellings(n) : PermuteVertices(graph, lab) = canon.graph

\* The server ranks by the bytes and the workers by Ord: on a graph and each
\* graph one flip away the two agree, although Ord starts at the highest tier
\* either histogram has and the bytes at max_k.  The gap never saturates: no
\* graph has fewer monochromatic triangles than Goodman's minimum.
RankedAlike ==
  LET maxK == Max({target[1], target[2]})
      mine == ScoreOf(graph, maxK)
  IN  /\ n <= LabelledUpTo => \A p \in Slots(n) :
           LET other == ScoreOf(SetEdge(graph, p[1], p[2], ~Edge(graph, p[1], p[2])), maxK)
           IN  ScoreLess(mine, other) <=>
                 LexLess(ScoreBytes(mine, maxK), ScoreBytes(other, maxK))
      /\ CountCliques(adj, 3) + CountCliques(comp, 3) >= GoodmanMinimum(n)
=============================================================================
