-------------------------------- MODULE Graph --------------------------------
(***************************************************************************)
(* Graphs as the workers and the server hold and exchange them: the packed *)
(* upper triangle (adjacency.rs), its graph6 text (graph6.rs) and the      *)
(* canonical labelling and content identifier it is stored under           *)
(* (automorphism.rs, cid.rs).  A graph is the set of the bits that are set *)
(* in its packed triangle, with its number of vertices; a text is the      *)
(* sequence of its bytes.                                                  *)
(***************************************************************************)
EXTENDS Integers, Sequences, SequencesExt, FiniteSetsExt, Functions

Vertices(n) == 0..(n - 1)

\* The edge slots, each named by its pair <<i, j>> with i < j.
Slots(n) == {p \in Vertices(n) \X Vertices(n) : p[1] < p[2]}

TotalBits(n) == IF n < 2 THEN 0 ELSE (n * (n - 1)) \div 2

BitIndex(n, i, j) == i * n - (i * (i + 1)) \div 2 + (j - i - 1)

NewGraph(n) == [n |-> n, bits |-> {}]

Bit(g, i, j) == IF i < j THEN BitIndex(g.n, i, j) ELSE BitIndex(g.n, j, i)

Edge(g, i, j) == i # j /\ Bit(g, i, j) \in g.bits

SetEdge(g, i, j, value) ==
  IF i = j THEN g
  ELSE [g EXCEPT !.bits = IF value THEN @ \cup {Bit(g, i, j)} ELSE @ \ {Bit(g, i, j)}]

NumEdges(g) == Cardinality(g.bits)

Neighbors(g, v) == {u \in Vertices(g.n) : Edge(g, v, u)}

\* A new graph whose slots <<i, j>> hold Has(i, j).
GraphWith(n, Has(_, _)) ==
  [n |-> n, bits |-> {BitIndex(n, p[1], p[2]) : p \in {q \in Slots(n) : Has(q[1], q[2])}}]

Complement(g) == GraphWith(g.n, LAMBDA i, j : ~Edge(g, i, j))

\* perm[i] is the new label of the old vertex i.
PermuteVertices(g, perm) ==
  LET moved == {p \in Slots(g.n) : Edge(g, p[1], p[2])}
  IN  [n |-> g.n, bits |-> {Bit(g, perm[p[1]], perm[p[2]]) : p \in moved}]

AllGraphs(n) == [n : {n}, bits : SUBSET (0..(TotalBits(n) - 1))]

-----------------------------------------------------------------------------
(* graph6 (graph6.rs) *)

MaxText == 62

\* The slots in the order of the text: column by column.
ColumnIndex(i, j) == (j * (j - 1)) \div 2 + i

Groups(n) == (TotalBits(n) + 5) \div 6

\* A mutant: the first bit of a group is the least significant.
PackedLow(bits) == FoldRight(LAMBDA bit, byte : 2 * byte + bit, bits, 0) + 63

\* The byte of one group of six bits, the first the most significant.
Packed(bits) == FoldLeft(LAMBDA byte, bit : 2 * byte + bit, 0, bits) + 63

BitsOf(byte) == [k \in 1..6 |-> ((byte - 63) \div 2^(6 - k)) % 2]

\* The bits of the text of g; those past the last slot are the padding.
TextBits(g) ==
  LET set == {ColumnIndex(p[1], p[2]) : p \in {q \in Slots(g.n) : Edge(g, q[1], q[2])}}
  IN  [x \in 0..(6 * Groups(g.n) - 1) |-> IF x \in set THEN 1 ELSE 0]

Encode(g) ==
  LET bits == TextBits(g)
  IN  <<g.n + 63>> \o [m \in 1..Groups(g.n) |-> Packed([k \in 1..6 |-> bits[6 * (m - 1) + k - 1]])]

Failed(why) == [error |-> why]

IsFailed(result) == "error" \in DOMAIN result

\* The graph in a text, or the error the decoder returns.
Decode(text) ==
  CASE text = <<>> -> Failed("empty")
    [] text # <<>> /\ ~(Range(text) \subseteq 63..126) -> Failed("invalid char")
    [] OTHER ->
         LET n == text[1] - 63
             rest == Tail(text)
             bits == FlattenSeq([m \in DOMAIN rest |-> BitsOf(rest[m])])
         IN  CASE n > MaxText -> Failed("too large")
               [] n <= MaxText /\ Len(rest) < Groups(n) -> Failed("too short")
               [] n <= MaxText /\ Len(rest) > Groups(n) -> Failed("extra bytes")
               [] OTHER -> GraphWith(n, LAMBDA i, j : bits[ColumnIndex(i, j) + 1] = 1)

\* The JSON transport form, whose vertex count must agree with the text.
ToJson(g) == [n |-> g.n, graph6 |-> Encode(g)]

FromJson(json) ==
  LET g == Decode(json.graph6)
  IN  IF IsFailed(g) \/ g.n = json.n THEN g ELSE Failed("too short")

-----------------------------------------------------------------------------
(* Canonical labelling and content identifier (automorphism.rs, cid.rs) *)

Labellings(n) == Bijection(Vertices(n), Vertices(n))

\* The graph that has, at positions i and j, the vertices lab[i] and lab[j].
Relabelled(g, lab) == GraphWith(g.n, LAMBDA i, j : Edge(g, lab[i], lab[j]))

Weight(g) == FoldSet(LAMBDA b, w : w + 2^b, 0, g.bits)

\* nauty: a labelling under which isomorphic graphs become equal, and the
\* number of automorphisms.  Which of the equal graphs it takes is its own
\* affair; here it is the lightest.
Nauty(g) ==
  LET labs == Labellings(g.n)
      weight == [lab \in labs |-> Weight(Relabelled(g, lab))]
      least == Min(Range(weight))
  IN  [lab |-> CHOOSE lab \in labs : weight[lab] = least,
       aut |-> Cardinality({lab \in labs : Relabelled(g, lab) = g})]

\* A mutant: the labelling is applied as it comes, not inverted.
NotInverted(lab) == lab

Inverted(lab) == [v \in DOMAIN lab |-> CHOOSE p \in DOMAIN lab : lab[p] = v]

CanonicalForm(g) ==
  LET found == Nauty(g)
  IN  [graph |-> IF g.n = 0 THEN NewGraph(0) ELSE PermuteVertices(g, Inverted(found.lab)),
       aut |-> found.aut]

\* blake3 of the text: an injective name, kept as the text itself.
ComputeCid(g) == Encode(g)

CanonicalCid(g) == ComputeCid(CanonicalForm(g).graph)

-----------------------------------------------------------------------------
(* Seeds (init.rs) *)

IsPrime(n) == n >= 2 /\ \A d \in 2..(n - 1) : n % d # 0

\* The smallest prime p = 1 (mod 4) that is at least n and 5.
PaleyModulus(n) ==
  LET from == Max({n, 5}) IN Min({p \in from..(2 * from) : p % 4 = 1 /\ IsPrime(p)})

PaleyGraph(n) ==
  LET p == PaleyModulus(n)
      squares == {(x * x) % p : x \in 1..(p - 1)}
  IN  GraphWith(n, LAMBDA i, j : (i - j) % p \in squares)

\* Graphs with one more random pair flipped; a pair of equal vertices does nothing.
Noisy(graphs, pairs) == {SetEdge(h, p[1], p[2], ~Edge(h, p[1], p[2])) : h \in graphs, p \in pairs}

\* perturb, with as many noise flips.
Perturbed(g, flips) ==
  LET after[f \in 0..flips] ==
        IF f = 0 THEN {g} ELSE Noisy(after[f - 1], Vertices(g.n) \X Vertices(g.n))
  IN  after[flips]
=============================================================================
