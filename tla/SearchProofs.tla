----------------------------- MODULE SearchProofs -----------------------------
(***************************************************************************)
(* Proofs about the search strategies (Search) and the flips and counts    *)
(* they are made of (GraphWalk, Cliques), for graphs of any size that a    *)
(* word holds, cliques of any size and any parameters of the strategies.   *)
(* First the counting: what the recursive count computes, what one flip    *)
(* changes.  Then the searches: the counts they carry along stay true,     *)
(* they keep to their budget and end, polishing only gains, and what they  *)
(* report and return is what they found.  Then the walk by single flips    *)
(* and what is said of each of its graphs: its cliques, its canonical      *)
(* form, its text, its rank and Goodman's bound on its triangles.  Last,   *)
(* with the canonical form, that no search reports a graph twice.          *)
(***************************************************************************)
EXTENDS Search, GraphWalk, FiniteSetTheorems, FunctionTheorems,
        SequenceTheorems, WellFoundedInduction, TLAPS

-----------------------------------------------------------------------------
(***************************************************************************)
(* Sums over a set                                                         *)
(***************************************************************************)

\* What SumFunction computes when it is unfolded.
SumFrom(f, S) ==
  CHOOSE iter : iter = [s \in SUBSET S |->
                          IF s = {} THEN 0
                          ELSE f[CHOOSE x \in s : TRUE] + iter[s \ {CHOOSE x \in s : TRUE}]]

\* SumFunction, down to the recursion it stands for.
LEMMA SumUnfolds == \A f : SumFunction(f) = SumFrom(f, DOMAIN f)[DOMAIN f]
BY DEF SumFunction, SumFunctionOnSet, FoldFunctionOnSet, MapThenFoldSet, SumFrom

\* Induction on the subsets of a finite set: if G holds of a subset whenever it
\* holds of all the smaller ones, it holds of all.
LEMMA SubsetInduction ==
  ASSUME NEW S, IsFiniteSet(S), NEW G \in SUBSET (SUBSET S),
         \A s \in SUBSET S : (\A r \in SUBSET s : r # s => r \in G) => s \in G
  PROVE  G = SUBSET S
<1> SUFFICES ASSUME G # SUBSET S
             PROVE  FALSE
  OBVIOUS
<1> DEFINE T == (SUBSET S) \ G
<1>1. T # {} /\ T \subseteq SUBSET S
  OBVIOUS
<1>2. IsWellFoundedOn(StrictSubsetOrdering(S), SUBSET S)
  <2>1. FiniteSubsetsOf(S) = SUBSET S
    BY FS_FiniteSubsetsOfFinite
  <2>2. IsWellFoundedOn(StrictSubsetOrdering(S), FiniteSubsetsOf(S))
    BY FS_StrictSubsetOrderingWellFounded
  <2>3. QED
    BY <2>1, <2>2
<1>3. PICK s \in T : \A r \in T : ~(<<r, s>> \in StrictSubsetOrdering(S))
  <2> HIDE DEF T
  <2>1. QED
    BY <1>1, <1>2, WFMin
<1>4. \A r \in SUBSET s : r # s => r \in G
  BY <1>3 DEF StrictSubsetOrdering
<1>5. QED
  BY <1>3, <1>4

\* U is made up of the finite and disjoint sets A[x], of f[x] elements.
Splits(U, S, A, f) ==
  /\ IsFiniteSet(S) /\ f \in [S -> Nat]
  /\ \A x \in S : IsFiniteSet(A[x]) /\ f[x] = Cardinality(A[x]) /\ A[x] \subseteq U
  /\ \A x, y \in S : \A e : e \in A[x] /\ e \in A[y] => x = y
  /\ \A e \in U : \E x \in S : e \in A[x]

\* The size of what is split into disjoint sets is the sum of their sizes.
LEMMA SumOfCards ==
  ASSUME NEW U, NEW S, NEW A, NEW f, Splits(U, S, A, f)
  PROVE  IsFiniteSet(U) /\ SumFunction(f) = Cardinality(U)
<1> USE DEF Splits
<1> DEFINE All(s) == UNION {A[x] : x \in s}
           some(s) == CHOOSE x \in s : TRUE
           g == [s \in SUBSET S |-> Cardinality(All(s))]
           iter == SumFrom(f, S)
           Unfolded(h) == [s \in SUBSET S |-> IF s = {} THEN 0 ELSE f[some(s)] + h[s \ {some(s)}]]
<1>1. \A s \in SUBSET S : IsFiniteSet(All(s))
  <2> SUFFICES ASSUME NEW s \in SUBSET S
               PROVE  IsFiniteSet(All(s))
    OBVIOUS
  <2>1. IsFiniteSet({A[x] : x \in s})
    <3>1. IsFiniteSet(s)
      BY FS_Subset
    <3> DEFINE m == [x \in s |-> A[x]]
    <3>2. m \in Surjection(s, {A[x] : x \in s})
      BY DEF Surjection
    <3>3. QED
      BY <3>1, <3>2, FS_Surjection
  <2>2. \A a \in {A[x] : x \in s} : IsFiniteSet(a)
    OBVIOUS
  <2>3. QED
    BY <2>1, <2>2, FS_UNION
<1>2. \A s \in SUBSET S : s # {} => /\ some(s) \in s /\ s \ {some(s)} \in SUBSET S
                                    /\ f[some(s)] = Cardinality(A[some(s)])
  OBVIOUS
<1>3. g = Unfolded(g)
  <2> SUFFICES ASSUME NEW s \in SUBSET S, s # {}
               PROVE  g[s] = f[some(s)] + g[s \ {some(s)}]
    <3>1. All({}) = {}
      OBVIOUS
    <3>2. g[{}] = 0
      BY <3>1, FS_EmptySet
    <3>3. QED
      BY <3>2
  <2> DEFINE x == some(s)
             r == s \ {x}
  <2>1. x \in s /\ r \in SUBSET S /\ f[x] = Cardinality(A[x]) /\ x \in S
    BY <1>2
  <2> HIDE DEF x
  <2>2. All(s) = A[x] \cup All(r) /\ A[x] \cap All(r) = {}
    BY <2>1
  <2>3. IsFiniteSet(A[x]) /\ IsFiniteSet(All(r))
    BY <1>1, <2>1
  <2>4. /\ Cardinality(All(s)) = Cardinality(A[x]) + Cardinality(All(r)) - Cardinality(A[x] \cap All(r))
    BY <2>2, <2>3, FS_Union
  <2>5. Cardinality(A[x] \cap All(r)) = 0
    BY <2>2, FS_EmptySet
  <2>6. Cardinality(A[x]) \in Nat /\ Cardinality(All(r)) \in Nat
    BY <2>3, FS_CardinalityType
  <2>7. g[s] = Cardinality(All(s)) /\ g[r] = Cardinality(All(r))
    BY <2>1
  <2> HIDE DEF All, g, r
  <2>8. g[s] = f[x] + g[r]
    BY <2>1, <2>4, <2>5, <2>6, <2>7
  <2>9. QED
    BY <2>8 DEF x, r
<1> HIDE DEF g
<1>4. iter = Unfolded(iter)
  <2>1. iter = CHOOSE h : h = Unfolded(h)
    BY Zenon DEF SumFrom
  <2> HIDE DEF iter, Unfolded
  <2>2. QED
    BY <1>3, <2>1, Zenon
<1> HIDE DEF iter
<1>5. iter = g
  <2> DEFINE G == {s \in SUBSET S : iter[s] = g[s]}
  <2>1. \A s \in SUBSET S : (\A r \in SUBSET s : r # s => r \in G) => s \in G
    <3> SUFFICES ASSUME NEW s \in SUBSET S, \A r \in SUBSET s : r # s => r \in G
                 PROVE  iter[s] = g[s]
      OBVIOUS
    <3>1. CASE s = {}
      BY <1>3, <1>4, <3>1
    <3>2. CASE s # {}
      <4>1. iter[s \ {some(s)}] = g[s \ {some(s)}]
        BY <1>2, <3>2
      <4>2. iter[s] = f[some(s)] + iter[s \ {some(s)}]
        BY <1>4, <3>2
      <4>3. g[s] = f[some(s)] + g[s \ {some(s)}]
        BY <1>3, <3>2
      <4>4. QED
        BY <4>1, <4>2, <4>3
    <3>3. QED
      BY <3>1, <3>2
  <2>2. G \in SUBSET (SUBSET S)
    OBVIOUS
  <2> HIDE DEF G
  <2>3. G = SUBSET S
    BY <2>1, <2>2, SubsetInduction
  <2>4. \A s \in SUBSET S : iter[s] = g[s]
    BY <2>3 DEF G
  <2>5. iter = [s \in SUBSET S |-> iter[s]] /\ g = [s \in SUBSET S |-> g[s]]
    BY <1>3, <1>4
  <2>6. QED
    BY <2>4, <2>5
<1>6. SumFunction(f) = iter[S]
  <2>1. DOMAIN f = S
    OBVIOUS
  <2>2. QED
    BY <2>1, SumUnfolds DEF iter
<1>7. g[S] = Cardinality(All(S)) /\ All(S) = U
  BY DEF g
<1>8. QED
  BY <1>1, <1>5, <1>6, <1>7

-----------------------------------------------------------------------------
(***************************************************************************)
(* Cliques, taken apart at their least member                              *)
(***************************************************************************)

\* The masks of a graph on the vertices V, short of the last bit of the word.
MasksOn(nbrs, V) ==
  /\ IsFiniteSet(V) /\ V \subseteq Nat
  /\ nbrs \in [V -> SUBSET V]
  /\ \A u, v \in V : u \in nbrs[v] <=> v \in nbrs[u]
  /\ \A v \in V : v \notin nbrs[v] /\ v + 1 < WordBits

\* Its members are all joined to one another.
IsClique(nbrs, S) == \A u, v \in S : u # v => v \in nbrs[u]

\* The cliques of t vertices in a mask: what the counts should count.
CliquesIn(nbrs, M, t) == {S \in SUBSET M : Cardinality(S) = t /\ IsClique(nbrs, S)}

\* The members of the mask behind v that are joined to it.
After(nbrs, M, v) == {w \in M : w > v} \cap nbrs[v]

\* Every set of numbers that is not empty has a least member.
LEMMA LeastOfNats ==
  ASSUME NEW S \in SUBSET Nat, S # {}
  PROVE  \E m \in S : \A x \in S : m <= x
<1>1. IsWellFoundedOn(OpToRel(<, Nat), Nat)
  BY NatLessThanWellFounded
<1>2. PICK m \in S : \A y \in S : ~(<<y, m>> \in OpToRel(<, Nat))
  BY <1>1, WFMin
<1>3. m \in S /\ m \in Nat /\ \A y \in S : y \in Nat
  BY <1>2
<1>4. \A y \in S : ~(y < m)
  BY <1>2, <1>3, Zenon DEF OpToRel
<1>5. \A y \in S : m <= y
  BY <1>3, <1>4
<1>6. QED
  BY <1>3, <1>5

\* Two vertices are two.
LEMMA PairSize == \A u, v : u # v => IsFiniteSet({u, v}) /\ Cardinality({u, v}) = 2
<1> SUFFICES ASSUME NEW u, NEW v, u # v
             PROVE  IsFiniteSet({u, v}) /\ Cardinality({u, v}) = 2
  OBVIOUS
<1>1. {u, v} = {u} \cup {v} /\ v \notin {u}
  OBVIOUS
<1>2. IsFiniteSet({u}) /\ Cardinality({u}) = 1
  BY FS_Singleton
<1>3. IsFiniteSet({u} \cup {v}) /\ Cardinality({u} \cup {v}) = 1 + 1
  BY <1>1, <1>2, FS_AddElement
<1>4. QED
  BY <1>1, <1>3

\* A finite mask has finitely many cliques, each of them finite.
LEMMA CliquesFinite ==
  ASSUME NEW nbrs, NEW M, IsFiniteSet(M), NEW t
  PROVE  /\ IsFiniteSet(CliquesIn(nbrs, M, t)) /\ Cardinality(CliquesIn(nbrs, M, t)) \in Nat
         /\ \A S \in CliquesIn(nbrs, M, t) : IsFiniteSet(S)
<1>1. IsFiniteSet(SUBSET M)
  BY FS_SUBSET
<1>2. CliquesIn(nbrs, M, t) \in SUBSET (SUBSET M)
  BY DEF CliquesIn
<1>3. IsFiniteSet(CliquesIn(nbrs, M, t))
  BY <1>1, <1>2, FS_Subset
<1>4. \A S \in SUBSET M : IsFiniteSet(S)
  BY FS_Subset
<1>5. QED
  BY <1>2, <1>3, <1>4, FS_CardinalityType

\* The empty clique is the only one of no vertex.
LEMMA CliquesOfNone ==
  ASSUME NEW nbrs, NEW M, IsFiniteSet(M)
  PROVE  Cardinality(CliquesIn(nbrs, M, 0)) = 1
<1>1. \A S \in SUBSET M : Cardinality(S) = 0 <=> S = {}
  <2>1. \A S \in SUBSET M : IsFiniteSet(S)
    BY FS_Subset
  <2>2. QED
    BY <2>1, FS_EmptySet
<1>2. CliquesIn(nbrs, M, 0) = {{}}
  BY <1>1 DEF CliquesIn, IsClique
<1>3. QED
  BY <1>2, FS_Singleton

\* Two finite sets of the same size, by a function between them.
LEMMA SameSize ==
  ASSUME NEW S, NEW T, IsFiniteSet(S), NEW f \in [S -> T],
         \A x, y \in S : f[x] = f[y] => x = y,
         \A y \in T : \E x \in S : f[x] = y
  PROVE  IsFiniteSet(T) /\ Cardinality(T) = Cardinality(S)
<1>1. f \in Bijection(S, T)
  BY Zenon DEF Bijection, Injection, Surjection, IsInjective
<1>2. ExistsBijection(S, T)
  BY <1>1 DEF ExistsBijection
<1>3. QED
  BY <1>2, FS_Bijection

\* Every vertex is a clique.
LEMMA CliquesOfOne ==
  ASSUME NEW nbrs, NEW M, IsFiniteSet(M)
  PROVE  Cardinality(CliquesIn(nbrs, M, 1)) = Cardinality(M)
<1> DEFINE f == [v \in M |-> {v}]
<1>1. \A S \in SUBSET M : Cardinality(S) = 1 <=> \E v : S = {v}
  <2>1. \A S \in SUBSET M : IsFiniteSet(S)
    BY FS_Subset
  <2>2. QED
    BY <2>1, FS_Singleton
<1>2. f \in [M -> CliquesIn(nbrs, M, 1)]
  BY <1>1 DEF CliquesIn, IsClique
<1>3. \A y \in CliquesIn(nbrs, M, 1) : \E x \in M : f[x] = y
  BY <1>1 DEF CliquesIn
<1>4. \A x, y \in M : f[x] = f[y] => x = y
  OBVIOUS
<1>5. QED
  BY <1>2, <1>3, <1>4, SameSize

\* What is left behind a vertex is part of the mask, without that vertex.
LEMMA AfterSmaller ==
  ASSUME NEW nbrs, NEW V, MasksOn(nbrs, V), NEW M \in SUBSET V
  PROVE  /\ IsFiniteSet(M) /\ M \subseteq Nat
         /\ \A v \in M : /\ IsFiniteSet(After(nbrs, M, v)) /\ After(nbrs, M, v) \subseteq M
                         /\ v \notin After(nbrs, M, v)
<1>1. IsFiniteSet(M) /\ M \subseteq Nat
  BY FS_Subset DEF MasksOn
<1>2. \A v \in M : After(nbrs, M, v) \in SUBSET M /\ v \notin After(nbrs, M, v)
  BY <1>1 DEF After
<1>3. QED
  BY <1>1, <1>2, FS_Subset

\* A clique is its least vertex and a clique among the later ones joined to it.
LEMMA CliquesFromLeast ==
  ASSUME NEW nbrs, NEW V, MasksOn(nbrs, V), NEW M \in SUBSET V, NEW t \in Nat
  PROVE  CliquesIn(nbrs, M, t + 1) = Headed([v \in M |-> CliquesIn(nbrs, After(nbrs, M, v), t)])
<1> DEFINE Rest(v) == CliquesIn(nbrs, After(nbrs, M, v), t)
<1>1. /\ IsFiniteSet(M) /\ M \subseteq Nat
      /\ \A v \in M : /\ IsFiniteSet(After(nbrs, M, v)) /\ After(nbrs, M, v) \subseteq M
                      /\ v \notin After(nbrs, M, v)
  BY AfterSmaller
<1>2. ASSUME NEW S \in CliquesIn(nbrs, M, t + 1)
      PROVE  \E v \in M : \E R \in Rest(v) : S = {v} \cup R
  <2>1. IsFiniteSet(S) /\ Cardinality(S) = t + 1 /\ S \subseteq M /\ IsClique(nbrs, S)
    BY <1>1, CliquesFinite DEF CliquesIn
  <2>2. S # {}
    BY <2>1, FS_EmptySet
  <2>3. PICK v \in S : \A x \in S : v <= x
    BY <1>1, <2>1, <2>2, LeastOfNats
  <2>4. Cardinality(S \ {v}) = t
    <3>1. Cardinality(S \ {v}) = Cardinality(S) - 1
      BY <2>1, <2>3, FS_RemoveElement
    <3>2. QED
      BY <2>1, <3>1
  <2>5. S \ {v} \subseteq After(nbrs, M, v)
    BY <1>1, <2>1, <2>3 DEF After, IsClique
  <2>6. S \ {v} \in Rest(v)
    BY <2>1, <2>4, <2>5 DEF CliquesIn, IsClique
  <2>7. S = {v} \cup (S \ {v}) /\ v \in M
    BY <2>1
  <2>8. QED
    BY <2>6, <2>7
<1>3. ASSUME NEW v \in M, NEW R \in Rest(v)
      PROVE  {v} \cup R \in CliquesIn(nbrs, M, t + 1)
  <2>1. IsFiniteSet(R) /\ Cardinality(R) = t /\ IsClique(nbrs, R) /\ R \subseteq After(nbrs, M, v)
    BY <1>1, CliquesFinite DEF CliquesIn
  <2>2. v \notin R /\ R \subseteq M
    BY <1>1, <2>1
  <2>3. Cardinality({v} \cup R) = t + 1
    <3>1. {v} \cup R = R \cup {v}
      OBVIOUS
    <3>2. QED
      BY <2>1, <2>2, <3>1, FS_AddElement
  <2>4. IsClique(nbrs, {v} \cup R)
    <3>1. \A x \in R : x \in nbrs[v] /\ v \in nbrs[x]
      BY <2>1, <2>2 DEF After, MasksOn
    <3>2. QED
      BY <2>1, <3>1 DEF IsClique
  <2>5. QED
    BY <2>2, <2>3, <2>4 DEF CliquesIn
<1> DEFINE rests == [v \in M |-> Rest(v)]
<1>4. \A S : S \in CliquesIn(nbrs, M, t + 1) <=> S \in Headed(rests)
  <2>1. DOMAIN rests = M /\ \A v \in M : rests[v] = Rest(v)
    OBVIOUS
  <2> HIDE DEF rests
  <2>2. \A S : S \in Headed(rests) <=> \E v \in M : \E R \in Rest(v) : S = {v} \cup R
    BY <2>1 DEF Headed
  <2> HIDE DEF Rest
  <2>3. QED
    BY <1>2, <1>3, <2>2
<1>5. QED
  BY <1>4

\* So they can be counted by their least vertex.
LEMMA CliquesByLeast ==
  ASSUME NEW nbrs, NEW V, MasksOn(nbrs, V), NEW M \in SUBSET V, NEW t \in Nat
  PROVE  Cardinality(CliquesIn(nbrs, M, t + 1)) =
           SumFunction([v \in M |-> Cardinality(CliquesIn(nbrs, After(nbrs, M, v), t))])
<1> DEFINE Rest(v) == CliquesIn(nbrs, After(nbrs, M, v), t)
           A == [v \in M |-> {{v} \cup R : R \in Rest(v)}]
<1>1. IsFiniteSet(M) /\ M \subseteq Nat
  BY AfterSmaller
<1>2. \A v \in M : IsFiniteSet(After(nbrs, M, v)) /\ After(nbrs, M, v) \subseteq M
                   /\ v \notin After(nbrs, M, v)
  BY AfterSmaller
<1>3. ASSUME NEW v \in M
      PROVE  IsFiniteSet(A[v]) /\ Cardinality(A[v]) = Cardinality(Rest(v))
  <2> DEFINE f == [R \in Rest(v) |-> {v} \cup R]
  <2>1. IsFiniteSet(Rest(v)) /\ \A R \in Rest(v) : R \subseteq M /\ v \notin R
    BY <1>2, CliquesFinite DEF CliquesIn
  <2>2. f \in [Rest(v) -> A[v]] /\ \A y \in A[v] : \E x \in Rest(v) : f[x] = y
    OBVIOUS
  <2>3. \A x, y \in Rest(v) : f[x] = f[y] => x = y
    <3>1. \A x \in Rest(v) : x = f[x] \ {v}
      BY <2>1
    <3>2. QED
      BY <3>1, Zenon
  <2> HIDE DEF f, A, Rest
  <2>4. QED
    BY <2>1, <2>2, <2>3, SameSize
<1>4. \A u, v \in M : u # v => A[u] \cap A[v] = {}
  <2> SUFFICES ASSUME NEW u \in M, NEW v \in M, u # v,
                      NEW R \in Rest(u), NEW Q \in Rest(v), {u} \cup R = {v} \cup Q
               PROVE  FALSE
    OBVIOUS
  <2>1. u \in Q /\ v \in R
    OBVIOUS
  <2>2. u > v /\ v > u
    BY <2>1 DEF CliquesIn, After
  <2>3. QED
    BY <1>1, <2>2
<1>5. CliquesIn(nbrs, M, t + 1) = UNION {A[v] : v \in M}
  <2> DEFINE rests == [v \in M |-> Rest(v)]
  <2>1. CliquesIn(nbrs, M, t + 1) = Headed(rests)
    BY CliquesFromLeast
  <2>2. DOMAIN rests = M /\ \A v \in M : A[v] = {{v} \cup R : R \in rests[v]}
    OBVIOUS
  <2> HIDE DEF rests, A
  <2>3. QED
    BY <2>1, <2>2 DEF Headed
<1> DEFINE f == [v \in M |-> Cardinality(Rest(v))]
<1>6. f \in [M -> Nat] /\ \A v \in M : f[v] = Cardinality(A[v])
  BY <1>2, <1>3, CliquesFinite
<1>7. \A v \in M : IsFiniteSet(A[v])
  BY <1>3
<1> HIDE DEF A
<1>8. /\ \A u, v \in M : \A e : e \in A[u] /\ e \in A[v] => u = v
      /\ \A v \in M : A[v] \subseteq CliquesIn(nbrs, M, t + 1)
      /\ \A e \in CliquesIn(nbrs, M, t + 1) : \E v \in M : e \in A[v]
  BY <1>4, <1>5
<1> HIDE DEF f
<1>9. Splits(CliquesIn(nbrs, M, t + 1), M, A, f)
  BY <1>1, <1>6, <1>7, <1>8 DEF Splits
<1>10. SumFunction(f) = Cardinality(CliquesIn(nbrs, M, t + 1))
  BY <1>9, SumOfCards
<1>11. QED
  BY <1>10 DEF f

-----------------------------------------------------------------------------
(***************************************************************************)
(* What the counts count                                                   *)
(***************************************************************************)

\* A set of numbers that holds zero and every successor is all of them.
LEMMA NatInductive ==
  ASSUME NEW G \in SUBSET Nat, 0 \in G, \A m \in G : m + 1 \in G
  PROVE  G = Nat
<1> SUFFICES ASSUME G # Nat
             PROVE  FALSE
  OBVIOUS
<1>1. PICK m \in Nat \ G : \A x \in Nat \ G : m <= x
  <2>1. Nat \ G # {} /\ Nat \ G \in SUBSET Nat
    OBVIOUS
  <2>2. QED
    BY <2>1, LeastOfNats
<1>2. m # 0 /\ m - 1 \in Nat
  BY <1>1
<1>3. m - 1 \in G
  BY <1>1, <1>2
<1>4. (m - 1) + 1 \in G
  BY <1>3
<1>5. QED
  BY <1>1, <1>4

\* The mask of the code, with its shift, is what is left behind a vertex.
LEMMA AfterIs ==
  ASSUME NEW nbrs, NEW V, MasksOn(nbrs, V), NEW M \in SUBSET V, NEW v \in V
  PROVE  /\ After(nbrs, M, v) \in SUBSET M
         /\ Later(nbrs, M, v) = After(nbrs, M, v)
         /\ {w \in M : w > v} \cap nbrs[v] = After(nbrs, M, v)
         /\ M = V => Above(nbrs[v], v) = After(nbrs, M, v)
<1>1. nbrs[v] \in SUBSET V /\ v + 1 < WordBits
  BY DEF MasksOn
<1>2. QED
  BY <1>1 DEF After, Later, Above

\* The first of the fast paths: pairs.
LEMMA CountPairs ==
  ASSUME NEW nbrs, NEW V, MasksOn(nbrs, V), NEW M \in SUBSET V
  PROVE  /\ IsFiniteSet(Pairs(nbrs, M))
         /\ Cardinality(Pairs(nbrs, M)) = Cardinality(CliquesIn(nbrs, M, 2))
<1> DEFINE A == [v \in M |-> {v} \X After(nbrs, M, v)]
           f == [v \in M |-> Cardinality(CliquesIn(nbrs, After(nbrs, M, v), 1))]
<1>1. IsFiniteSet(M) /\ \A v \in M : IsFiniteSet(After(nbrs, M, v))
  <2>1. IsFiniteSet(M)
    BY FS_Subset DEF MasksOn
  <2>2. QED
    BY <2>1, AfterIs, FS_Subset
<1>2. ASSUME NEW v \in M
      PROVE  IsFiniteSet(A[v]) /\ Cardinality(A[v]) = Cardinality(CliquesIn(nbrs, After(nbrs, M, v), 1))
  <2> DEFINE T == After(nbrs, M, v)
             g == [w \in T |-> <<v, w>>]
  <2>1. IsFiniteSet(T) /\ Cardinality(CliquesIn(nbrs, T, 1)) = Cardinality(T)
    BY <1>1, CliquesOfOne
  <2>2. g \in [T -> A[v]] /\ \A y \in A[v] : \E x \in T : g[x] = y
    OBVIOUS
  <2>3. \A x, y \in T : g[x] = g[y] => x = y
    OBVIOUS
  <2> HIDE DEF g, A, T
  <2>4. IsFiniteSet(A[v]) /\ Cardinality(A[v]) = Cardinality(T)
    BY <2>1, <2>2, <2>3, SameSize
  <2>5. QED
    BY <2>1, <2>4 DEF T
<1>3. f \in [M -> Nat] /\ \A v \in M : f[v] = Cardinality(A[v])
  <2>1. \A v \in M : Cardinality(CliquesIn(nbrs, After(nbrs, M, v), 1)) \in Nat
    BY <1>1, CliquesFinite
  <2>2. QED
    BY <1>2, <2>1
<1>4. \A v \in M : A[v] \subseteq Pairs(nbrs, M)
  <2>1. \A v \in M : Later(nbrs, M, v) = After(nbrs, M, v) /\ After(nbrs, M, v) \subseteq M
    BY AfterIs
  <2>2. QED
    BY <2>1 DEF Pairs
<1>5. \A e \in Pairs(nbrs, M) : \E v \in M : e \in A[v]
  <2>1. \A v \in M : Later(nbrs, M, v) = After(nbrs, M, v) /\ After(nbrs, M, v) \subseteq M
    BY AfterIs
  <2>2. \A e \in Pairs(nbrs, M) : e[1] \in M /\ e = <<e[1], e[2]>> /\ e[2] \in After(nbrs, M, e[1])
    BY <2>1 DEF Pairs
  <2>3. \A e \in Pairs(nbrs, M) : e \in A[e[1]]
    BY <2>2
  <2>4. QED
    BY <2>2, <2>3
<1>6. \A u, v \in M : \A e : e \in A[u] /\ e \in A[v] => u = v
  OBVIOUS
<1>7. \A v \in M : IsFiniteSet(A[v])
  BY <1>2
<1>8. Cardinality(CliquesIn(nbrs, M, 2)) = SumFunction(f)
  <2>1. 1 \in Nat /\ 1 + 1 = 2
    OBVIOUS
  <2>2. QED
    BY <2>1, CliquesByLeast
<1> HIDE DEF A, f
<1>9. Splits(Pairs(nbrs, M), M, A, f)
  BY <1>1, <1>3, <1>4, <1>5, <1>6, <1>7 DEF Splits
<1>10. QED
  BY <1>8, <1>9, SumOfCards

\* The second: triangles, each a vertex and a pair behind it.
LEMMA CountTriangles ==
  ASSUME NEW nbrs, NEW V, MasksOn(nbrs, V), NEW M \in SUBSET V
  PROVE  Cardinality(Triangles(nbrs, M)) = Cardinality(CliquesIn(nbrs, M, 3))
<1> DEFINE A == [v \in M |-> {<<v, p[1], p[2]>> : p \in Pairs(nbrs, After(nbrs, M, v))}]
           f == [v \in M |-> Cardinality(CliquesIn(nbrs, After(nbrs, M, v), 2))]
<1>1. IsFiniteSet(M) /\ \A v \in M : /\ After(nbrs, M, v) \in SUBSET V
                                     /\ IsFiniteSet(After(nbrs, M, v))
  <2>1. IsFiniteSet(M)
    BY FS_Subset DEF MasksOn
  <2>2. QED
    BY <2>1, AfterIs, FS_Subset
<1>2. ASSUME NEW v \in M
      PROVE  IsFiniteSet(A[v]) /\ Cardinality(A[v]) = Cardinality(CliquesIn(nbrs, After(nbrs, M, v), 2))
  <2> DEFINE T == Pairs(nbrs, After(nbrs, M, v))
             g == [p \in T |-> <<v, p[1], p[2]>>]
  <2>1. IsFiniteSet(T) /\ Cardinality(T) = Cardinality(CliquesIn(nbrs, After(nbrs, M, v), 2))
    BY <1>1, CountPairs
  <2>2. g \in [T -> A[v]] /\ \A y \in A[v] : \E x \in T : g[x] = y
    OBVIOUS
  <2>3. \A x, y \in T : g[x] = g[y] => x = y
    <3>1. \A x \in T : x = <<x[1], x[2]>>
      BY DEF Pairs
    <3>2. QED
      BY <3>1
  <2> HIDE DEF g, A, T
  <2>4. IsFiniteSet(A[v]) /\ Cardinality(A[v]) = Cardinality(T)
    BY <2>1, <2>2, <2>3, SameSize
  <2>5. QED
    BY <2>1, <2>4
<1>3. f \in [M -> Nat] /\ \A v \in M : f[v] = Cardinality(A[v])
  <2>1. \A v \in M : Cardinality(CliquesIn(nbrs, After(nbrs, M, v), 2)) \in Nat
    BY <1>1, CliquesFinite
  <2>2. QED
    BY <1>2, <2>1
<1>0. \A B \in SUBSET V, w \in V : Later(nbrs, B, w) = After(nbrs, B, w) /\ After(nbrs, B, w) \in SUBSET B
  BY AfterIs
<1>4. /\ \A v \in M : A[v] \subseteq Triangles(nbrs, M)
      /\ \A e \in Triangles(nbrs, M) : \E v \in M : e \in A[v]
  <2>1. ASSUME NEW v \in M, NEW p \in Pairs(nbrs, After(nbrs, M, v))
        PROVE  <<v, p[1], p[2]>> \in Triangles(nbrs, M)
    <3>1. Later(nbrs, M, v) = After(nbrs, M, v) /\ After(nbrs, M, v) \subseteq M
      BY AfterIs
    <3>2. /\ p[1] \in After(nbrs, M, v) /\ p[2] \in After(nbrs, M, v)
          /\ p[2] \in Later(nbrs, After(nbrs, M, v), p[1])
      BY DEF Pairs
    <3>3. QED
      BY <3>1, <3>2 DEF Triangles
  <2>2. ASSUME NEW e \in Triangles(nbrs, M)
        PROVE  \E v \in M : e \in A[v]
    <3>1. /\ e[1] \in M /\ e[2] \in M /\ e[3] \in M /\ e = <<e[1], e[2], e[3]>>
          /\ e[2] \in Later(nbrs, M, e[1])
          /\ e[3] \in Later(nbrs, Later(nbrs, M, e[1]), e[2])
      BY DEF Triangles
    <3>2. Later(nbrs, M, e[1]) = After(nbrs, M, e[1]) /\ After(nbrs, M, e[1]) \in SUBSET V
      BY <1>1, <3>1, AfterIs
    <3> DEFINE T == After(nbrs, M, e[1])
               p == <<e[2], e[3]>>
    <3>3. e[2] \in T /\ e[3] \in Later(nbrs, T, e[2]) /\ T \in SUBSET V
      BY <3>1, <3>2
    <3> HIDE DEF T
    <3>4. Later(nbrs, T, e[2]) = After(nbrs, T, e[2]) /\ After(nbrs, T, e[2]) \subseteq T
      <4>1. e[2] \in V /\ T \in SUBSET V
        BY <3>1, <3>3
      <4>2. QED
        BY <1>0, <4>1
    <3>5. p \in Pairs(nbrs, T)
      BY <3>3, <3>4 DEF Pairs
    <3>6. e = <<e[1], p[1], p[2]>>
      BY <3>1
    <3> HIDE DEF p
    <3>7. QED
      BY <3>1, <3>5, <3>6 DEF T
  <2>3. QED
    BY <2>1, <2>2
<1>5. \A u, v \in M : \A e : e \in A[u] /\ e \in A[v] => u = v
  OBVIOUS
<1>6. \A v \in M : IsFiniteSet(A[v])
  BY <1>2
<1>7. Cardinality(CliquesIn(nbrs, M, 3)) = SumFunction(f)
  <2>1. 2 \in Nat /\ 2 + 1 = 3
    OBVIOUS
  <2>2. QED
    BY <2>1, CliquesByLeast
<1> HIDE DEF A, f
<1>8. Splits(Triangles(nbrs, M), M, A, f)
  BY <1>1, <1>3, <1>4, <1>5, <1>6 DEF Splits
<1>9. QED
  BY <1>7, <1>8, SumOfCards

\* What the counts of cliques of a size should be.
Exact(nbrs, V, t) == [mask \in SUBSET V |-> Cardinality(CliquesIn(nbrs, mask, t))]

\* One unfolding of the recursion counts the cliques, given those of size t - 1.
LEMMA CountsStep ==
  ASSUME NEW nbrs, NEW V, MasksOn(nbrs, V), NEW t \in Nat, NEW smaller,
         t > 3 => smaller = Exact(nbrs, V, t - 1)
  PROVE  CountsOf(nbrs, t, smaller) = Exact(nbrs, V, t)
<1> DEFINE u == CountsOf(nbrs, t, smaller)
<1>1. DOMAIN nbrs = V
  BY DEF MasksOn
<1>2. ASSUME NEW mask \in SUBSET V
      PROVE  u[mask] = Cardinality(CliquesIn(nbrs, mask, t))
  <2>1. IsFiniteSet(mask)
    BY FS_Subset DEF MasksOn
  <2>2. CASE t = 0
    BY <1>1, <2>1, <2>2, CliquesOfNone DEF CountsOf
  <2>3. CASE t = 1
    BY <1>1, <2>1, <2>3, CliquesOfOne DEF CountsOf
  <2>4. CASE t = 2
    BY <1>1, <2>4, CountPairs DEF CountsOf
  <2>5. CASE t = 3
    BY <1>1, <2>5, CountTriangles DEF CountsOf
  <2>6. CASE t > 3
    <3>1. t - 1 \in Nat /\ (t - 1) + 1 = t
      BY <2>6
    <3> DEFINE f == [v \in mask |-> smaller[{w \in mask : w > v} \cap nbrs[v]]]
               g == [v \in mask |-> Cardinality(CliquesIn(nbrs, After(nbrs, mask, v), t - 1))]
    <3>2. u[mask] = SumFunction(f)
      BY <1>1, <2>6 DEF CountsOf
    <3>3. ASSUME NEW v \in mask
          PROVE  f[v] = g[v]
      <4>1. /\ {w \in mask : w > v} \cap nbrs[v] = After(nbrs, mask, v)
            /\ After(nbrs, mask, v) \in SUBSET V
        BY AfterIs
      <4>2. QED
        BY <2>6, <4>1 DEF Exact
    <3>4. f = g
      BY <3>3
    <3> HIDE DEF f
    <3>5. Cardinality(CliquesIn(nbrs, mask, (t - 1) + 1)) = SumFunction(g)
      BY <3>1, CliquesByLeast
    <3>6. QED
      BY <3>1, <3>2, <3>4, <3>5
  <2>7. QED
    BY <2>2, <2>3, <2>4, <2>5, <2>6
<1>3. u = [mask \in SUBSET V |-> u[mask]]
  BY <1>1 DEF CountsOf
<1> HIDE DEF u
<1>4. u = [mask \in SUBSET V |-> Cardinality(CliquesIn(nbrs, mask, t))]
  BY <1>2, <1>3
<1>5. QED
  BY <1>4 DEF u, Exact

(***************************************************************************)
(* count_cliques_in_mask counts the cliques of a size in a mask, fast      *)
(* paths, shifts and recursion included.                                   *)
(***************************************************************************)
THEOREM CountInMaskExact ==
  ASSUME NEW nbrs, NEW V, MasksOn(nbrs, V), NEW M \in SUBSET V, NEW size \in Nat
  PROVE  CountCliquesInMask(nbrs, M, size) = Cardinality(CliquesIn(nbrs, M, size))
<1> DEFINE g == [t \in 0..size |-> Exact(nbrs, V, t)]
           Unfolded(c) == [t \in 0..size |-> CountsOf(nbrs, t, c[t - 1])]
           count == CHOOSE c : c = Unfolded(c)
<1>1. CountCliquesInMask(nbrs, M, size) = count[size][M]
  BY DEF CountCliquesInMask
<1>2. ASSUME NEW t \in 0..size
      PROVE  CountsOf(nbrs, t, g[t - 1]) = Exact(nbrs, V, t)
  <2>1. t \in Nat /\ (t > 3 => g[t - 1] = Exact(nbrs, V, t - 1))
    OBVIOUS
  <2> HIDE DEF g
  <2>2. QED
    BY <2>1, CountsStep, ZenonT(30)
<1>3. g = Unfolded(g)
  BY <1>2
<1> HIDE DEF g
<1>4. count = Unfolded(count)
  <2> HIDE DEF Unfolded
  <2>1. QED
    BY <1>3, Zenon
<1> HIDE DEF count
<1>5. \A t \in 0..size : count[t] = CountsOf(nbrs, t, count[t - 1])
  BY <1>4
<1> DEFINE G == {t \in Nat : t <= size => count[t] = Exact(nbrs, V, t)}
<1>6. 0 \in G
  <2>1. 0 \in 0..size /\ 0 \in Nat
    OBVIOUS
  <2>2. CountsOf(nbrs, 0, count[0 - 1]) = Exact(nbrs, V, 0)
    <3>1. ~(0 > 3)
      OBVIOUS
    <3>2. QED
      BY <2>1, <3>1, CountsStep, ZenonT(30)
  <2>3. QED
    BY <1>5, <2>1, <2>2
<1>7. ASSUME NEW t \in G
      PROVE  t + 1 \in G
  <2> SUFFICES ASSUME t + 1 <= size
               PROVE  count[t + 1] = Exact(nbrs, V, t + 1)
    OBVIOUS
  <2>1. t \in Nat /\ t + 1 \in 0..size /\ (t + 1) - 1 = t /\ count[t] = Exact(nbrs, V, t)
    OBVIOUS
  <2>2. t + 1 \in Nat /\ count[t] = Exact(nbrs, V, (t + 1) - 1)
    BY <2>1
  <2>3. CountsOf(nbrs, t + 1, count[t]) = Exact(nbrs, V, t + 1)
    BY <2>2, CountsStep, ZenonT(30)
  <2>4. QED
    BY <1>5, <2>1, <2>3
<1>8. G = Nat
  <2>1. G \in SUBSET Nat
    OBVIOUS
  <2> HIDE DEF G
  <2>2. QED
    BY <1>6, <1>7, <2>1, NatInductive
<1>9. count[size] = Exact(nbrs, V, size)
  BY <1>8
<1>10. QED
  BY <1>1, <1>9 DEF Exact

(***************************************************************************)
(* count_cliques counts the cliques of a graph.                            *)
(***************************************************************************)
THEOREM CountExact ==
  ASSUME NEW nbrs, NEW V, MasksOn(nbrs, V), NEW k \in Nat
  PROVE  CountCliques(nbrs, k) = Cardinality(CliquesIn(nbrs, V, k))
<1>1. DOMAIN nbrs = V /\ IsFiniteSet(V) /\ V \in SUBSET V
  BY DEF MasksOn
<1>2. CASE k = 0
  BY <1>1, <1>2, CliquesOfNone DEF CountCliques
<1>3. CASE k = 1
  BY <1>1, <1>3, CliquesOfOne DEF CountCliques
<1>4. \A v \in V : /\ Above(nbrs[v], v) = After(nbrs, V, v)
                  /\ After(nbrs, V, v) \in SUBSET V /\ IsFiniteSet(After(nbrs, V, v))
  <2>1. \A v \in V : /\ Above(nbrs[v], v) = After(nbrs, V, v)
                    /\ After(nbrs, V, v) \in SUBSET V
    BY <1>1, AfterIs
  <2>2. QED
    BY <1>1, <2>1, FS_Subset
<1>5. CASE k = 2
  <2> DEFINE f == [v \in V |-> Cardinality(Above(nbrs[v], v))]
             g == [v \in V |-> Cardinality(CliquesIn(nbrs, After(nbrs, V, v), 1))]
  <2>1. \A v \in V : f[v] = g[v]
    BY <1>4, CliquesOfOne
  <2>2. f = g
    BY <2>1
  <2>3. CountCliques(nbrs, k) = SumFunction(f)
    BY <1>1, <1>5 DEF CountCliques
  <2> HIDE DEF f
  <2>4. Cardinality(CliquesIn(nbrs, V, 1 + 1)) = SumFunction(g)
    BY <1>1, CliquesByLeast
  <2>5. k = 1 + 1
    BY <1>5
  <2>6. QED
    BY <2>2, <2>3, <2>4, <2>5
<1>6. CASE k \notin 0..2
  <2> DEFINE f == [v \in V |-> CountCliquesInMask(nbrs, Above(nbrs[v], v), k - 1)]
             g == [v \in V |-> Cardinality(CliquesIn(nbrs, After(nbrs, V, v), k - 1))]
  <2>1. k - 1 \in Nat /\ (k - 1) + 1 = k
    BY <1>6
  <2>2. \A v \in V : f[v] = g[v]
    BY <1>4, <2>1, CountInMaskExact
  <2>3. f = g
    BY <2>2
  <2>4. CountCliques(nbrs, k) = SumFunction(f)
    BY <1>1, <1>6 DEF CountCliques
  <2> HIDE DEF f
  <2>5. Cardinality(CliquesIn(nbrs, V, (k - 1) + 1)) = SumFunction(g)
    BY <1>1, <2>1, CliquesByLeast
  <2>6. QED
    BY <2>1, <2>3, <2>4, <2>5
<1>7. QED
  BY <1>2, <1>3, <1>5, <1>6

-----------------------------------------------------------------------------
(***************************************************************************)
(* Every slot has a bit of its own                                         *)
(***************************************************************************)

\* The triangle numbers are whole.
LEMMA Halves == \A i \in Nat : 2 * ((i * (i + 1)) \div 2) = i * (i + 1)
<1> SUFFICES ASSUME NEW i \in Nat
             PROVE  2 * ((i * (i + 1)) \div 2) = i * (i + 1)
  OBVIOUS
<1>1. \A q \in Int : (2 * q) \div 2 = q
  OBVIOUS
<1>2. PICK q \in Nat : i = 2 * q \/ i = 2 * q + 1
  <2>1. i = 2 * (i \div 2) \/ i = 2 * (i \div 2) + 1
    OBVIOUS
  <2>2. i \div 2 \in Nat
    OBVIOUS
  <2>3. QED
    BY <2>1, <2>2
<1>3. CASE i = 2 * q
  <2>1. i * (i + 1) = 2 * (q * (i + 1)) /\ q * (i + 1) \in Int
    BY <1>3
  <2>2. QED
    BY <1>1, <2>1
<1>4. CASE i = 2 * q + 1
  <2>1. i * (i + 1) = 2 * ((q + 1) * i) /\ (q + 1) * i \in Int
    BY <1>4
  <2>2. QED
    BY <1>1, <2>1
<1>5. QED
  BY <1>2, <1>3, <1>4

\* No two slots share a bit of the packed triangle.
LEMMA BitsApart ==
  ASSUME NEW m \in Nat, NEW p \in Slots(m), NEW q \in Slots(m),
         BitIndex(m, p[1], p[2]) = BitIndex(m, q[1], q[2])
  PROVE  p = q
<1> DEFINE i == p[1]
           j == p[2]
           a == q[1]
           b == q[2]
           Twice(x, y) == 2 * x * m - x * (x + 1) + 2 * (y - x - 1)
<1>1. /\ i \in Nat /\ j \in Nat /\ i < j /\ j < m /\ p = <<i, j>>
      /\ a \in Nat /\ b \in Nat /\ a < b /\ b < m /\ q = <<a, b>>
  BY DEF Slots, Vertices
<1> HIDE DEF i, j, a, b
<1>2. \A x, y \in Nat : 2 * BitIndex(m, x, y) = Twice(x, y)
  <2> SUFFICES ASSUME NEW x \in Nat, NEW y \in Nat
               PROVE  2 * BitIndex(m, x, y) = Twice(x, y)
    OBVIOUS
  <2>1. 2 * ((x * (x + 1)) \div 2) = x * (x + 1) /\ (x * (x + 1)) \div 2 \in Int
    BY Halves
  <2>2. QED
    BY <2>1 DEF BitIndex
<1>3. Twice(i, j) = Twice(a, b)
  BY <1>1, <1>2 DEF i, j, a, b
<1>4. ASSUME NEW x \in Nat, NEW y \in Nat, NEW z \in Nat, NEW w \in Nat,
             x < y, y < m, z < w, w < m, x < z
      PROVE  Twice(x, y) < Twice(z, w)
  <2> DEFINE d == z - x - 1
             e == 2 * m - z - x - 2
  <2>1. d \in Nat /\ e \in Nat
    BY <1>4
  <2>2. d * e >= 0
    BY <2>1
  <2>3. Twice(z, w) - Twice(x, y) = d * e + 2 * (m - 1 - y) + 2 * (w - z - 1) + 2
    OBVIOUS
  <2>4. QED
    BY <1>4, <2>2, <2>3
<1>5. ~(i < a) /\ ~(a < i)
  BY <1>1, <1>3, <1>4
<1>6. i = a
  BY <1>1, <1>5
<1>7. j = b
  BY <1>1, <1>3, <1>6
<1>8. QED
  BY <1>1, <1>6, <1>7

-----------------------------------------------------------------------------
(***************************************************************************)
(* Masks of a graph and of its complement                                  *)
(***************************************************************************)

\* The graph whose edges are the slots in E.
Packing(m, E) == [n |-> m, bits |-> {BitIndex(m, p[1], p[2]) : p \in E}]

\* The masks of the complement.
Others(nbrs, V) == [v \in V |-> (V \ nbrs[v]) \ {v}]

\* A slot's bit is set in a packed graph just when the slot was packed.
LEMMA PackingHolds ==
  ASSUME NEW m \in Nat, NEW E \in SUBSET Slots(m), NEW p \in Slots(m)
  PROVE  BitIndex(m, p[1], p[2]) \in Packing(m, E).bits <=> p \in E
BY BitsApart DEF Packing

\* Which pairs are edges of a packed graph.
LEMMA PackedEdges ==
  ASSUME NEW m \in Nat, NEW E \in SUBSET Slots(m), NEW i \in Vertices(m), NEW j \in Vertices(m)
  PROVE  Edge(Packing(m, E), i, j) <=> (<<i, j>> \in E \/ <<j, i>> \in E)
<1>1. CASE i = j
  <2>1. <<i, j>> \notin Slots(m) /\ <<j, i>> \notin Slots(m)
    BY <1>1 DEF Slots, Vertices
  <2>2. QED
    BY <1>1, <2>1 DEF Edge
<1>2. CASE i < j
  <2>1. <<i, j>> \in Slots(m) /\ <<j, i>> \notin Slots(m)
    BY <1>2 DEF Slots, Vertices
  <2>2. Bit(Packing(m, E), i, j) = BitIndex(m, i, j) /\ i # j
    BY <1>2 DEF Bit, Packing, Vertices
  <2>3. BitIndex(m, i, j) \in Packing(m, E).bits <=> <<i, j>> \in E
    BY <2>1, PackingHolds
  <2>4. QED
    BY <2>1, <2>2, <2>3 DEF Edge
<1>3. CASE j < i
  <2>1. <<j, i>> \in Slots(m) /\ <<i, j>> \notin Slots(m)
    BY <1>3 DEF Slots, Vertices
  <2>2. Bit(Packing(m, E), i, j) = BitIndex(m, j, i) /\ i # j
    BY <1>3 DEF Bit, Packing, Vertices
  <2>3. BitIndex(m, j, i) \in Packing(m, E).bits <=> <<j, i>> \in E
    BY <2>1, PackingHolds
  <2>4. QED
    BY <2>1, <2>2, <2>3 DEF Edge
<1>4. QED
  BY <1>1, <1>2, <1>3 DEF Vertices

\* Edges have no direction, and no vertex is joined to itself.
LEMMA EdgeSymmetric ==
  ASSUME NEW g, NEW i \in Vertices(g.n), NEW j \in Vertices(g.n)
  PROVE  (Edge(g, i, j) <=> Edge(g, j, i)) /\ ~Edge(g, i, i)
BY DEF Edge, Bit, Vertices

\* A graph of a size that the masks hold has masks like these.
LEMMA FromAdjMasks ==
  ASSUME NEW m \in Nat, m < WordBits, NEW g, g.n = m
  PROVE  /\ MasksOn(FromAdj(g), Vertices(m))
         /\ \A u, v \in Vertices(m) : u \in FromAdj(g)[v] <=> Edge(g, v, u)
<1> DEFINE V == Vertices(m)
<1>1. IsFiniteSet(V) /\ V \subseteq Nat
  BY FS_Interval DEF Vertices
<1>2. \A u, v \in V : u \in FromAdj(g)[v] <=> Edge(g, v, u)
  BY DEF FromAdj, Neighbors
<1>3. FromAdj(g) \in [V -> SUBSET V]
  BY DEF FromAdj, Neighbors
<1>4. \A u, v \in V : u \in FromAdj(g)[v] <=> v \in FromAdj(g)[u]
  BY <1>2, EdgeSymmetric
<1>5. \A v \in V : v \notin FromAdj(g)[v] /\ v + 1 < WordBits
  <2>1. \A v \in V : v \notin FromAdj(g)[v]
    BY <1>2, EdgeSymmetric
  <2>2. \A v \in V : v + 1 < WordBits
    BY WordAssumption DEF Vertices
  <2>3. QED
    BY <2>1, <2>2
<1>6. QED
  BY <1>1, <1>2, <1>3, <1>4, <1>5 DEF MasksOn

\* The graph of some masks, as the code writes it down.
MaskGraph(m, nbrs) == GraphWith(m, LAMBDA i, j : HasEdge(nbrs, i, j))

\* Its masks, and those of its complement.
LEMMA MasksBack ==
  ASSUME NEW m \in Nat, m < WordBits, NEW nbrs, MasksOn(nbrs, Vertices(m)),
         NEW g, g = MaskGraph(m, nbrs)
  PROVE  /\ g.n = m /\ FromAdj(g) = nbrs
         /\ Complement(g).n = m /\ FromAdj(Complement(g)) = Others(nbrs, Vertices(m))
<1> DEFINE V == Vertices(m)
           E == {q \in Slots(m) : HasEdge(nbrs, q[1], q[2])}
           F == {q \in Slots(m) : ~Edge(g, q[1], q[2])}
<1>1. g = Packing(m, E) /\ g.n = m
  BY DEF MaskGraph, GraphWith, Packing
<1>2. Complement(g) = Packing(m, F) /\ Complement(g).n = m
  BY <1>1 DEF Complement, GraphWith, Packing
<1>3. E \in SUBSET Slots(m) /\ F \in SUBSET Slots(m)
  OBVIOUS
<1>30. /\ \A i, j \in V : <<i, j>> \in E <=> i < j /\ j \in nbrs[i]
       /\ \A i, j \in V : <<i, j>> \in F <=> i < j /\ ~Edge(g, i, j)
       /\ \A i, j \in V : (i \in nbrs[j] <=> j \in nbrs[i]) /\ i \notin nbrs[i] /\ i \in Nat
  <2>1. \A i, j \in V : <<i, j>> \in Slots(m) <=> i < j
    BY DEF Slots
  <2>2. \A i, j \in V : <<i, j>> \in E <=> i < j /\ j \in nbrs[i]
    BY <2>1 DEF HasEdge
  <2>3. \A i, j \in V : <<i, j>> \in F <=> i < j /\ ~Edge(g, i, j)
    BY <2>1
  <2>4. \A i, j \in V : (i \in nbrs[j] <=> j \in nbrs[i]) /\ i \notin nbrs[i] /\ i \in Nat
    BY DEF MasksOn
  <2>5. QED
    BY <2>2, <2>3, <2>4
<1> HIDE DEF E, F
<1>4. \A i, j \in V : Edge(g, i, j) <=> j \in nbrs[i]
  <2> SUFFICES ASSUME NEW i \in V, NEW j \in V
               PROVE  Edge(g, i, j) <=> j \in nbrs[i]
    OBVIOUS
  <2>1. Edge(g, i, j) <=> (<<i, j>> \in E \/ <<j, i>> \in E)
    BY <1>1, <1>3, PackedEdges
  <2>2. /\ i \in Nat /\ j \in Nat /\ (i \in nbrs[j] <=> j \in nbrs[i]) /\ (i = j => j \notin nbrs[i])
        /\ <<i, j>> \in E <=> i < j /\ j \in nbrs[i]
        /\ <<j, i>> \in E <=> j < i /\ i \in nbrs[j]
    BY <1>30
  <2>3. i < j \/ i = j \/ j < i
    BY <2>2
  <2>4. QED
    BY <2>1, <2>2, <2>3
<1>5. \A i, j \in V : Edge(Complement(g), i, j) <=> i # j /\ j \notin nbrs[i]
  <2> SUFFICES ASSUME NEW i \in V, NEW j \in V
               PROVE  Edge(Complement(g), i, j) <=> i # j /\ j \notin nbrs[i]
    OBVIOUS
  <2>1. Edge(Complement(g), i, j) <=> (<<i, j>> \in F \/ <<j, i>> \in F)
    BY <1>2, <1>3, PackedEdges
  <2>2. /\ i \in Nat /\ j \in Nat /\ (i \in nbrs[j] <=> j \in nbrs[i]) /\ (i = j => j \notin nbrs[i])
        /\ <<i, j>> \in F <=> i < j /\ j \notin nbrs[i]
        /\ <<j, i>> \in F <=> j < i /\ i \notin nbrs[j]
    BY <1>30, <1>4
  <2>3. (i < j \/ i = j \/ j < i) /\ ~(i < i)
    BY <2>2
  <2>4. QED
    BY <2>1, <2>2, <2>3
<1>6. FromAdj(g) = nbrs
  <2>1. nbrs \in [V -> SUBSET V]
    BY DEF MasksOn
  <2>2. FromAdj(g) = [v \in V |-> {u \in V : Edge(g, v, u)}]
    BY <1>1 DEF FromAdj, Neighbors
  <2>3. \A v \in V : {u \in V : Edge(g, v, u)} = nbrs[v]
    BY <1>4, <2>1
  <2>4. QED
    BY <2>1, <2>2, <2>3
<1>7. FromAdj(Complement(g)) = Others(nbrs, V)
  <2>1. nbrs \in [V -> SUBSET V]
    BY DEF MasksOn
  <2>2. FromAdj(Complement(g)) = [v \in V |-> {u \in V : Edge(Complement(g), v, u)}]
    BY <1>2 DEF FromAdj, Neighbors
  <2>3. \A v \in V : {u \in V : Edge(Complement(g), v, u)} = (V \ nbrs[v]) \ {v}
    BY <1>5, <2>1
  <2>4. QED
    BY <2>1, <2>2, <2>3 DEF Others
<1>8. QED
  BY <1>1, <1>2, <1>6, <1>7

\* The masks of a complement are masks like any others.
LEMMA OthersMasks ==
  ASSUME NEW nbrs, NEW V, MasksOn(nbrs, V)
  PROVE  MasksOn(Others(nbrs, V), V)
BY DEF MasksOn, Others

\* Any two masks of a graph and of its complement.
LEMMA MasksOfBoth ==
  ASSUME NEW m \in Nat, m < WordBits, NEW g, g.n = m
  PROVE  MasksOn(FromAdj(g), Vertices(m)) /\ FromAdj(Complement(g)) = Others(FromAdj(g), Vertices(m))
<1> DEFINE nbrs == FromAdj(g)
           h == MaskGraph(m, nbrs)
<1>1. MasksOn(nbrs, Vertices(m)) /\ \A u, v \in Vertices(m) : u \in nbrs[v] <=> Edge(g, v, u)
  BY FromAdjMasks
<1>2. FromAdj(Complement(h)) = Others(nbrs, Vertices(m)) /\ h.n = m
  BY <1>1, MasksBack
<1>3. Complement(g) = Complement(h)
  <2>1. {q \in Slots(m) : ~Edge(g, q[1], q[2])} = {q \in Slots(m) : ~Edge(h, q[1], q[2])}
    <3>1. \A v, u \in Vertices(m) : Edge(g, v, u) <=> Edge(h, v, u)
      <4>1. FromAdj(h) = nbrs
        BY <1>1, MasksBack
      <4>2. \A v, u \in Vertices(m) : u \in FromAdj(h)[v] <=> Edge(h, v, u)
        BY <1>2, FromAdjMasks
      <4>3. QED
        BY <1>1, <4>1, <4>2
    <3>2. QED
      BY <3>1 DEF Slots
  <2>2. \A x : x.n = m => Complement(x) = Packing(m, {q \in Slots(m) : ~Edge(x, q[1], q[2])})
    BY DEF Complement, GraphWith, Packing
  <2>3. QED
    BY <1>2, <2>1, <2>2
<1>4. QED
  BY <1>1, <1>2, <1>3

\* The vertices of a graph as a range of numbers.
LEMMA VerticesAre ==
  ASSUME NEW m \in Nat
  PROVE  IsFiniteSet(Vertices(m)) /\ Cardinality(Vertices(m)) = m
BY FS_Interval DEF Vertices

\* Saturation at zero leaves a count that is none below it.
LEMMA MaxWithNone == \A x \in Int : x >= 0 => Max({0, x}) = x
<1> SUFFICES ASSUME NEW x \in Int, x >= 0
             PROVE  Max({0, x}) = x
  OBVIOUS
<1>1. x \in {0, x} /\ \A y \in {0, x} : x >= y
  OBVIOUS
<1>2. \A z \in {0, x} : (\A y \in {0, x} : z >= y) => z = x
  OBVIOUS
<1>3. QED
  BY <1>1, <1>2 DEF Max

-----------------------------------------------------------------------------
(***************************************************************************)
(* What a flip changes                                                     *)
(***************************************************************************)

\* A flip changes the two bits of its pair.
LEMMA FlipBits ==
  ASSUME NEW V, NEW nbrs \in [V -> SUBSET V], NEW u \in V, NEW v \in V, u # v
  PROVE  /\ FlipEdge(nbrs, u, v) \in [V -> SUBSET V]
         /\ \A x, y \in V : y \in FlipEdge(nbrs, u, v)[x] <=>
              IF (x = u /\ y = v) \/ (x = v /\ y = u) THEN y \notin nbrs[x] ELSE y \in nbrs[x]
<1> DEFINE f == FlipEdge(nbrs, u, v)
           atU == SymDiff(nbrs[u], {v})
           atV == SymDiff(nbrs[v], {u})
<1>1. \A y \in V : /\ y \in atU <=> IF y = v THEN y \notin nbrs[u] ELSE y \in nbrs[u]
                   /\ y \in atV <=> IF y = u THEN y \notin nbrs[v] ELSE y \in nbrs[v]
  BY DEF SymDiff
<1>2. atU \in SUBSET V /\ atV \in SUBSET V
  BY DEF SymDiff
<1> HIDE DEF atU, atV
<1>3. f = [nbrs EXCEPT ![u] = atU, ![v] = atV]
  BY Zenon DEF FlipEdge, atU, atV
<1> HIDE DEF f
<1>4. f \in [V -> SUBSET V] /\ f[u] = atU /\ f[v] = atV /\ \A x \in V \ {u, v} : f[x] = nbrs[x]
  BY <1>2, <1>3
<1>5. ASSUME NEW x \in V, NEW y \in V
      PROVE  y \in f[x] <=>
               IF (x = u /\ y = v) \/ (x = v /\ y = u) THEN y \notin nbrs[x] ELSE y \in nbrs[x]
  BY <1>1, <1>4
<1>6. QED
  BY <1>4, <1>5 DEF f

\* A flipped graph has the masks of a graph, and its complement is the flipped complement.
LEMMA FlipIs ==
  ASSUME NEW nbrs, NEW V, MasksOn(nbrs, V), NEW u \in V, NEW v \in V, u # v
  PROVE  /\ MasksOn(FlipEdge(nbrs, u, v), V)
         /\ \A x, y \in V : y \in FlipEdge(nbrs, u, v)[x] <=>
              IF (x = u /\ y = v) \/ (x = v /\ y = u) THEN y \notin nbrs[x] ELSE y \in nbrs[x]
         /\ Others(FlipEdge(nbrs, u, v), V) = FlipEdge(Others(nbrs, V), u, v)
<1> DEFINE f == FlipEdge(nbrs, u, v)
           o == Others(nbrs, V)
           h == FlipEdge(o, u, v)
<1>1. nbrs \in [V -> SUBSET V] /\ o \in [V -> SUBSET V]
  BY DEF MasksOn, Others
<1>2. /\ f \in [V -> SUBSET V]
      /\ \A x, y \in V : y \in f[x] <=>
           IF (x = u /\ y = v) \/ (x = v /\ y = u) THEN y \notin nbrs[x] ELSE y \in nbrs[x]
  BY <1>1, FlipBits
<1>3. /\ h \in [V -> SUBSET V]
      /\ \A x, y \in V : y \in h[x] <=>
           IF (x = u /\ y = v) \/ (x = v /\ y = u) THEN y \notin o[x] ELSE y \in o[x]
  <2> HIDE DEF o
  <2>1. QED
    BY <1>1, FlipBits
<1>4. \A x, y \in V : (x \in nbrs[y] <=> y \in nbrs[x]) /\ x \notin nbrs[x]
  BY DEF MasksOn
<1> HIDE DEF f, h
<1>5. \A x, y \in V : (x \in f[y] <=> y \in f[x]) /\ x \notin f[x]
  BY <1>2, <1>4
<1>6. MasksOn(f, V)
  BY <1>2, <1>5 DEF MasksOn
<1>7. \A x, y \in V : y \in o[x] <=> y \notin nbrs[x] /\ y # x
  BY DEF Others
<1>8. Others(f, V) \in [V -> SUBSET V] /\ \A x, y \in V : y \in Others(f, V)[x] <=> y \notin f[x] /\ y # x
  BY DEF Others
<1> HIDE DEF o
<1>9. \A x, y \in V : y \in Others(f, V)[x] <=> y \in h[x]
  BY <1>2, <1>3, <1>7, <1>8
<1>10. \A x \in V : Others(f, V)[x] = h[x]
  BY <1>3, <1>8, <1>9
<1>11. Others(f, V) = h
  BY <1>3, <1>8, <1>10
<1>12. QED
  BY <1>2, <1>6, <1>11 DEF f, h, o

\* The sets of a size that the edge u, v makes, or would make, a clique.
Through(nbrs, V, k, u, v) ==
  {S \in SUBSET V :
     /\ Cardinality(S) = k /\ u \in S /\ v \in S
     /\ \A x, y \in S : x # y => y \in nbrs[x] \/ {x, y} = {u, v}}

\* count_cliques_through_edge_assuming counts the cliques on u and v, were they joined.
LEMMA CountThrough ==
  ASSUME NEW nbrs, NEW V, MasksOn(nbrs, V), NEW k \in Nat, NEW u \in V, NEW v \in V, u # v
  PROVE  /\ CountJoined(nbrs, k, u, v) = Cardinality(Through(nbrs, V, k, u, v))
         /\ IsFiniteSet(Through(nbrs, V, k, u, v))
         /\ Cardinality(Through(nbrs, V, k, u, v)) \in Nat
<1> DEFINE common == (nbrs[u] \cap nbrs[v]) \ {u, v}
           T == Through(nbrs, V, k, u, v)
<1>1. IsFiniteSet(V) /\ nbrs \in [V -> SUBSET V] /\ common \in SUBSET V
  BY DEF MasksOn
<1>2. \A S \in SUBSET V : IsFiniteSet(S)
  BY <1>1, FS_Subset
<1>3. IsFiniteSet(T) /\ Cardinality(T) \in Nat
  <2>1. IsFiniteSet(SUBSET V) /\ T \subseteq SUBSET V
    BY <1>1, FS_SUBSET DEF Through
  <2>2. QED
    BY <2>1, FS_Subset, FS_CardinalityType
<1>5. IsFiniteSet({u, v}) /\ Cardinality({u, v}) = 2
  BY PairSize
<1>6. CASE k < 2
  <2>1. ASSUME NEW S \in T
        PROVE  FALSE
    <3>1. {u, v} \subseteq S /\ IsFiniteSet(S) /\ Cardinality(S) = k
      BY <1>2 DEF Through
    <3>2. Cardinality({u, v}) <= Cardinality(S)
      BY <3>1, FS_Subset
    <3>3. QED
      BY <1>5, <1>6, <3>1, <3>2
  <2>2. T = {}
    BY <2>1
  <2>3. Cardinality(T) = 0
    BY <2>2, FS_EmptySet
  <2>4. CountJoined(nbrs, k, u, v) = 0
    BY <1>6 DEF CountJoined
  <2>5. QED
    BY <1>3, <2>3, <2>4
<1>7. CASE k >= 2
  <2> DEFINE C == CliquesIn(nbrs, common, k - 2)
             f == [R \in C |-> R \cup {u, v}]
  <2>1. k - 2 \in Nat
    BY <1>7
  <2>2. IsFiniteSet(C) /\ \A R \in C : R \subseteq common /\ IsFiniteSet(R)
    <3>1. IsFiniteSet(common)
      BY <1>1, <1>2
    <3>2. \A R \in C : R \subseteq common
      BY DEF CliquesIn
    <3>3. QED
      BY <3>1, <3>2, CliquesFinite
  <2>3. ASSUME NEW R \in C
        PROVE  R \cup {u, v} \in T
    <3>1. IsFiniteSet(R) /\ R \subseteq common /\ Cardinality(R) = k - 2 /\ IsClique(nbrs, R)
      BY <2>2 DEF CliquesIn
    <3>2. Cardinality(R \cup {u, v}) = k
      <4>1. R \cap {u, v} = {}
        BY <3>1
      <4>2. Cardinality(R \cup {u, v}) = Cardinality(R) + Cardinality({u, v}) - Cardinality(R \cap {u, v})
        BY <1>5, <3>1, FS_Union
      <4>3. Cardinality(R \cap {u, v}) = 0
        BY <4>1, FS_EmptySet
      <4>4. QED
        BY <1>5, <2>1, <3>1, <4>2, <4>3
    <3>3. \A x \in R : x \in nbrs[u] /\ x \in nbrs[v] /\ u \in nbrs[x] /\ v \in nbrs[x] /\ x \in V
      BY <1>1, <3>1 DEF MasksOn
    <3>4. \A x, y \in R \cup {u, v} : x # y => y \in nbrs[x] \/ {x, y} = {u, v}
      BY <3>1, <3>3 DEF IsClique
    <3>5. R \cup {u, v} \in SUBSET V
      BY <3>3
    <3>6. QED
      BY <3>2, <3>4, <3>5 DEF Through
  <2>4. ASSUME NEW S \in T
        PROVE  S \ {u, v} \in C /\ S = (S \ {u, v}) \cup {u, v}
    <3>1. /\ S \in SUBSET V /\ IsFiniteSet(S) /\ Cardinality(S) = k /\ u \in S /\ v \in S
          /\ \A x, y \in S : x # y => y \in nbrs[x] \/ {x, y} = {u, v}
      BY <1>2 DEF Through
    <3> DEFINE R == S \ {u, v}
    <3>2. Cardinality(R) = k - 2
      <4>1. Cardinality(R) = Cardinality(S) - Cardinality(S \cap {u, v})
        BY <3>1, FS_Difference
      <4>2. S \cap {u, v} = {u, v}
        BY <3>1
      <4>3. QED
        BY <1>5, <3>1, <4>1, <4>2
    <3>3. R \subseteq common
      <4>1. \A x \in R : x \in nbrs[u] /\ x \in nbrs[v]
        <5> SUFFICES ASSUME NEW x \in R
                     PROVE  x \in nbrs[u] /\ x \in nbrs[v]
          OBVIOUS
        <5>1. {u, x} # {u, v} /\ {v, x} # {u, v} /\ x \in S /\ u # x /\ v # x
          OBVIOUS
        <5>2. QED
          BY <3>1, <5>1
      <4>2. QED
        BY <4>1
    <3>4. IsClique(nbrs, R)
      <4> SUFFICES ASSUME NEW x \in R, NEW y \in R, x # y
                   PROVE  y \in nbrs[x]
        BY DEF IsClique
      <4>1. {x, y} # {u, v} /\ x \in S /\ y \in S
        OBVIOUS
      <4>2. QED
        BY <3>1, <4>1
    <3>5. QED
      BY <3>1, <3>2, <3>3, <3>4 DEF CliquesIn
  <2>5. f \in [C -> T] /\ \A y \in T : \E x \in C : f[x] = y
    BY <2>3, <2>4
  <2>6. \A x, y \in C : f[x] = f[y] => x = y
    <3>1. \A x \in C : x = f[x] \ {u, v}
      BY <2>2
    <3>2. QED
      BY <3>1, Zenon
  <2> HIDE DEF f, C, T
  <2>7. Cardinality(T) = Cardinality(C)
    BY <2>2, <2>5, <2>6, SameSize
  <2>8. CASE k = 2
    <3>1. Cardinality(C) = 1
      <4>1. IsFiniteSet(common) /\ k - 2 = 0
        BY <1>1, <1>2, <2>8
      <4>2. QED
        BY <4>1, CliquesOfNone DEF C
    <3>2. CountJoined(nbrs, k, u, v) = 1
      BY <2>8 DEF CountJoined
    <3>3. QED
      BY <1>3, <2>7, <3>1, <3>2 DEF T
  <2>9. CASE k > 2
    <3>1. CountJoined(nbrs, k, u, v) =
            IF Cardinality(common) < k - 2 THEN 0 ELSE CountCliquesInMask(nbrs, common, k - 2)
      BY <2>9 DEF CountJoined
    <3>2. CountCliquesInMask(nbrs, common, k - 2) = Cardinality(C)
      BY <1>1, <2>1, CountInMaskExact DEF C
    <3>3. ASSUME Cardinality(common) < k - 2
          PROVE  Cardinality(C) = 0
      <4>1. ASSUME NEW R \in C
            PROVE  FALSE
        <5>1. R \subseteq common /\ Cardinality(R) = k - 2 /\ IsFiniteSet(common)
          BY <1>1, <1>2, <2>2 DEF C, CliquesIn
        <5>2. Cardinality(R) <= Cardinality(common) /\ Cardinality(common) \in Nat
          BY <5>1, FS_Subset, FS_CardinalityType
        <5>3. QED
          BY <2>1, <3>3, <5>1, <5>2
      <4>2. C = {}
        BY <4>1
      <4>3. QED
        BY <4>2, FS_EmptySet
    <3>4. CountJoined(nbrs, k, u, v) = Cardinality(C)
      BY <3>1, <3>2, <3>3
    <3>5. QED
      BY <1>3, <2>7, <3>4 DEF T
  <2>10. k = 2 \/ k > 2
    BY <1>7
  <2>11. QED
    BY <2>8, <2>9, <2>10, Zenon
<1>8. k < 2 \/ k >= 2
  OBVIOUS
<1>9. QED
  BY <1>6, <1>7, <1>8, Zenon

\* A flip of u, v adds or takes away the sets it makes a clique.
LEMMA FlipCounts ==
  ASSUME NEW nbrs, NEW V, MasksOn(nbrs, V), NEW k \in Nat, NEW u \in V, NEW v \in V, u # v
  PROVE  Cardinality(CliquesIn(FlipEdge(nbrs, u, v), V, k)) =
           Cardinality(CliquesIn(nbrs, V, k)) + CountAssuming(nbrs, k, u, v, ~HasEdge(nbrs, u, v))
                                              - CountThroughEdge(nbrs, k, u, v)
<1> DEFINE f == FlipEdge(nbrs, u, v)
           T == Through(nbrs, V, k, u, v)
           C == CliquesIn(nbrs, V, k)
           D == CliquesIn(f, V, k)
<1>1. IsFiniteSet(V)
  BY DEF MasksOn
<1>2. \A x, y \in V : y \in f[x] <=>
        IF (x = u /\ y = v) \/ (x = v /\ y = u) THEN y \notin nbrs[x] ELSE y \in nbrs[x]
  BY FlipIs
<1>3. IsFiniteSet(C) /\ IsFiniteSet(D) /\ Cardinality(C) \in Nat /\ Cardinality(D) \in Nat
  BY <1>1, CliquesFinite
<1>4. /\ CountJoined(nbrs, k, u, v) = Cardinality(T)
      /\ IsFiniteSet(T) /\ Cardinality(T) \in Nat
  BY CountThrough
<1>5. v \in nbrs[u] <=> u \in nbrs[v]
  BY DEF MasksOn
<1> HIDE DEF f
<1>6. CASE v \in nbrs[u]
  <2>1. D = C \ T
    <3>1. ASSUME NEW S \in SUBSET V, Cardinality(S) = k
          PROVE  IsClique(f, S) <=> IsClique(nbrs, S) /\ ~(u \in S /\ v \in S)
      BY <1>2, <1>5, <1>6 DEF IsClique
    <3>2. \A S \in C : S \in T <=> u \in S /\ v \in S
      BY DEF CliquesIn, IsClique, Through
    <3>3. QED
      BY <3>1, <3>2 DEF CliquesIn
  <2>2. T \subseteq C
    <3>1. ASSUME NEW S \in T
          PROVE  S \in SUBSET V /\ Cardinality(S) = k /\ IsClique(nbrs, S)
      <4>1. S \in SUBSET V /\ Cardinality(S) = k /\ \A x, y \in S : x # y => y \in nbrs[x] \/ {x, y} = {u, v}
        BY DEF Through
      <4>2. ASSUME NEW x \in S, NEW y \in S, x # y, {x, y} = {u, v}
            PROVE  y \in nbrs[x]
        <5>1. (x = u /\ y = v) \/ (x = v /\ y = u)
          BY <4>2
        <5>2. QED
          BY <1>5, <1>6, <5>1
      <4>3. QED
        BY <4>1, <4>2 DEF IsClique
    <3>2. QED
      BY <3>1 DEF CliquesIn
  <2> HIDE DEF T, C, D
  <2>3. Cardinality(D) = Cardinality(C) - Cardinality(T)
    <3>1. Cardinality(D) = Cardinality(C) - Cardinality(C \cap T)
      BY <1>3, <1>4, <2>1, FS_Difference
    <3>2. C \cap T = T
      BY <2>2
    <3>3. QED
      BY <3>1, <3>2
  <2>4. /\ CountThroughEdge(nbrs, k, u, v) = Cardinality(T)
        /\ CountAssuming(nbrs, k, u, v, ~HasEdge(nbrs, u, v)) = 0
    BY <1>4, <1>6 DEF CountThroughEdge, CountAssuming, HasEdge
  <2>5. QED
    BY <1>3, <1>4, <2>3, <2>4 DEF C, D, f
<1>7. CASE v \notin nbrs[u]
  <2>1. D = C \cup T /\ C \cap T = {}
    <3>1. ASSUME NEW S \in SUBSET V, Cardinality(S) = k
          PROVE  S \in D <=> S \in C \/ S \in T
      <4>1. CASE u \in S /\ v \in S
        <5>1. S \in D => S \in T
          <6> SUFFICES ASSUME \A x, y \in S : x # y => y \in f[x], NEW x \in S, NEW y \in S, x # y
                       PROVE  y \in nbrs[x] \/ {x, y} = {u, v}
            BY <3>1, <4>1 DEF CliquesIn, IsClique, Through
          <6>1. y \in f[x]
            OBVIOUS
          <6>2. QED
            BY <1>2, <6>1
        <5>2. S \in T => S \in D
          <6> SUFFICES ASSUME \A x, y \in S : x # y => y \in nbrs[x] \/ {x, y} = {u, v},
                              NEW x \in S, NEW y \in S, x # y
                       PROVE  y \in f[x]
            BY <3>1, <4>1 DEF CliquesIn, IsClique, Through
          <6>1. CASE {x, y} = {u, v}
            <7>1. (x = u /\ y = v) \/ (x = v /\ y = u)
              BY <6>1
            <7>2. QED
              BY <1>2, <1>5, <1>7, <7>1
          <6>2. CASE {x, y} # {u, v}
            <7>1. ~((x = u /\ y = v) \/ (x = v /\ y = u)) /\ y \in nbrs[x]
              BY <6>2
            <7>2. QED
              BY <1>2, <7>1
          <6>3. QED
            BY <6>1, <6>2
        <5>3. S \notin C
          BY <1>7, <4>1 DEF CliquesIn, IsClique
        <5>4. QED
          BY <5>1, <5>2, <5>3
      <4>2. CASE ~(u \in S /\ v \in S)
        <5>1. IsClique(f, S) <=> IsClique(nbrs, S)
          BY <1>2, <4>2 DEF IsClique
        <5>2. S \notin T
          BY <4>2 DEF Through
        <5>3. QED
          BY <3>1, <5>1, <5>2 DEF CliquesIn
      <4>3. QED
        BY <4>1, <4>2
    <3>2. \A S : (S \in D \/ S \in C \/ S \in T) => S \in SUBSET V /\ Cardinality(S) = k
      BY DEF CliquesIn, Through
    <3>3. \A S \in T : S \notin C
      BY <1>7 DEF CliquesIn, IsClique, Through
    <3> HIDE DEF D, C, T
    <3>4. QED
      BY <3>1, <3>2, <3>3
  <2> HIDE DEF T, C, D
  <2>2. Cardinality(D) = Cardinality(C) + Cardinality(T)
    <3>1. Cardinality(D) = Cardinality(C) + Cardinality(T) - Cardinality(C \cap T)
      BY <1>3, <1>4, <2>1, FS_Union
    <3>2. Cardinality(C \cap T) = 0
      BY <2>1, FS_EmptySet
    <3>3. QED
      BY <1>3, <1>4, <3>1, <3>2
  <2>3. /\ CountThroughEdge(nbrs, k, u, v) = 0
        /\ CountAssuming(nbrs, k, u, v, ~HasEdge(nbrs, u, v)) = Cardinality(T)
    BY <1>4, <1>7 DEF CountThroughEdge, CountAssuming, HasEdge
  <2>4. QED
    BY <1>3, <1>4, <2>2, <2>3 DEF C, D, f
<1>8. QED
  BY <1>6, <1>7

\* The deltas are those of a graph and of its complement.
LEMMA DeltaExact ==
  ASSUME NEW nbrs, NEW V, MasksOn(nbrs, V), NEW k \in Nat, NEW ell \in Nat,
         NEW u \in V, NEW v \in V, u # v,
         NEW others, others = Others(nbrs, V), NEW delta, delta = ViolationDelta(nbrs, others, k, ell, u, v)
  PROVE  /\ Cardinality(CliquesIn(FlipEdge(nbrs, u, v), V, k)) = Cardinality(CliquesIn(nbrs, V, k)) + delta[1]
         /\ Cardinality(CliquesIn(FlipEdge(others, u, v), V, ell)) = Cardinality(CliquesIn(others, V, ell)) + delta[2]
         /\ delta[1] \in Int /\ delta[2] \in Int
<1>1. MasksOn(others, V)
  BY OthersMasks
<1>2. v \in nbrs[u] <=> v \notin others[u]
  BY DEF Others, MasksOn
<1>3. /\ CountJoined(nbrs, k, u, v) \in Nat /\ CountJoined(others, ell, u, v) \in Nat
      /\ Cardinality(CliquesIn(nbrs, V, k)) \in Nat /\ Cardinality(CliquesIn(others, V, ell)) \in Nat
  <2>1. IsFiniteSet(V)
    BY DEF MasksOn
  <2>2. CountJoined(nbrs, k, u, v) \in Nat
    BY CountThrough
  <2>3. CountJoined(others, ell, u, v) \in Nat
    BY <1>1, CountThrough
  <2>4. Cardinality(CliquesIn(nbrs, V, k)) \in Nat /\ Cardinality(CliquesIn(others, V, ell)) \in Nat
    BY <2>1, CliquesFinite
  <2>5. QED
    BY <2>2, <2>3, <2>4
<1> DEFINE a == CountJoined(nbrs, k, u, v)
           c == CountJoined(others, ell, u, v)
<1>4. /\ Cardinality(CliquesIn(FlipEdge(nbrs, u, v), V, k)) =
           Cardinality(CliquesIn(nbrs, V, k)) + (IF v \in nbrs[u] THEN -a ELSE a)
      /\ Cardinality(CliquesIn(FlipEdge(others, u, v), V, ell)) =
           Cardinality(CliquesIn(others, V, ell)) + (IF v \in others[u] THEN -c ELSE c)
  BY <1>1, <1>3, FlipCounts DEF CountThroughEdge, CountAssuming, HasEdge
<1>5. delta[1] = (IF v \in nbrs[u] THEN -a ELSE a) /\ delta[2] = (IF v \in others[u] THEN -c ELSE c)
  BY <1>2, <1>3 DEF ViolationDelta, CountThroughEdge, CountAssuming, HasEdge
<1> HIDE DEF a, c
<1>6. QED
  BY <1>3, <1>4, <1>5 DEF a, c

-----------------------------------------------------------------------------
(***************************************************************************)
(* Lexicographic order, and what is first in it                            *)
(***************************************************************************)

\* Sequences of one length compare at their first difference.
LEMMA LexAtFirst ==
  ASSUME NEW a \in Seq(Int), NEW b \in Seq(Int), Len(a) = Len(b)
  PROVE  LexLess(a, b) <=> \E i \in 1..Len(b) : a[i] < b[i] /\ \A j \in 1..(i - 1) : a[j] = b[j]
<1>1. \A i \in 1..Len(b) : ~(i > Len(a)) /\ \A j \in 1..(i - 1) : j <= Len(a)
  OBVIOUS
<1>2. QED
  BY <1>1 DEF LexLess

\* No sequence is less than itself.
LEMMA LexIrreflexive == \A a \in Seq(Int) : ~LexLess(a, a)
<1> SUFFICES ASSUME NEW a \in Seq(Int), LexLess(a, a)
             PROVE  FALSE
  OBVIOUS
<1>1. PICK i \in 1..Len(a) : a[i] < a[i]
  BY LexAtFirst
<1>2. a[i] \in Int
  OBVIOUS
<1>3. QED
  BY <1>1, <1>2

\* The order is transitive.
LEMMA LexTransitive ==
  ASSUME NEW a \in Seq(Int), NEW b \in Seq(Int), NEW c \in Seq(Int), Len(a) = Len(b), Len(b) = Len(c),
         LexLess(a, b), LexLess(b, c)
  PROVE  LexLess(a, c)
<1>0. /\ LexLess(a, b) <=> \E i \in 1..Len(b) : a[i] < b[i] /\ \A j \in 1..(i - 1) : a[j] = b[j]
      /\ LexLess(b, c) <=> \E i \in 1..Len(c) : b[i] < c[i] /\ \A j \in 1..(i - 1) : b[j] = c[j]
      /\ LexLess(a, c) <=> \E i \in 1..Len(c) : a[i] < c[i] /\ \A j \in 1..(i - 1) : a[j] = c[j]
  <2>1. Len(a) = Len(c)
    OBVIOUS
  <2>2. QED
    BY <2>1, LexAtFirst
<1>1. PICK i \in 1..Len(b) : a[i] < b[i] /\ \A x \in 1..(i - 1) : a[x] = b[x]
  BY <1>0
<1>2. PICK j \in 1..Len(c) : b[j] < c[j] /\ \A x \in 1..(j - 1) : b[x] = c[x]
  BY <1>0
<1>3. a[i] \in Int /\ b[i] \in Int /\ c[i] \in Int /\ a[j] \in Int /\ b[j] \in Int /\ c[j] \in Int
  OBVIOUS
<1>4. CASE i <= j
  <2>1. a[i] < c[i]
    <3>1. CASE i = j
      BY <1>1, <1>2, <1>3, <3>1
    <3>2. CASE i < j
      BY <1>1, <1>2, <1>3, <3>2
    <3>3. QED
      BY <1>4, <3>1, <3>2
  <2>2. \A x \in 1..(i - 1) : a[x] = c[x]
    BY <1>1, <1>2, <1>4
  <2>3. i \in 1..Len(c)
    OBVIOUS
  <2>4. QED
    BY <1>0, <2>1, <2>2, <2>3
<1>5. CASE j < i
  <2>1. a[j] < c[j]
    BY <1>1, <1>2, <1>3, <1>5
  <2>2. \A x \in 1..(j - 1) : a[x] = c[x]
    BY <1>1, <1>2, <1>5
  <2>3. QED
    BY <1>0, <2>1, <2>2
<1>6. QED
  BY <1>4, <1>5

\* Two sequences of one length compare.
LEMMA LexTotal ==
  ASSUME NEW a \in Seq(Int), NEW b \in Seq(Int), Len(a) = Len(b)
  PROVE  a = b \/ LexLess(a, b) \/ LexLess(b, a)
<1> DEFINE D == {i \in 1..Len(b) : a[i] # b[i]}
<1>1. CASE D = {}
  <2>1. \A i \in 1..Len(a) : a[i] = b[i]
    BY <1>1
  <2>2. QED
    BY <2>1, SeqEqual
<1>2. CASE D # {}
  <2>0. D \in SUBSET Nat
    OBVIOUS
  <2>1. PICK i \in D : \A x \in D : i <= x
    <3> HIDE DEF D
    <3>1. QED
      BY <1>2, <2>0, LeastOfNats
  <2>2. a[i] \in Int /\ b[i] \in Int /\ a[i] # b[i]
    OBVIOUS
  <2>3. \A x \in 1..(i - 1) : a[x] = b[x] /\ b[x] = a[x]
    BY <2>1
  <2>4. i \in 1..Len(b) /\ i \in 1..Len(a)
    OBVIOUS
  <2>5. a[i] < b[i] \/ b[i] < a[i]
    BY <2>2
  <2>6. /\ LexLess(a, b) <=> \E y \in 1..Len(b) : a[y] < b[y] /\ \A j \in 1..(y - 1) : a[j] = b[j]
        /\ LexLess(b, a) <=> \E y \in 1..Len(a) : b[y] < a[y] /\ \A j \in 1..(y - 1) : b[j] = a[j]
    <3> HIDE DEF D
    <3>1. QED
      BY LexAtFirst
  <2>7. QED
    BY <2>3, <2>4, <2>5, <2>6
<1>3. QED
  BY <1>1, <1>2

\* Different keys of one length for the things in a set.
Keyed(S, key) ==
  /\ key \in [S -> Seq(Int)] /\ \A x, y \in S : Len(key[x]) = Len(key[y])
  /\ \A x, y \in S : key[x] = key[y] => x = y

\* Of finitely many things one has the least key.
LEMMA LeastKeyed ==
  ASSUME NEW S, IsFiniteSet(S), S # {}, NEW key, Keyed(S, key)
  PROVE  \E p \in S : \A q \in S \ {p} : LexLess(key[p], key[q])
<1> USE DEF Keyed
<1> DEFINE G == {s \in SUBSET S : s # {} => \E p \in s : \A q \in s \ {p} : LexLess(key[p], key[q])}
<1>1. ASSUME NEW s \in SUBSET S, \A r \in SUBSET s : r # s => r \in G
      PROVE  s \in G
  <2> SUFFICES ASSUME s # {}
               PROVE  \E p \in s : \A q \in s \ {p} : LexLess(key[p], key[q])
    OBVIOUS
  <2>1. PICK x \in s : TRUE
    OBVIOUS
  <2>2. s \ {x} \in G
    BY <1>1, <2>1
  <2>3. CASE s \ {x} = {}
    BY <2>1, <2>3
  <2>4. CASE s \ {x} # {}
    <3>1. PICK p \in s \ {x} : \A q \in (s \ {x}) \ {p} : LexLess(key[p], key[q])
      BY <2>2, <2>4
    <3>2. p # x /\ p \in S /\ x \in S
      BY <2>1, <3>1
    <3>3. LexLess(key[p], key[x]) \/ LexLess(key[x], key[p])
      BY <3>2, LexTotal
    <3>4. CASE LexLess(key[p], key[x])
      BY <3>1, <3>4
    <3>5. CASE LexLess(key[x], key[p])
      <4>1. \A q \in s \ {x} : LexLess(key[x], key[q])
        BY <3>1, <3>2, <3>5, LexTransitive
      <4>2. QED
        BY <2>1, <4>1
    <3>6. QED
      BY <3>3, <3>4, <3>5
  <2>5. QED
    BY <2>3, <2>4
<1>2. G = SUBSET S
  <2>1. G \in SUBSET (SUBSET S)
    OBVIOUS
  <2> HIDE DEF G
  <2>2. QED
    BY <1>1, <2>1, SubsetInduction
<1>3. QED
  BY <1>2

\* Every place in the order is taken.
LEMMA RanksTaken ==
  ASSUME NEW S, IsFiniteSet(S), NEW key, Keyed(S, key), NEW x \in 1..Cardinality(S)
  PROVE  \E p \in S : Cardinality({q \in S : LexLess(key[q], key[p])}) = x - 1
<1> USE DEF Keyed
<1> DEFINE Before(p) == {q \in S : LexLess(key[q], key[p])}
           T == 0..(Cardinality(S) - 1)
           rank == [p \in S |-> Cardinality(Before(p))]
<1>1. Cardinality(S) \in Nat
  BY FS_CardinalityType
<1>2. ASSUME NEW p \in S
      PROVE  p \notin Before(p) /\ IsFiniteSet(Before(p)) /\ Cardinality(Before(p)) \in T
  <2>1. p \notin Before(p)
    BY LexIrreflexive
  <2>2. Before(p) \in SUBSET S /\ Before(p) # S
    BY <2>1
  <2>3. IsFiniteSet(Before(p)) /\ Cardinality(Before(p)) \in Nat /\ Cardinality(Before(p)) < Cardinality(S)
    <3> HIDE DEF Before
    <3>1. QED
      BY <2>2, FS_Subset, FS_CardinalityType
  <2>4. QED
    BY <1>1, <2>1, <2>3
<1>3. ASSUME NEW p \in S, NEW q \in S, LexLess(key[p], key[q])
      PROVE  rank[p] < rank[q]
  <2>1. Before(p) \subseteq Before(q)
    BY <1>3, LexTransitive
  <2>2. p \in Before(q)
    BY <1>3
  <2>3. p \notin Before(p) /\ IsFiniteSet(Before(q))
    BY <1>2
  <2> HIDE DEF Before
  <2>4. Cardinality(Before(p)) < Cardinality(Before(q))
    <3>1. Before(p) \in SUBSET Before(q) /\ Before(p) # Before(q)
      BY <2>1, <2>2, <2>3
    <3>2. QED
      BY <2>3, <3>1, FS_Subset, FS_CardinalityType
  <2>5. QED
    BY <2>4
<1>4. rank \in [S -> T]
  BY <1>2
<1>5. \A p, q \in S : rank[p] = rank[q] => p = q
  <2> SUFFICES ASSUME NEW p \in S, NEW q \in S, rank[p] = rank[q], p # q
               PROVE  FALSE
    OBVIOUS
  <2>1. LexLess(key[p], key[q]) \/ LexLess(key[q], key[p])
    BY LexTotal
  <2>2. rank[p] \in Int /\ rank[q] \in Int
    BY <1>4
  <2> HIDE DEF rank
  <2>3. rank[p] < rank[q] \/ rank[q] < rank[p]
    BY <1>3, <2>1
  <2>4. QED
    BY <2>2, <2>3
<1>6. IsFiniteSet(T) /\ Cardinality(T) = Cardinality(S)
  <2>1. T = Vertices(Cardinality(S))
    BY DEF Vertices
  <2>2. QED
    BY <1>1, <2>1, VerticesAre
<1>7. \A y \in T : \E p \in S : rank[p] = y
  <2> HIDE DEF rank, T
  <2>1. rank \in Injection(S, T)
    BY <1>4, <1>5, Zenon DEF Injection, IsInjective
  <2>2. rank \in Surjection(S, T)
    BY <1>6, <2>1, FS_Injection
  <2>3. QED
    BY <2>2, Zenon DEF Surjection
<1>8. x - 1 \in T
  BY <1>1
<1>9. PICK p \in S : rank[p] = x - 1
  BY <1>7, <1>8
<1>10. QED
  BY <1>9

\* Finitely many things in the order of their keys are just these things.
LEMMA OrderedLists ==
  ASSUME NEW S, IsFiniteSet(S), NEW key, Keyed(S, key)
  PROVE  Ordered(key) \in [1..Cardinality(S) -> S]
<1>1. DOMAIN key = S
  BY DEF Keyed
<1> DEFINE At(x) == CHOOSE p \in S : Cardinality({q \in S : LexLess(key[q], key[p])}) = x - 1
<1>2. \A x \in 1..Cardinality(S) : At(x) \in S
  <2> SUFFICES ASSUME NEW x \in 1..Cardinality(S)
               PROVE  At(x) \in S
    OBVIOUS
  <2>1. \E p \in S : Cardinality({q \in S : LexLess(key[q], key[p])}) = x - 1
    BY RanksTaken
  <2>2. QED
    BY <2>1
<1>3. Ordered(key) = [x \in 1..Cardinality(S) |-> At(x)]
  BY <1>1 DEF Ordered
<1>4. QED
  BY <1>2, <1>3

-----------------------------------------------------------------------------
(***************************************************************************)
(* The masks a search keeps, and their counts                              *)
(***************************************************************************)

\* The masks of a graph of the job's size, and those of its complement.
BothMasks(a, c) == MasksOn(a, Vertices(N)) /\ c = Others(a, Vertices(N))

\* The size of a job, and its cliques, are numbers that a word holds.
LEMMA SizeIs == N \in Nat /\ N >= 2 /\ N < WordBits /\ K \in Nat /\ Ell \in Nat
BY JobAssumption DEF MaxText

\* There is a slot, and finitely many; each is a pair of two vertices.
LEMMA SlotsAre ==
  /\ IsFiniteSet(Slots(N)) /\ Slots(N) # {}
  /\ \A p \in Slots(N) : p[1] \in Vertices(N) /\ p[2] \in Vertices(N) /\ p[1] # p[2] /\ p = <<p[1], p[2]>>
                         /\ p[1] \in Nat /\ p[2] \in Nat
<1>1. IsFiniteSet(Vertices(N))
  BY SizeIs, VerticesAre
<1>2. IsFiniteSet(Vertices(N) \X Vertices(N))
  BY <1>1, FS_Product
<1>3. Slots(N) \in SUBSET (Vertices(N) \X Vertices(N))
  BY DEF Slots
<1>4. IsFiniteSet(Slots(N))
  BY <1>2, <1>3, FS_Subset
<1>5. <<0, 1>> \in Slots(N)
  BY SizeIs DEF Slots, Vertices
<1>6. QED
  BY <1>4, <1>5 DEF Slots, Vertices

\* The masks a search begins with.
LEMMA BothOfGraph ==
  ASSUME NEW g, g.n = N
  PROVE  BothMasks(FromAdj(g), FromAdj(Complement(g)))
BY SizeIs, MasksOfBoth DEF BothMasks

\* A flip made in the graph and in its complement leaves masks of both.
LEMMA BothFlipped ==
  ASSUME NEW a, NEW c, BothMasks(a, c), NEW p \in Slots(N)
  PROVE  BothMasks(Flip(a, p), Flip(c, p))
<1>1. p[1] \in Vertices(N) /\ p[2] \in Vertices(N) /\ p[1] # p[2] /\ MasksOn(a, Vertices(N)) /\ c = Others(a, Vertices(N))
  BY SlotsAre DEF BothMasks
<1>2. /\ MasksOn(FlipEdge(a, p[1], p[2]), Vertices(N))
      /\ Others(FlipEdge(a, p[1], p[2]), Vertices(N)) = FlipEdge(c, p[1], p[2])
  BY <1>1, FlipIs
<1>3. QED
  BY <1>2 DEF BothMasks, Flip

\* The graph made of the masks has these masks.
LEMMA BothBack ==
  ASSUME NEW a, NEW c, BothMasks(a, c)
  PROVE  /\ GraphOf(a).n = N /\ GraphOf(a) # NoGraph
         /\ FromAdj(GraphOf(a)) = a /\ FromAdj(Complement(GraphOf(a))) = c
         /\ ViolationsOf(GraphOf(a)) = Violations(a, c)
         /\ ScoreValid(GraphOf(a)) = ScoreTuple(Counts(a, c))
<1>1. MasksOn(a, Vertices(N)) /\ c = Others(a, Vertices(N))
  BY DEF BothMasks
<1> DEFINE g == GraphOf(a)
<1>2. g = MaskGraph(N, a)
  BY DEF GraphOf, MaskGraph
<1> HIDE DEF g
<1>3. g.n = N /\ FromAdj(g) = a /\ FromAdj(Complement(g)) = c
  BY <1>1, <1>2, SizeIs, MasksBack
<1>4. ViolationsOf(g) = Violations(a, c) /\ ScoreValid(g) = ScoreTuple(Counts(a, c))
  BY <1>3 DEF ViolationsOf, ScoreValid
<1>5. NoGraph.n = 0
  BY DEF NoGraph, NewGraph
<1>6. QED
  BY <1>3, <1>4, <1>5, SizeIs DEF g

\* Counts are numbers of cliques, and a flip changes them by its delta.
LEMMA CountsFollow ==
  ASSUME NEW a, NEW c, BothMasks(a, c), NEW k \in Nat, NEW l \in Nat
  PROVE  /\ CountCliques(a, k) \in Nat /\ CountCliques(c, l) \in Nat
         /\ \A p \in Slots(N) :
              /\ CountCliques(Flip(a, p), k) = CountCliques(a, k) + ViolationDelta(a, c, k, l, p[1], p[2])[1]
              /\ CountCliques(Flip(c, p), l) = CountCliques(c, l) + ViolationDelta(a, c, k, l, p[1], p[2])[2]
              /\ CountCliques(Flip(a, p), k) \in Nat /\ CountCliques(Flip(c, p), l) \in Nat
              /\ ViolationDelta(a, c, k, l, p[1], p[2])[1] \in Int
              /\ ViolationDelta(a, c, k, l, p[1], p[2])[2] \in Int
<1> DEFINE V == Vertices(N)
<1>1. IsFiniteSet(V)
  BY SizeIs, VerticesAre
<1>2. \A x, s : MasksOn(x, V) /\ s \in Nat => CountCliques(x, s) = Cardinality(CliquesIn(x, V, s))
  BY CountExact
<1>3. \A x, s : Cardinality(CliquesIn(x, V, s)) \in Nat
  BY <1>1, CliquesFinite
<1>4. MasksOn(a, V) /\ c = Others(a, V)
  BY DEF BothMasks
<1>5. MasksOn(c, V)
  BY <1>4, OthersMasks
<1>6. CountCliques(a, k) \in Nat /\ CountCliques(c, l) \in Nat
  BY <1>2, <1>3, <1>4, <1>5
<1>7. ASSUME NEW p \in Slots(N)
      PROVE  /\ CountCliques(Flip(a, p), k) = CountCliques(a, k) + ViolationDelta(a, c, k, l, p[1], p[2])[1]
             /\ CountCliques(Flip(c, p), l) = CountCliques(c, l) + ViolationDelta(a, c, k, l, p[1], p[2])[2]
             /\ CountCliques(Flip(a, p), k) \in Nat /\ CountCliques(Flip(c, p), l) \in Nat
             /\ ViolationDelta(a, c, k, l, p[1], p[2])[1] \in Int
             /\ ViolationDelta(a, c, k, l, p[1], p[2])[2] \in Int
  <2> DEFINE d == ViolationDelta(a, c, k, l, p[1], p[2])
  <2>1. p[1] \in V /\ p[2] \in V /\ p[1] # p[2]
    BY SlotsAre
  <2> HIDE DEF V
  <2>2. /\ Cardinality(CliquesIn(FlipEdge(a, p[1], p[2]), V, k)) = Cardinality(CliquesIn(a, V, k)) + d[1]
        /\ Cardinality(CliquesIn(FlipEdge(c, p[1], p[2]), V, l)) = Cardinality(CliquesIn(c, V, l)) + d[2]
        /\ d[1] \in Int /\ d[2] \in Int
    BY <1>4, <2>1, DeltaExact
  <2>3. MasksOn(FlipEdge(a, p[1], p[2]), V) /\ MasksOn(FlipEdge(c, p[1], p[2]), V)
    <3>1. BothMasks(Flip(a, p), Flip(c, p))
      BY BothFlipped
    <3>2. MasksOn(Flip(a, p), V) /\ Flip(c, p) = Others(Flip(a, p), V)
      BY <3>1 DEF BothMasks, V
    <3>3. MasksOn(Flip(c, p), V)
      BY <3>2, OthersMasks
    <3>4. QED
      BY <3>2, <3>3 DEF Flip
  <2> HIDE DEF d
  <2>4. /\ CountCliques(FlipEdge(a, p[1], p[2]), k) = CountCliques(a, k) + d[1]
        /\ CountCliques(FlipEdge(c, p[1], p[2]), l) = CountCliques(c, l) + d[2]
        /\ CountCliques(FlipEdge(a, p[1], p[2]), k) \in Nat /\ CountCliques(FlipEdge(c, p[1], p[2]), l) \in Nat
    BY <1>2, <1>3, <1>4, <1>5, <2>2, <2>3
  <2>5. QED
    BY <2>2, <2>4 DEF d, Flip
<1>8. QED
  BY <1>6, <1>7

-----------------------------------------------------------------------------
(***************************************************************************)
(* Scores that follow a flip                                               *)
(***************************************************************************)

\* The lesser of two.
LEMMA MinOfTwo ==
  ASSUME NEW a \in Int, NEW b \in Int
  PROVE  Min({a, b}) = IF a <= b THEN a ELSE b
<1>1. PICK m \in {a, b} : \A y \in {a, b} : m <= y
  OBVIOUS
<1>2. Min({a, b}) \in {a, b} /\ \A y \in {a, b} : Min({a, b}) <= y
  BY <1>1, Zenon DEF Min
<1>3. QED
  BY <1>2

\* The greater of two.
LEMMA MaxOfTwo ==
  ASSUME NEW a \in Int, NEW b \in Int
  PROVE  Max({a, b}) = IF a >= b THEN a ELSE b
<1>1. PICK m \in {a, b} : \A y \in {a, b} : m >= y
  OBVIOUS
<1>2. Max({a, b}) \in {a, b} /\ \A y \in {a, b} : Max({a, b}) >= y
  BY <1>1, Zenon DEF Max
<1>3. QED
  BY <1>2

\* The violations carried along by the deltas of a flip are those of the flipped graph.
LEMMA ViolationsFollow ==
  ASSUME NEW a, NEW c, BothMasks(a, c)
  PROVE  /\ Violations(a, c) \in Nat
         /\ \A p \in Slots(N) : /\ Cost(a, c, p) \in Int /\ Violations(Flip(a, p), Flip(c, p)) \in Nat
                                /\ Violations(Flip(a, p), Flip(c, p)) = Violations(a, c) + Cost(a, c, p)
<1>1. K \in Nat /\ Ell \in Nat
  BY SizeIs
<1>2. CountCliques(a, K) \in Nat /\ CountCliques(c, Ell) \in Nat
  BY <1>1, CountsFollow
<1>3. ASSUME NEW p \in Slots(N)
      PROVE  /\ Cost(a, c, p) \in Int /\ Violations(Flip(a, p), Flip(c, p)) \in Nat
             /\ Violations(Flip(a, p), Flip(c, p)) = Violations(a, c) + Cost(a, c, p)
  <2> DEFINE d == ViolationDelta(a, c, K, Ell, p[1], p[2])
  <2>1. /\ CountCliques(Flip(a, p), K) = CountCliques(a, K) + d[1]
        /\ CountCliques(Flip(c, p), Ell) = CountCliques(c, Ell) + d[2]
        /\ CountCliques(Flip(a, p), K) \in Nat /\ CountCliques(Flip(c, p), Ell) \in Nat
        /\ d[1] \in Int /\ d[2] \in Int
    BY <1>1, CountsFollow
  <2>2. Cost(a, c, p) = d[1] + d[2]
    BY DEF Cost
  <2> HIDE DEF d
  <2>3. QED
    BY <1>2, <2>1, <2>2 DEF Violations
<1>4. QED
  BY <1>2, <1>3 DEF Violations

\* The counts a walk or a beam carries along by deltas are those of a recount.
LEMMA ScoreFollows ==
  ASSUME NEW a, NEW c, BothMasks(a, c), NEW p \in Slots(N)
  PROVE  Shifted(Counts(a, c), ViolationDelta(a, c, 4, 4, p[1], p[2]), ViolationDelta(a, c, 3, 3, p[1], p[2]))
           = Counts(Flip(a, p), Flip(c, p))
<1> DEFINE d4 == ViolationDelta(a, c, 4, 4, p[1], p[2])
           d3 == ViolationDelta(a, c, 3, 3, p[1], p[2])
<1>1. 3 \in Nat /\ 4 \in Nat
  OBVIOUS
<1>2. /\ CountCliques(Flip(a, p), 4) = CountCliques(a, 4) + d4[1]
      /\ CountCliques(Flip(c, p), 4) = CountCliques(c, 4) + d4[2]
      /\ CountCliques(Flip(a, p), 4) \in Nat /\ CountCliques(Flip(c, p), 4) \in Nat
  BY <1>1, CountsFollow
<1>3. /\ CountCliques(Flip(a, p), 3) = CountCliques(a, 3) + d3[1]
      /\ CountCliques(Flip(c, p), 3) = CountCliques(c, 3) + d3[2]
      /\ CountCliques(Flip(a, p), 3) \in Nat /\ CountCliques(Flip(c, p), 3) \in Nat
  BY <1>1, CountsFollow
<1> HIDE DEF d3, d4
<1>4. \A x \in Nat : Max({0, x}) = x
  BY MaxWithNone
<1>5. Shifted(Counts(a, c), d4, d3) =
        [r4 |-> Max({0, CountCliques(a, 4) + d4[1]}), b4 |-> Max({0, CountCliques(c, 4) + d4[2]}),
         r3 |-> Max({0, CountCliques(a, 3) + d3[1]}), b3 |-> Max({0, CountCliques(c, 3) + d3[2]})]
  BY DEF Shifted, Counts
<1>6. Shifted(Counts(a, c), d4, d3) = Counts(Flip(a, p), Flip(c, p))
  BY <1>2, <1>3, <1>4, <1>5 DEF Counts
<1>7. QED
  BY <1>6 DEF d3, d4

\* A score is four numbers to compare.
LEMMA TupleType ==
  ASSUME NEW a, NEW c, BothMasks(a, c)
  PROVE  ScoreTuple(Counts(a, c)) \in Seq(Int) /\ Len(ScoreTuple(Counts(a, c))) = 4
<1>1. /\ CountCliques(a, 4) \in Nat /\ CountCliques(c, 4) \in Nat
      /\ CountCliques(a, 3) \in Nat /\ CountCliques(c, 3) \in Nat
  <2>1. 3 \in Nat /\ 4 \in Nat
    OBVIOUS
  <2>2. QED
    BY <2>1, CountsFollow
<1>2. \A x, y \in Nat : Max({x, y}) \in Int /\ Min({x, y}) \in Int
  BY MinOfTwo, MaxOfTwo
<1>3. QED
  BY <1>1, <1>2 DEF ScoreTuple, Counts

\* The focused mode offers slots.
LEMMA FocusedIn ==
  ASSUME NEW a, NEW c, BothMasks(a, c)
  PROVE  FocusedSlots(a, c) \in SUBSET Slots(N) /\ FocusedSlots(a, c) # {}
<1>1. DOMAIN a = Vertices(N)
  BY DEF BothMasks, MasksOn
<1>2. Cardinality(DOMAIN a) = N
  BY <1>1, SizeIs, VerticesAre
<1>3. GuiltyEdges(a, c, K, Ell) \in SUBSET Slots(N)
  BY <1>2 DEF GuiltyEdges
<1>4. QED
  BY <1>3, SlotsAre DEF FocusedSlots

-----------------------------------------------------------------------------
(***************************************************************************)
(* What a strategy chooses among                                           *)
(***************************************************************************)

\* A slot put behind its key keeps two slots apart.
LEMMA PairsBehind ==
  ASSUME NEW x \in Seq(Int), NEW y \in Seq(Int), Len(x) = Len(y),
         NEW p \in Slots(N), NEW q \in Slots(N)
  PROVE  /\ x \o p \in Seq(Int) /\ Len(x \o p) = Len(y \o q)
         /\ x \o p = y \o q => p = q
<1>1. /\ p = <<p[1], p[2]>> /\ q = <<q[1], q[2]>> /\ p[1] \in Nat /\ p[2] \in Nat /\ q[1] \in Nat /\ q[2] \in Nat
  BY SlotsAre
<1>2. \A z \in Slots(N) : z \in Seq(Int) /\ Len(z) = 2 /\ z[1] \in Int /\ z[2] \in Int
  <2> SUFFICES ASSUME NEW z \in Slots(N)
               PROVE  z \in Seq(Int) /\ Len(z) = 2 /\ z[1] \in Int /\ z[2] \in Int
    OBVIOUS
  <2>1. z = <<z[1], z[2]>> /\ z[1] \in Int /\ z[2] \in Int
    BY SlotsAre
  <2>2. PICK u \in Int, v \in Int : z = <<u, v>>
    BY <2>1
  <2>3. <<u, v>> \in Seq(Int) /\ Len(<<u, v>>) = 2
    OBVIOUS
  <2>4. QED
    BY <2>1, <2>2, <2>3
<1>3. \A z \in Seq(Int) : \A s \in Slots(N) :
        /\ z \o s \in Seq(Int) /\ Len(z \o s) = Len(z) + 2
        /\ (z \o s)[Len(z) + 1] = s[1] /\ (z \o s)[Len(z) + 2] = s[2]
  <2> SUFFICES ASSUME NEW z \in Seq(Int), NEW s \in Slots(N)
               PROVE  /\ z \o s \in Seq(Int) /\ Len(z \o s) = Len(z) + 2
                      /\ (z \o s)[Len(z) + 1] = s[1] /\ (z \o s)[Len(z) + 2] = s[2]
    OBVIOUS
  <2>1. s \in Seq(Int) /\ Len(s) = 2
    BY <1>2
  <2>2. /\ z \o s \in Seq(Int) /\ Len(z \o s) = Len(z) + Len(s)
        /\ \A i \in 1..(Len(z) + Len(s)) : (z \o s)[i] = IF i <= Len(z) THEN z[i] ELSE s[i - Len(z)]
    <3>1. s \in Seq(Int)
      BY <2>1
    <3>2. Len(z \o s) = Len(z) + Len(s)
      BY <3>1, ConcatProperties
    <3>3. z \o s \in Seq(Int)
      BY <3>1, SMT
    <3>4. \A i \in 1..(Len(z) + Len(s)) : (z \o s)[i] = IF i <= Len(z) THEN z[i] ELSE s[i - Len(z)]
      BY <3>1, ConcatProperties
    <3>5. QED
      BY <3>2, <3>3, <3>4
  <2> DEFINE m == Len(z)
  <2>3. m \in Nat
    OBVIOUS
  <2> HIDE DEF m
  <2>4. /\ m + 1 \in 1..(m + 2) /\ m + 2 \in 1..(m + 2) /\ ~(m + 1 <= m) /\ ~(m + 2 <= m)
        /\ (m + 1) - m = 1 /\ (m + 2) - m = 2
    BY <2>3
  <2>5. \A i \in 1..(m + 2) : (z \o s)[i] = IF i <= m THEN z[i] ELSE s[i - m]
    <3>1. Len(z) + Len(s) = m + 2
      BY <2>1 DEF m
    <3>2. QED
      BY <2>2, <3>1, Zenon DEF m
  <2>6. (z \o s)[m + 1] = s[(m + 1) - m] /\ (z \o s)[m + 2] = s[(m + 2) - m]
    BY <2>4, <2>5
  <2>7. (z \o s)[m + 1] = s[1] /\ (z \o s)[m + 2] = s[2]
    BY <2>4, <2>6
  <2>8. QED
    BY <2>1, <2>2, <2>7 DEF m
<1>4. /\ x \o p \in Seq(Int) /\ Len(x \o p) = Len(x) + 2
      /\ (x \o p)[Len(x) + 1] = p[1] /\ (x \o p)[Len(x) + 2] = p[2]
      /\ y \o q \in Seq(Int) /\ Len(y \o q) = Len(y) + 2
      /\ (y \o q)[Len(y) + 1] = q[1] /\ (y \o q)[Len(y) + 2] = q[2]
  BY <1>3
<1>5. QED
  BY <1>1, <1>4

\* Keys for the slots a strategy looks at.
SlotKeys(S, key) ==
  S \in SUBSET Slots(N) /\ key \in [S -> Seq(Int)] /\ \A x, y \in S : Len(key[x]) = Len(key[y])

\* The slot whose key is least is one of those looked at.
LEMMA FirstIsIn ==
  ASSUME NEW S, NEW key, SlotKeys(S, key), NEW s \in SUBSET S, s # {}
  PROVE  FirstLeast(s, key) \in s
<1> DEFINE keyed == [p \in s |-> key[p] \o p]
<1>1. \A p, q \in s : /\ p \in Slots(N) /\ q \in Slots(N) /\ key[p] \in Seq(Int) /\ key[q] \in Seq(Int)
                      /\ Len(key[p]) = Len(key[q])
  BY DEF SlotKeys
<1>2. \A p, q \in s : /\ keyed[p] \in Seq(Int) /\ Len(keyed[p]) = Len(keyed[q])
                      /\ keyed[p] = keyed[q] => p = q
  <2> SUFFICES ASSUME NEW p \in s, NEW q \in s
               PROVE  /\ keyed[p] \in Seq(Int) /\ Len(keyed[p]) = Len(keyed[q])
                      /\ keyed[p] = keyed[q] => p = q
    OBVIOUS
  <2>1. keyed[p] = key[p] \o p /\ keyed[q] = key[q] \o q
    OBVIOUS
  <2>2. /\ key[p] \o p \in Seq(Int) /\ Len(key[p] \o p) = Len(key[q] \o q)
        /\ key[p] \o p = key[q] \o q => p = q
    BY <1>1, PairsBehind
  <2> HIDE DEF keyed
  <2>3. QED
    BY <2>1, <2>2
<1>3. keyed \in [s -> Seq(Int)]
  <2>1. keyed = [p \in s |-> keyed[p]]
    OBVIOUS
  <2> HIDE DEF keyed
  <2>2. QED
    BY <1>2, <2>1
<1>4. IsFiniteSet(s)
  <2>1. s \in SUBSET Slots(N)
    BY DEF SlotKeys
  <2>2. QED
    BY <2>1, SlotsAre, FS_Subset
<1>5. FirstLeast(s, key) = CHOOSE p \in s : \A q \in s \ {p} : LexLess(keyed[p], keyed[q])
  BY DEF FirstLeast
<1> HIDE DEF keyed
<1>6. Keyed(s, keyed)
  BY <1>2, <1>3 DEF Keyed
<1>7. \E p \in s : \A q \in s \ {p} : LexLess(keyed[p], keyed[q])
  BY <1>4, <1>6, LeastKeyed
<1>8. QED
  BY <1>5, <1>7

\* What is chosen was free or sets a record.
LEMMA ChosenIsIn ==
  ASSUME NEW S, NEW key, SlotKeys(S, key), NEW free \in SUBSET S, NEW records \in SUBSET S,
         free \cup records # {}
  PROVE  Chosen(free, records, key) \in free \cup records
<1>1. free # {} => FirstLeast(free, key) \in free
  BY FirstIsIn
<1>2. records # {} => FirstLeast(records, key) \in records
  BY FirstIsIn
<1>3. QED
  BY <1>1, <1>2 DEF Chosen

\* A walk whose score is that of its graph.
ScoreTrue(w) == BothMasks(w.adj, w.comp) /\ w.score = Counts(w.adj, w.comp)

\* The next move of a walk keeps the graph valid, and is free or sets a record.
LEMMA MovesAre ==
  ASSUME NEW w, ScoreTrue(w), NEW move \in NextMove(w)
  PROVE  /\ move.slot \in Slots(N) /\ Cost(w.adj, w.comp, move.slot) = 0
         /\ move.score = Counts(Flip(w.adj, move.slot), Flip(w.comp, move.slot))
         /\ w.tabu[move.slot] <= w.step + 1 \/ LexLess(ScoreTuple(move.score), w.bestScore)
<1> DEFINE score == PolishScore(w)
           after == [p \in ValidMoves(w.adj, w.comp) |->
                       Shifted(score, ViolationDelta(w.adj, w.comp, 4, 4, p[1], p[2]),
                                      ViolationDelta(w.adj, w.comp, 3, 3, p[1], p[2]))]
           tuple == [p \in DOMAIN after |-> ScoreTuple(after[p])]
           free == Free(w.tabu, DOMAIN after, w.step + 1)
           records == {p \in DOMAIN after : LexLess(tuple[p], w.bestScore)}
           best == Chosen(free, records, tuple)
<1>1. free \cup records # {} /\ move = [slot |-> best, score |-> after[best]]
  BY DEF NextMove
<1>2. BothMasks(w.adj, w.comp) /\ score = Counts(w.adj, w.comp)
  BY DEF PolishScore, ScoreTrue
<1>3. DOMAIN after = ValidMoves(w.adj, w.comp) /\ DOMAIN after \in SUBSET Slots(N)
  BY DEF ValidMoves
<1>4. \A p \in DOMAIN after : after[p] = Counts(Flip(w.adj, p), Flip(w.comp, p)) /\ tuple[p] = ScoreTuple(after[p])
  BY <1>2, <1>3, ScoreFollows
<1>5. \A p \in DOMAIN after : BothMasks(Flip(w.adj, p), Flip(w.comp, p))
  BY <1>2, <1>3, BothFlipped
<1>6. DOMAIN tuple = DOMAIN after /\ tuple = [p \in DOMAIN after |-> tuple[p]]
  OBVIOUS
<1>7. free \in SUBSET DOMAIN after /\ records \in SUBSET DOMAIN after
  BY DEF Free
<1>8. /\ \A p \in free : w.tabu[p] <= w.step + 1
      /\ \A p \in records : LexLess(tuple[p], w.bestScore)
  BY DEF Free
<1> HIDE DEF after, tuple, free, records
<1>9. SlotKeys(DOMAIN after, tuple)
  <2>1. \A p \in DOMAIN after : tuple[p] \in Seq(Int) /\ Len(tuple[p]) = 4
    BY <1>4, <1>5, TupleType
  <2>2. QED
    BY <1>3, <1>6, <2>1 DEF SlotKeys
<1>10. best \in free \cup records
  BY <1>1, <1>7, <1>9, ChosenIsIn
<1> HIDE DEF best
<1>11. best \in DOMAIN after /\ move.slot = best /\ move.score = after[best]
  BY <1>1, <1>7, <1>10
<1>12. Cost(w.adj, w.comp, best) = 0 /\ best \in Slots(N)
  BY <1>3, <1>11 DEF ValidMoves
<1>13. QED
  BY <1>4, <1>8, <1>10, <1>11, <1>12

-----------------------------------------------------------------------------
(***************************************************************************)
(* Perturbed graphs                                                        *)
(***************************************************************************)

\* The masks of a valid graph of the job's size.
ValidMasks(h) == BothMasks(h.adj, h.comp) /\ Violations(h.adj, h.comp) = 0

\* A random flip that keeps a graph valid does.
LEMMA NudgesValid ==
  ASSUME NEW h, ValidMasks(h), NEW x \in Nudges(h)
  PROVE  ValidMasks(x)
<1>1. CASE x = h
  BY <1>1
<1>2. CASE x # h
  <2>1. PICK p \in ValidMoves(h.adj, h.comp) : x = [adj |-> Flip(h.adj, p), comp |-> Flip(h.comp, p)]
    BY <1>2 DEF Nudges
  <2>2. p \in Slots(N) /\ Cost(h.adj, h.comp, p) = 0
    BY DEF ValidMoves
  <2>3. BothMasks(Flip(h.adj, p), Flip(h.comp, p))
    BY <2>2, BothFlipped DEF ValidMasks
  <2>4. Violations(Flip(h.adj, p), Flip(h.comp, p)) = 0
    <3>1. Violations(Flip(h.adj, p), Flip(h.comp, p)) = Violations(h.adj, h.comp) + Cost(h.adj, h.comp, p)
      BY <2>2, ViolationsFollow DEF ValidMasks
    <3>2. QED
      BY <2>2, <3>1 DEF ValidMasks
  <2>5. QED
    BY <2>1, <2>3, <2>4 DEF ValidMasks
<1>3. QED
  BY <1>1, <1>2

\* The sets of graphs after each flip of a perturbation.
Perturbing(g, m, f) == f = [i \in 0..m |-> Nudged(g, i, f[i - 1])]

\* There is a function of the graphs after each flip of a perturbation.
LEMMA PerturbingGoesOn ==
  ASSUME NEW g, NEW m \in Nat
  PROVE  \E f : Perturbing(g, m, f)
<1> DEFINE G == {x \in Nat : \E f : Perturbing(g, x, f)}
<1>1. \A a, b : Nudged(g, 0, a) = Nudged(g, 0, b)
  BY DEF Nudged
<1>2. 0 \in G
  <2> DEFINE f == [i \in 0..0 |-> Nudged(g, 0, {})]
  <2>1. f = [i \in 0..0 |-> Nudged(g, i, f[i - 1])]
    <3>1. \A i \in 0..0 : i = 0
      OBVIOUS
    <3>2. \A i \in 0..0 : Nudged(g, i, f[i - 1]) = Nudged(g, 0, {})
      BY <1>1, <3>1
    <3>3. QED
      BY <3>2
  <2>2. QED
    BY <2>1 DEF Perturbing
<1>3. ASSUME NEW x \in G
      PROVE  x + 1 \in G
  <2>1. PICK f : Perturbing(g, x, f)
    OBVIOUS
  <2>2. x \in Nat /\ \A i \in 0..x : f[i] = Nudged(g, i, f[i - 1])
    BY <2>1 DEF Perturbing
  <2> DEFINE h == [i \in 0..(x + 1) |-> IF i = x + 1 THEN Nudged(g, x + 1, f[x]) ELSE f[i]]
  <2>3. \A i \in 0..x : h[i] = f[i]
    BY <2>2
  <2>4. h[x + 1] = Nudged(g, x + 1, f[x])
    BY <2>2
  <2>40. DOMAIN h = 0..(x + 1) /\ h = [i \in 0..(x + 1) |-> h[i]]
    OBVIOUS
  <2> HIDE DEF h
  <2>5. ASSUME NEW i \in 0..(x + 1)
        PROVE  h[i] = Nudged(g, i, h[i - 1])
    <3>1. CASE i = x + 1
      <4>1. i - 1 = x /\ x \in 0..x
        BY <2>2, <3>1
      <4>2. QED
        BY <2>3, <2>4, <3>1, <4>1
    <3>2. CASE i \in 1..x
      <4>1. i - 1 \in 0..x /\ i \in 0..x
        BY <2>2, <3>2
      <4>2. h[i - 1] = f[i - 1] /\ h[i] = f[i]
        BY <2>3, <4>1
      <4>3. QED
        BY <2>2, <4>1, <4>2
    <3>3. CASE i = 0
      <4>1. h[0] = f[0] /\ f[0] = Nudged(g, 0, f[0 - 1])
        BY <2>2, <2>3
      <4>2. QED
        BY <1>1, <3>3, <4>1
    <3>4. QED
      BY <2>2, <3>1, <3>2, <3>3
  <2>6. h = [i \in 0..(x + 1) |-> Nudged(g, i, h[i - 1])]
    BY <2>40, <2>5
  <2>7. QED
    BY <2>2, <2>6 DEF Perturbing
<1>4. G = Nat
  <2>1. G \in SUBSET Nat
    OBVIOUS
  <2> HIDE DEF G
  <2>2. QED
    BY <1>2, <1>3, <2>1, NatInductive
<1>5. QED
  BY <1>4

\* A perturbation of a valid graph is valid.
LEMMA PerturbsValid ==
  ASSUME NEW g, g.n = N, ViolationsOf(g) = 0, NEW flips \in Nat, NEW h \in PerturbValid(g, flips)
  PROVE  h.n = N /\ ViolationsOf(h) = 0
<1> DEFINE after == CHOOSE f : Perturbing(g, flips, f)
<1>1. PerturbValid(g, flips) = {GraphOf(x.adj) : x \in after[flips]}
  BY Zenon DEF PerturbValid, Perturbing
<1>2. Perturbing(g, flips, after)
  BY PerturbingGoesOn, Zenon
<1> HIDE DEF after
<1>3. \A i \in 0..flips : after[i] = Nudged(g, i, after[i - 1])
  BY <1>2 DEF Perturbing
<1>4. BothMasks(FromAdj(g), FromAdj(Complement(g))) /\ Violations(FromAdj(g), FromAdj(Complement(g))) = 0
  BY BothOfGraph DEF ViolationsOf
<1> DEFINE G == {i \in Nat : i <= flips => \A x \in after[i] : ValidMasks(x)}
<1>5. 0 \in G
  <2>1. 0 \in 0..flips
    OBVIOUS
  <2>2. after[0] = {[adj |-> FromAdj(g), comp |-> FromAdj(Complement(g))]}
    BY <1>3, <2>1 DEF Nudged
  <2>3. \A x \in after[0] : ValidMasks(x)
    BY <1>4, <2>2 DEF ValidMasks
  <2>4. QED
    BY <2>3
<1>6. ASSUME NEW i \in G
      PROVE  i + 1 \in G
  <2> SUFFICES ASSUME i + 1 <= flips, NEW x \in after[i + 1]
               PROVE  ValidMasks(x)
    OBVIOUS
  <2>1. i \in Nat /\ i + 1 \in 0..flips /\ (i + 1) - 1 = i /\ i + 1 # 0 /\ \A y \in after[i] : ValidMasks(y)
    OBVIOUS
  <2>2. after[i + 1] = Nudged(g, i + 1, after[i])
    BY <1>3, <2>1
  <2>3. PICK y \in after[i] : x \in Nudges(y)
    BY <2>1, <2>2 DEF Nudged
  <2>4. QED
    BY <2>1, <2>3, NudgesValid
<1>7. G = Nat
  <2>1. G \in SUBSET Nat
    OBVIOUS
  <2> HIDE DEF G
  <2>2. QED
    BY <1>5, <1>6, <2>1, NatInductive
<1>8. PICK x \in after[flips] : h = GraphOf(x.adj)
  BY <1>1
<1>9. ValidMasks(x)
  BY <1>7
<1>10. QED
  BY <1>8, <1>9, BothBack DEF ValidMasks

-----------------------------------------------------------------------------
(***************************************************************************)
(* The inductive invariants of a search                                    *)
(***************************************************************************)

\* A sequence of anything.
IsList(s) == s \in Seq({s[i] : i \in DOMAIN s})

\* A valid graph of the job's size.
ValidGraph(g) == g.n = N /\ ViolationsOf(g) = 0

\* A job in a place of its strategy, within its iterations.
JobInv ==
  /\ job \in Jobs /\ iters \in 0..job.maxIters /\ cancelled \in BOOLEAN
  /\ pc \in IF job.strategy = "tree2" THEN {"start", "depth", "parent", "flip", "done"} ELSE {"start", "loop", "done"}
  /\ pc = "start" => phase = "idle" /\ iters = 0
  /\ Cardinality(result.carry) <= MaxCarry

\* The best graph of the walks so far, with its score: the graph they began with,
\* or a better one.
IlsTrue ==
  /\ DOMAIN ils = {"from", "left", "start", "best", "bestScore"}
  /\ ValidGraph(ils.from) /\ ValidGraph(ils.start)
  /\ ils.best = NoGraph => ils.bestScore = ScoreValid(ils.from)
  /\ ils.best # NoGraph => /\ ValidGraph(ils.best) /\ ils.bestScore = ScoreValid(ils.best)
                           /\ LexLess(ScoreValid(ils.best), ScoreValid(ils.from))

\* A polish walk stands on a valid graph whose counts are true; what it gives back is
\* valid and better than what it was given.
PolishInv ==
  /\ phase \in {"idle", "walk", "back"}
  /\ walk.step \in 0..PolishSteps /\ ils.left \in Nat
  /\ phase = "walk" =>
       /\ ScoreTrue(walk) /\ Violations(walk.adj, walk.comp) = 0
       /\ walk.tabu \in [Slots(N) -> Nat]
       /\ ValidGraph(walk.best) /\ walk.bestScore = ScoreValid(walk.best)
       /\ IlsTrue
  /\ phase = "back" /\ polished # NoGraph =>
       ValidGraph(polished) /\ LexLess(ScoreValid(polished), ScoreValid(ils.from))

\* A tabu trajectory whose violations are those of its graph.
TabuTrue ==
  /\ BothMasks(tabu.adj, tabu.comp) /\ tabu.violations = Violations(tabu.adj, tabu.comp)
  /\ tabu.until \in [Slots(N) -> Nat] /\ tabu.bestEver \in Nat

\* The tabu search, before it starts and while it runs.
TabuInv ==
  /\ tabu = NoTabu \/ TabuTrue
  /\ job.strategy = "tabu" /\ pc = "loop" => TabuTrue

\* An annealed graph whose violations are counted right.
AnnealTrue ==
  /\ BothMasks(anneal.adj, anneal.comp) /\ anneal.violations = Violations(anneal.adj, anneal.comp)
  /\ anneal.least \in Nat

\* The annealing, before it starts and while it runs.
AnnealInv ==
  /\ anneal = NoAnneal \/ AnnealTrue
  /\ job.strategy = "sa" /\ pc = "loop" => AnnealTrue

\* A beam entry with the counts of its graph.
EntryTrue(e) == BothMasks(e.adj, e.comp) /\ e = EntryOf(e.adj, e.comp)

\* A candidate has the counts of the graph that its flip of its parent makes.
CandidateTrue(c) ==
  /\ c.parent \in DOMAIN beam /\ c.slot \in Slots(N)
  /\ c.kc = CountCliques(Flip(beam[c.parent].adj, c.slot), K)
  /\ c.ei = CountCliques(Flip(beam[c.parent].comp, c.slot), Ell)

\* A beam of its width, of entries and candidates with true counts.
BeamInv ==
  /\ IsList(beam) /\ Len(beam) <= Max({1, BeamWidth})
  /\ \A i \in DOMAIN beam : EntryTrue(beam[i])
  /\ IsList(candidates) /\ \A i \in DOMAIN candidates : CandidateTrue(candidates[i])
  /\ pc = "start" => beam = <<>> /\ candidates = <<>>

\* The places of the beam search: the depth, the parent, the slots still to try.
DepthInv ==
  /\ depth \in 0..MaxDepth /\ (pc \in {"parent", "flip"} => depth # MaxDepth)
  /\ slots \in SUBSET Slots(N) /\ todo \in Seq(Slots(N))
  /\ parent \in 0..Len(beam) /\ (pc = "flip" => parent # 0)
  /\ polishes \in Nat /\ (MaxPolish > 0 => polishes <= MaxPolish)

\* Every flip that is scored adds its fingerprint to those that the job brought.
SeenInv ==
  /\ IsFiniteSet(seen)
  /\ job.strategy = "tree2" /\ pc # "start" =>
       job.carry \subseteq seen /\ iters <= Cardinality(seen \ job.carry)

\* The inductive invariant of the searches.
SearchInv == JobInv /\ PolishInv /\ TabuInv /\ AnnealInv /\ BeamInv /\ DepthInv /\ SeenInv

\* Jobs that polish without restarts.
Plain(j) == j.strategy # "tree2" \/ Restarts = 0

\* A graph that is none, or invalid, or one of those known.
NotLost(k, g) == g = NoGraph \/ ViolationsOf(g) # 0 \/ Cid(g) \in k

\* A valid graph that may be handed back.
MayReturn(j, k, g) == g = NoGraph \/ (ViolationsOf(g) = 0 /\ (Plain(j) => Cid(g) \in k))

\* What was reported is valid, was not known, and is known now; no CID twice.
ReportInv ==
  /\ IsList(reported) /\ \A i \in DOMAIN reported : ViolationsOf(reported[i]) = 0
  /\ known = job.known \cup Cids(reported) /\ Cids(reported) \cap job.known = {}
  /\ IsFiniteSet(Cids(reported)) /\ Cardinality(Cids(reported)) = Len(reported)
  /\ pc = "start" => reported = <<>>

\* Without restarts, what a walk found was reported.
WalkFound ==
  /\ job.strategy = "sa" => phase = "idle"
  /\ phase = "walk" /\ Plain(job) =>
       /\ ils.left = 0 /\ ils.start = ils.from /\ ils.best = NoGraph
       /\ walk.improved => Cid(walk.best) \in known
  /\ phase = "back" => MayReturn(job, known, polished)

\* The best graphs of a strategy: a valid one is known, an invalid one is none that is new.
BestFound == MayReturn(job, known, bestValid) /\ NotLost(known, bestInvalid.graph)

\* The best of an annealing was reported when it is valid, and is valid when one was reported.
AnnealFound ==
  job.strategy = "sa" /\ pc = "loop" =>
    /\ anneal.best # NoGraph => /\ ViolationsOf(anneal.best) = anneal.least
                                /\ anneal.least = 0 => Cid(anneal.best) \in known
    /\ reported # <<>> => anneal.least = 0

\* The result of a search that has ended.
ResultFound ==
  pc = "done" => /\ result.valid => MayReturn(job, known, result.best)
                 /\ ~result.valid => NotLost(known, result.best)

\* The inductive invariant of what the searches report and return.
HonestInv == ReportInv /\ WalkFound /\ BestFound /\ AnnealFound /\ ResultFound

-----------------------------------------------------------------------------
(***************************************************************************)
(* Sequences, initial states and frames                                    *)
(***************************************************************************)

\* The places of a sequence.
LEMMA ListIs ==
  ASSUME NEW s, IsList(s)
  PROVE  Len(s) \in Nat /\ DOMAIN s = 1..Len(s)
BY DEF IsList

\* A sequence over a set is a sequence.
LEMMA ListOf ==
  ASSUME NEW S, NEW s \in Seq(S)
  PROVE  IsList(s)
<1>1. Len(s) \in Nat /\ s \in [1..Len(s) -> {s[i] : i \in DOMAIN s}]
  OBVIOUS
<1>2. s \in Seq({s[i] : i \in DOMAIN s})
  BY <1>1, IsASeq
<1>3. QED
  BY <1>2 DEF IsList

\* A function from the first numbers is a sequence.
LEMMA FunctionList ==
  ASSUME NEW m \in Nat, NEW S, NEW f \in [1..m -> S]
  PROVE  IsList(f) /\ Len(f) = m /\ f \in Seq(S)
<1>1. f \in Seq(S) /\ Len(f) = m
  BY IsASeq
<1>2. QED
  BY <1>1, ListOf

\* What a longer sequence holds.
LEMMA AppendList ==
  ASSUME NEW s, NEW e, IsList(s)
  PROVE  /\ IsList(Append(s, e)) /\ Len(Append(s, e)) = Len(s) + 1
         /\ \A i \in DOMAIN Append(s, e) : (i \in DOMAIN s /\ Append(s, e)[i] = s[i]) \/ Append(s, e)[i] = e
         /\ \A i \in DOMAIN s : i \in DOMAIN Append(s, e) /\ Append(s, e)[i] = s[i]
         /\ Len(s) + 1 \in DOMAIN Append(s, e) /\ Append(s, e)[Len(s) + 1] = e
<1> DEFINE S == {s[i] : i \in DOMAIN s} \cup {e}
<1>1. s \in Seq({s[i] : i \in DOMAIN s})
  BY DEF IsList
<1>2. s \in Seq(S) /\ e \in S
  BY <1>1, SeqMonotonic
<1> HIDE DEF S
<1>3. Append(s, e) \in Seq(S) /\ Len(Append(s, e)) = Len(s) + 1
  BY <1>2
<1>4. IsList(Append(s, e))
  BY <1>3, ListOf
<1>5. \A i \in 1..(Len(s) + 1) : Append(s, e)[i] = IF i = Len(s) + 1 THEN e ELSE s[i]
  BY <1>2
<1>6. DOMAIN s = 1..Len(s) /\ DOMAIN Append(s, e) = 1..(Len(s) + 1) /\ Len(s) \in Nat
  BY <1>2, <1>3
<1>7. QED
  BY <1>3, <1>4, <1>5, <1>6

\* The parameters of the strategies and the jobs are of the types they have in the code.
LEMMA Parameters ==
  /\ BeamWidth \in Nat /\ MaxDepth \in Nat /\ Restarts \in Nat /\ MaxPolish \in Nat /\ ScoreBias \in Nat
  /\ MaxCarry \in Nat /\ PolishSteps \in Nat /\ PolishTenure \in Nat /\ PerturbFlips \in Nat /\ TabuTenure \in Nat
  /\ \A j \in Jobs : j.maxIters \in Nat /\ IsFiniteSet(j.carry) /\ j.seed.n = N
                     /\ j.strategy \in {"tabu", "tree2", "sa"}
<1>1. {BeamWidth, MaxDepth, ScoreBias, Restarts, MaxPolish, MaxCarry} \subseteq Nat
  BY Tree2Assumption
<1>2. {PolishSteps, PolishTenure, PerturbFlips} \subseteq Nat
  BY PolishAssumption
<1>3. \A x \in AllGraphs(N) : x.n = N
  BY DEF AllGraphs
<1>4. QED
  BY <1>1, <1>2, <1>3, JobsAssumption, TabuAssumption

\* No fingerprint carried is within the limit.
LEMMA EmptyCarry == Cardinality({}) <= MaxCarry
BY FS_EmptySet, Parameters

-----------------------------------------------------------------------------
(* Beginning *)

\* A search begins in the invariant.
LEMMA InitSearch == Init => SearchInv
<1> SUFFICES ASSUME Init
             PROVE  SearchInv
  OBVIOUS
<1>1. JobInv
  <2>1. result.carry = {}
    BY DEF Init, NoResult
  <2>2. job \in Jobs /\ iters = 0 /\ cancelled = FALSE /\ pc = "start" /\ phase = "idle"
    BY Zenon DEF Init
  <2>3. iters \in 0..job.maxIters
    BY <2>2, Parameters
  <2>4. Cardinality(result.carry) <= MaxCarry
    BY <2>1, EmptyCarry
  <2>5. cancelled \in BOOLEAN
    BY <2>2, Zenon
  <2>6. QED
    BY <2>2, <2>3, <2>4, <2>5 DEF JobInv
<1>2. PolishInv
  BY Parameters DEF Init, PolishInv, NoWalk, NoIls
<1>3. TabuInv /\ AnnealInv
  BY DEF Init, TabuInv, AnnealInv
<1>4. /\ beam = <<>> /\ slots = {} /\ todo = <<>> /\ candidates = <<>> /\ seen = {} /\ pc = "start"
      /\ depth = 0 /\ parent = 0 /\ polishes = 0
  BY DEF Init, TreeInit
<1>5. /\ <<>> \in Seq({}) /\ <<>> \in Seq(Slots(N)) /\ Len(<<>>) = 0 /\ DOMAIN <<>> = {} /\ IsFiniteSet({})
  BY FS_EmptySet
<1>6. IsList(<<>>)
  BY <1>5, ListOf
<1>7. Max({1, BeamWidth}) \in Int /\ Max({1, BeamWidth}) >= 1
  BY MaxOfTwo, Parameters
<1>8. BeamInv
  BY <1>4, <1>5, <1>6, <1>7 DEF BeamInv
<1>9. DepthInv
  BY <1>4, <1>5, Parameters DEF DepthInv
<1>10. SeenInv
  BY <1>4, <1>5 DEF SeenInv
<1>11. QED
  BY <1>1, <1>2, <1>3, <1>8, <1>9, <1>10 DEF SearchInv

-----------------------------------------------------------------------------
(* What a step leaves alone *)

\* Steps of the other strategies leave the beam search alone.
LEMMA FrameTree ==
  ASSUME BeamInv, DepthInv, UNCHANGED treeVars, pc' = pc \/ pc' \in {"loop", "done"}
  PROVE  BeamInv' /\ DepthInv'
<1>1. UNCHANGED <<beam, seen, depth, slots, parent, todo, candidates, polishes>>
  BY DEF treeVars
<1>2. \A x : CandidateTrue(x)' <=> CandidateTrue(x)
  BY <1>1 DEF CandidateTrue
<1>3. BeamInv'
  BY <1>1, <1>2 DEF BeamInv
<1>4. DepthInv'
  BY <1>1 DEF DepthInv
<1>5. QED
  BY <1>3, <1>4

\* Steps that score no flip of the beam search keep the fingerprints.
LEMMA FrameSeen ==
  ASSUME SeenInv, UNCHANGED <<job, seen>>,
         UNCHANGED <<pc, iters>> \/ job.strategy # "tree2" \/ (pc # "start" /\ iters' = iters)
  PROVE  SeenInv'
BY DEF SeenInv

\* Steps that leave the polish walk alone.
LEMMA FramePolish ==
  ASSUME PolishInv, UNCHANGED <<walk, ils, polished>>, phase' \in {phase, "idle"}
  PROVE  PolishInv'
BY DEF PolishInv, IlsTrue, ScoreTrue

\* Steps that leave the tabu trajectory alone.
LEMMA FrameTabu ==
  ASSUME TabuInv, UNCHANGED <<job, tabu>>, pc' = pc \/ pc' = "done" \/ job.strategy # "tabu"
  PROVE  TabuInv'
BY DEF TabuInv, TabuTrue

\* Steps that leave the annealed graph alone.
LEMMA FrameAnneal ==
  ASSUME AnnealInv, UNCHANGED <<job, anneal>>, pc' = pc \/ pc' = "done" \/ job.strategy # "sa"
  PROVE  AnnealInv'
BY DEF AnnealInv, AnnealTrue

\* Steps that may polish a graph leave the job a place in its strategy.
LEMMA FrameJob ==
  ASSUME JobInv, UNCHANGED <<job, iters, cancelled, result>>, pc' = pc, pc # "start"
  PROVE  JobInv'
BY DEF JobInv

\* One more iteration.
LEMMA IterateJob ==
  ASSUME JobInv, UNCHANGED <<job, pc, cancelled, result>>, pc # "start", iters < job.maxIters, iters' = iters + 1
  PROVE  JobInv'
<1>1. job.maxIters \in Nat
  BY Parameters DEF JobInv
<1>2. QED
  BY <1>1 DEF JobInv

\* The end of a search.
LEMMA FinishJob ==
  ASSUME JobInv, UNCHANGED <<job, iters, cancelled>>, pc' = "done", Cardinality(result'.carry) <= MaxCarry
  PROVE  JobInv'
BY DEF JobInv

-----------------------------------------------------------------------------
(***************************************************************************)
(* Polishing keeps the invariant                                           *)
(***************************************************************************)

\* The score of a graph is four numbers to compare.
LEMMA ScoreValidType ==
  ASSUME NEW g, g.n = N
  PROVE  ScoreValid(g) \in Seq(Int) /\ Len(ScoreValid(g)) = 4
BY BothOfGraph, TupleType DEF ScoreValid

\* A valid graph is a graph.
LEMMA NoneIsNoGraph == \A g : ValidGraph(g) => g # NoGraph
BY SizeIs DEF ValidGraph, NoGraph, NewGraph

\* A walk from a valid graph.
LEMMA WalkFromTrue ==
  ASSUME NEW g, ValidGraph(g), NEW w, w = WalkFrom(g)
  PROVE  /\ ScoreTrue(w) /\ Violations(w.adj, w.comp) = 0 /\ w.tabu \in [Slots(N) -> Nat]
         /\ w.step = 0 /\ w.best = g /\ w.bestScore = ScoreValid(g) /\ w.improved = FALSE
<1>1. /\ w.adj = FromAdj(g) /\ w.comp = FromAdj(Complement(g))
      /\ w.score = Counts(FromAdj(g), FromAdj(Complement(g)))
      /\ w.step = 0 /\ w.best = g /\ w.improved = FALSE
      /\ w.bestScore = ScoreTuple(Counts(FromAdj(g), FromAdj(Complement(g))))
      /\ w.tabu = [p \in Slots(N) |-> 0]
  BY DEF WalkFrom
<1>2. w.bestScore = ScoreValid(g)
  BY <1>1 DEF ScoreValid
<1>3. Violations(w.adj, w.comp) = 0
  BY <1>1 DEF ValidGraph, ViolationsOf
<1>4. ScoreTrue(w)
  BY <1>1, BothOfGraph DEF ScoreTrue, ValidGraph
<1>5. QED
  BY <1>1, <1>2, <1>3, <1>4

\* polish_valid_graph and ils_polish begin with a walk from a valid graph.
LEMMA BeginPolish ==
  ASSUME NEW g, ValidGraph(g), NEW r \in Nat, PolishBegin(g, r)
  PROVE  PolishInv'
<1>1. /\ phase' = "walk" /\ walk' = WalkFrom(g) /\ polished' = NoGraph
      /\ DOMAIN ils' = {"from", "left", "start", "best", "bestScore"}
      /\ ils'.from = g /\ ils'.left = r /\ ils'.start = g /\ ils'.best = NoGraph /\ ils'.bestScore = ScoreValid(g)
  BY DEF PolishBegin
<1>2. /\ ScoreTrue(walk') /\ Violations(walk'.adj, walk'.comp) = 0 /\ walk'.tabu \in [Slots(N) -> Nat]
      /\ walk'.step = 0 /\ walk'.best = g /\ walk'.bestScore = ScoreValid(g)
  BY <1>1, WalkFromTrue
<1>3. IlsTrue'
  BY <1>1 DEF IlsTrue, ValidGraph
<1>4. (phase = "walk")' /\ ~(phase = "back")' /\ walk'.step \in 0..PolishSteps /\ ils'.left \in Nat
  BY <1>1, <1>2, Parameters
<1>5. ScoreTrue(walk)' /\ ValidGraph(walk.best)'
  BY <1>2 DEF ScoreTrue, ValidGraph
<1>6. QED
  BY <1>1, <1>2, <1>3, <1>4, <1>5 DEF PolishInv

\* A step of a walk flips a slot that keeps its graph valid, and that is free
\* or sets a record.
LEMMA StepIs ==
  ASSUME PolishInv, PolishStep
  PROVE  \E p \in Slots(N) :
           /\ Cost(walk.adj, walk.comp, p) = 0
           /\ walk'.adj = Flip(walk.adj, p) /\ walk'.comp = Flip(walk.comp, p)
           /\ walk'.score = Counts(walk'.adj, walk'.comp) /\ walk'.step = walk.step + 1
           /\ walk'.tabu = [walk.tabu EXCEPT ![p] = walk.step + 1 + PolishTenure]
           /\ LexLess(ScoreTuple(walk'.score), walk.bestScore) =>
                /\ walk'.best = GraphOf(walk'.adj) /\ walk'.bestScore = ScoreTuple(walk'.score)
                /\ walk'.improved = TRUE /\ Discover(GraphOf(walk'.adj))
           /\ ~LexLess(ScoreTuple(walk'.score), walk.bestScore) =>
                /\ walk'.best = walk.best /\ walk'.bestScore = walk.bestScore
                /\ walk'.improved = (walk.improved \/ FALSE)
                /\ UNCHANGED <<known, reported>> \/ Discover(GraphOf(walk'.adj))
           /\ walk.tabu[p] <= walk.step + 1 \/ LexLess(ScoreTuple(walk'.score), walk.bestScore)
<1>1. PICK move \in NextMove(walk) :
        LET s == walk.step + 1
            masks == Flip(walk.adj, move.slot)
            record == LexLess(ScoreTuple(move.score), walk.bestScore)
        IN  /\ walk' = [adj |-> masks, comp |-> Flip(walk.comp, move.slot),
                        score |-> move.score, step |-> s,
                        best |-> IF record THEN GraphOf(masks) ELSE walk.best,
                        bestScore |-> IF record THEN ScoreTuple(move.score) ELSE walk.bestScore,
                        improved |-> walk.improved \/ record,
                        tabu |-> [walk.tabu EXCEPT ![move.slot] = s + PolishTenure]]
            /\ IF record \/ s % ReportEvery = 0 THEN Discover(GraphOf(masks))
               ELSE UNCHANGED <<known, reported>>
  BY Zenon DEF PolishStep
<1> DEFINE p == move.slot
           record == LexLess(ScoreTuple(move.score), walk.bestScore)
<1>2. ScoreTrue(walk)
  BY DEF PolishStep, PolishInv
<1>3. /\ p \in Slots(N) /\ Cost(walk.adj, walk.comp, p) = 0
      /\ move.score = Counts(Flip(walk.adj, p), Flip(walk.comp, p))
      /\ walk.tabu[p] <= walk.step + 1 \/ record
  BY <1>2, MovesAre
<1>4. /\ walk'.adj = Flip(walk.adj, p) /\ walk'.comp = Flip(walk.comp, p) /\ walk'.score = move.score
      /\ walk'.step = walk.step + 1
      /\ walk'.best = (IF record THEN GraphOf(Flip(walk.adj, p)) ELSE walk.best)
      /\ walk'.bestScore = (IF record THEN ScoreTuple(move.score) ELSE walk.bestScore)
      /\ walk'.improved = (walk.improved \/ record)
      /\ walk'.tabu = [walk.tabu EXCEPT ![p] = walk.step + 1 + PolishTenure]
  BY <1>1
<1>5. /\ record => Discover(GraphOf(Flip(walk.adj, p)))
      /\ UNCHANGED <<known, reported>> \/ Discover(GraphOf(Flip(walk.adj, p)))
  BY <1>1
<1> HIDE DEF record, p
<1>6. QED
  BY <1>3, <1>4, <1>5 DEF record

\* A step of the walk keeps the graph valid and its counts true.
LEMMA StepPolish ==
  ASSUME PolishInv, PolishStep
  PROVE  PolishInv'
<1>1. PICK p \in Slots(N) :
        /\ Cost(walk.adj, walk.comp, p) = 0
        /\ walk'.adj = Flip(walk.adj, p) /\ walk'.comp = Flip(walk.comp, p)
        /\ walk'.score = Counts(walk'.adj, walk'.comp) /\ walk'.step = walk.step + 1
        /\ walk'.tabu = [walk.tabu EXCEPT ![p] = walk.step + 1 + PolishTenure]
        /\ LexLess(ScoreTuple(walk'.score), walk.bestScore) =>
             walk'.best = GraphOf(walk'.adj) /\ walk'.bestScore = ScoreTuple(walk'.score)
        /\ ~LexLess(ScoreTuple(walk'.score), walk.bestScore) =>
             walk'.best = walk.best /\ walk'.bestScore = walk.bestScore
  BY StepIs, Zenon
<1>2. /\ phase = "walk" /\ phase' = "walk" /\ UNCHANGED <<ils, polished>> /\ walk.step < PolishSteps
      /\ ScoreTrue(walk) /\ Violations(walk.adj, walk.comp) = 0 /\ walk.tabu \in [Slots(N) -> Nat]
      /\ ValidGraph(walk.best) /\ walk.bestScore = ScoreValid(walk.best) /\ IlsTrue
      /\ walk.step \in 0..PolishSteps /\ ils.left \in Nat
  BY DEF PolishStep, PolishInv
<1>3. BothMasks(walk.adj, walk.comp)
  BY <1>2 DEF ScoreTrue
<1>4. BothMasks(walk'.adj, walk'.comp)
  BY <1>1, <1>3, BothFlipped
<1>5. Violations(walk'.adj, walk'.comp) = 0
  <2>1. Violations(Flip(walk.adj, p), Flip(walk.comp, p)) = Violations(walk.adj, walk.comp) + Cost(walk.adj, walk.comp, p)
    BY <1>3, ViolationsFollow
  <2>2. QED
    BY <1>1, <1>2, <2>1
<1>6. walk'.step \in 0..PolishSteps /\ walk'.tabu \in [Slots(N) -> Nat]
  BY <1>1, <1>2, Parameters
<1>7. ValidGraph(walk'.best) /\ walk'.bestScore = ScoreValid(walk'.best)
  <2>1. /\ GraphOf(walk'.adj).n = N /\ ViolationsOf(GraphOf(walk'.adj)) = 0
        /\ ScoreValid(GraphOf(walk'.adj)) = ScoreTuple(walk'.score)
    BY <1>1, <1>4, <1>5, BothBack
  <2>2. QED
    BY <1>1, <1>2, <2>1 DEF ValidGraph
<1>8. IlsTrue' /\ ScoreTrue(walk)' /\ ValidGraph(walk.best)'
  BY <1>1, <1>2, <1>4, <1>7 DEF IlsTrue, ScoreTrue, ValidGraph
<1>9. QED
  BY <1>2, <1>5, <1>6, <1>7, <1>8 DEF PolishInv

\* The best of the walks so far when one of them ends.
LEMMA OptimumKept ==
  ASSUME PolishInv, phase = "walk",
         NEW optimum, optimum = (IF walk.improved THEN walk.best ELSE ils.start),
         NEW best, best = (IF LexLess(ScoreValid(optimum), ils.bestScore) THEN optimum ELSE ils.best)
  PROVE  /\ ValidGraph(optimum)
         /\ LexLess(ScoreValid(optimum), ils.bestScore) =>
              /\ best = optimum /\ best # NoGraph /\ LexLess(ScoreValid(best), ScoreValid(ils.from))
         /\ best # NoGraph => ValidGraph(best) /\ LexLess(ScoreValid(best), ScoreValid(ils.from))
<1>1. ValidGraph(walk.best) /\ IlsTrue
  BY DEF PolishInv
<1>2. ValidGraph(optimum) /\ ValidGraph(ils.from)
  BY <1>1 DEF IlsTrue
<1>3. CASE LexLess(ScoreValid(optimum), ils.bestScore)
  <2>1. CASE ils.best = NoGraph
    BY <1>1, <1>2, <1>3, <2>1, NoneIsNoGraph DEF IlsTrue
  <2>2. CASE ils.best # NoGraph
    <3>1. /\ ValidGraph(ils.best) /\ LexLess(ScoreValid(optimum), ScoreValid(ils.best))
          /\ LexLess(ScoreValid(ils.best), ScoreValid(ils.from))
      BY <1>1, <1>3, <2>2 DEF IlsTrue
    <3>2. \A x \in {optimum, ils.best, ils.from} : ScoreValid(x) \in Seq(Int) /\ Len(ScoreValid(x)) = 4
      BY <1>2, <3>1, ScoreValidType DEF ValidGraph
    <3>3. LexLess(ScoreValid(optimum), ScoreValid(ils.from))
      BY <3>1, <3>2, LexTransitive
    <3>4. QED
      BY <1>2, <1>3, <3>3, NoneIsNoGraph
  <2>3. QED
    BY <2>1, <2>2
<1>4. CASE ~LexLess(ScoreValid(optimum), ils.bestScore)
  BY <1>1, <1>2, <1>4 DEF IlsTrue
<1>5. QED
  BY <1>3, <1>4

\* A walk that ends is kept if it gained; another begins from a valid graph.
LEMMA EndWalkPolish ==
  ASSUME PolishInv, PolishEndWalk
  PROVE  PolishInv'
<1> DEFINE optimum == IF walk.improved THEN walk.best ELSE ils.start
           better == LexLess(ScoreValid(optimum), ils.bestScore)
           best == IF better THEN optimum ELSE ils.best
<1>1. /\ phase = "walk"
      /\ ils.left = 0 => phase' = "back" /\ polished' = best /\ walk' = NoWalk /\ UNCHANGED ils
      /\ ils.left # 0 => \E g \in PerturbValid(optimum, PerturbFlips) :
           /\ walk' = WalkFrom(g)
           /\ ils' = Again(g, best, IF better THEN ScoreValid(optimum) ELSE ils.bestScore)
           /\ UNCHANGED <<phase, polished>>
  BY DEF PolishEndWalk
<1>2. /\ ValidGraph(optimum)
      /\ better => best = optimum /\ best # NoGraph
      /\ best # NoGraph => ValidGraph(best) /\ LexLess(ScoreValid(best), ScoreValid(ils.from))
  BY <1>1, OptimumKept, Zenon
<1>3. ~better => best = ils.best
  OBVIOUS
<1>4. IlsTrue /\ ils.left \in Nat
  BY <1>1 DEF PolishInv
<1> HIDE DEF optimum, better, best
<1>5. CASE ils.left = 0
  <2>1. phase' = "back" /\ polished' = best /\ walk'.step = 0 /\ ils' = ils
    BY <1>1, <1>5 DEF NoWalk
  <2>2. polished' # NoGraph => ValidGraph(polished') /\ LexLess(ScoreValid(polished'), ScoreValid(ils'.from))
    BY <1>2, <2>1
  <2>3. (phase = "back")' /\ ~(phase = "walk")' /\ walk'.step \in 0..PolishSteps /\ ils'.left \in Nat
    BY <1>4, <2>1, Parameters
  <2>4. (polished # NoGraph)' => ValidGraph(polished)' /\ LexLess(ScoreValid(polished), ScoreValid(ils.from))'
    BY <2>2 DEF ValidGraph
  <2>5. QED
    BY <2>3, <2>4 DEF PolishInv
<1>6. CASE ils.left # 0
  <2>1. PICK g \in PerturbValid(optimum, PerturbFlips) :
          /\ walk' = WalkFrom(g)
          /\ ils' = Again(g, best, IF better THEN ScoreValid(optimum) ELSE ils.bestScore)
          /\ UNCHANGED <<phase, polished>>
    BY <1>1, <1>6
  <2>2. ValidGraph(g)
    BY <1>2, Parameters, PerturbsValid DEF ValidGraph
  <2>3. /\ ScoreTrue(walk') /\ Violations(walk'.adj, walk'.comp) = 0 /\ walk'.tabu \in [Slots(N) -> Nat]
        /\ walk'.step = 0 /\ walk'.best = g /\ walk'.bestScore = ScoreValid(g)
    BY <2>1, <2>2, WalkFromTrue
  <2>4. /\ ils'.left = ils.left - 1 /\ ils'.start = g /\ ils'.best = best /\ ils'.from = ils.from
        /\ ils'.bestScore = IF better THEN ScoreValid(optimum) ELSE ils.bestScore
        /\ DOMAIN ils' = DOMAIN ils
    <3>1. {"left", "start", "best", "bestScore", "from"} \subseteq DOMAIN ils
      BY <1>4 DEF IlsTrue
    <3>2. QED
      BY <2>1, <3>1 DEF Again
  <2>5. IlsTrue'
    <3>1. ils'.best = NoGraph => ils'.bestScore = ScoreValid(ils'.from)
      BY <1>2, <1>3, <1>4, <2>4 DEF IlsTrue
    <3>2. ils'.best # NoGraph => /\ ValidGraph(ils'.best) /\ ils'.bestScore = ScoreValid(ils'.best)
                                 /\ LexLess(ScoreValid(ils'.best), ScoreValid(ils'.from))
      BY <1>2, <1>3, <1>4, <2>4 DEF IlsTrue
    <3>3. /\ ValidGraph(ils'.from) /\ ValidGraph(ils'.start)
          /\ DOMAIN ils' = {"from", "left", "start", "best", "bestScore"}
      BY <1>4, <2>2, <2>4 DEF IlsTrue
    <3>4. QED
      BY <3>1, <3>2, <3>3 DEF IlsTrue, ValidGraph
  <2>6. ScoreTrue(walk)' /\ ValidGraph(walk.best)'
    BY <2>2, <2>3 DEF ScoreTrue, ValidGraph
  <2>7. (phase = "walk")' /\ ~(phase = "back")' /\ walk'.step \in 0..PolishSteps /\ ils'.left \in Nat
    BY <1>1, <1>4, <1>6, <2>1, <2>3, <2>4, Parameters
  <2>8. QED
    BY <2>3, <2>5, <2>6, <2>7 DEF PolishInv
<1>7. QED
  BY <1>5, <1>6

\* The strategy takes the polished graph.
LEMMA ReturnPolish ==
  ASSUME PolishInv, PolishReturn
  PROVE  PolishInv'
<1>1. phase' = "idle" /\ ils'.left = 0 /\ walk' = walk
  BY DEF PolishReturn, NoIls
<1>2. ~(phase = "walk")' /\ ~(phase = "back")' /\ (phase = "idle")' /\ ils'.left \in Nat
  BY <1>1
<1>3. QED
  BY <1>1, <1>2 DEF PolishInv

-----------------------------------------------------------------------------
(***************************************************************************)
(* Tabu search and annealing keep it                                       *)
(***************************************************************************)

\* The tabu search starts with true counts.
LEMMA StartTabu ==
  ASSUME SearchInv, TabuStart, UNCHANGED <<treeVars, anneal>>
  PROVE  SearchInv'
<1>1. /\ job.strategy = "tabu" /\ pc = "start" /\ pc' = "loop" /\ UNCHANGED <<job, cancelled, iters, result>>
      /\ tabu' = [adj |-> FromAdj(job.seed), comp |-> FromAdj(Complement(job.seed)),
                  violations |-> Violations(FromAdj(job.seed), FromAdj(Complement(job.seed))),
                  until |-> [p \in Slots(N) |-> 0],
                  bestEver |-> Violations(FromAdj(job.seed), FromAdj(Complement(job.seed)))]
      /\ NoPolish \/ (PolishBegin(job.seed, 0) /\ ~(Violations(FromAdj(job.seed), FromAdj(Complement(job.seed))) > 0))
  BY DEF TabuStart
<1>2. job.seed.n = N /\ BothMasks(FromAdj(job.seed), FromAdj(Complement(job.seed)))
  BY Parameters, BothOfGraph DEF SearchInv, JobInv
<1>3. Violations(FromAdj(job.seed), FromAdj(Complement(job.seed))) \in Nat
  BY <1>2, ViolationsFollow
<1>4. JobInv'
  BY <1>1 DEF SearchInv, JobInv
<1>5. PolishInv'
  <2>1. CASE NoPolish
    BY <2>1, FramePolish DEF NoPolish, SearchInv
  <2>2. CASE ~NoPolish
    <3>1. ValidGraph(job.seed) /\ PolishBegin(job.seed, 0) /\ 0 \in Nat
      BY <1>1, <1>2, <1>3, <2>2 DEF ValidGraph, ViolationsOf
    <3>2. QED
      BY <3>1, BeginPolish
  <2>3. QED
    BY <2>1, <2>2
<1>6. TabuInv'
  <2>1. TabuTrue'
    BY <1>1, <1>2, <1>3 DEF TabuTrue
  <2>2. QED
    BY <2>1 DEF TabuInv
<1>7. AnnealInv' /\ BeamInv' /\ DepthInv' /\ SeenInv'
  BY <1>1, FrameAnneal, FrameTree, FrameSeen DEF SearchInv, treeVars
<1>8. QED
  BY <1>4, <1>5, <1>6, <1>7 DEF SearchInv

\* An iteration flips one slot, and counts right; the slot is free, or sets a
\* record, or every slot is tabu.
LEMMA IterationIs ==
  ASSUME SearchInv, TabuIterate
  PROVE  \E p \in Slots(N) :
           /\ TabuMove(p, Violations(tabu.adj, tabu.comp), Cost(tabu.adj, tabu.comp, p))
           /\ \/ tabu.until[p] <= iters + 1
              \/ Max({0, Violations(tabu.adj, tabu.comp) + Cost(tabu.adj, tabu.comp, p)}) < tabu.bestEver
              \/ job.focused
              \/ \A q \in Slots(N) : ~(tabu.until[q] <= iters + 1)
<1> DEFINE i == iters + 1
           from == IF i % RecountEvery = 0 THEN Violations(tabu.adj, tabu.comp) ELSE tabu.violations
           tried == IF job.focused /\ from > 0 THEN FocusedSlots(tabu.adj, tabu.comp) ELSE Slots(N)
           delta == [p \in tried |-> <<Cost(tabu.adj, tabu.comp, p)>>]
           free == Free(tabu.until, tried, i)
           records == Aspiring(delta, from)
           best == Chosen(free, records, delta)
<1>1. IF free \cup records # {}
      THEN TabuMove(best, from, delta[best][1])
      ELSE \E p \in Slots(N) : TabuMove(p, from, Cost(tabu.adj, tabu.comp, p))
  BY Zenon DEF TabuIterate
<1>2. TabuTrue
  BY DEF TabuIterate, SearchInv, TabuInv
<1>3. from = Violations(tabu.adj, tabu.comp)
  BY <1>2 DEF TabuTrue
<1>4. BothMasks(tabu.adj, tabu.comp)
  BY <1>2 DEF TabuTrue
<1>5. tried \in SUBSET Slots(N) /\ (~job.focused => tried = Slots(N))
  BY <1>4, FocusedIn
<1>6. \A p \in Slots(N) : Cost(tabu.adj, tabu.comp, p) \in Int
  BY <1>4, ViolationsFollow
<1>7. /\ DOMAIN delta = tried
      /\ \A p \in tried : /\ delta[p] = <<Cost(tabu.adj, tabu.comp, p)>>
                          /\ delta[p][1] = Cost(tabu.adj, tabu.comp, p)
      /\ delta = [p \in tried |-> delta[p]]
  OBVIOUS
<1>8. /\ free \in SUBSET tried /\ \A p \in tried : p \in free <=> tabu.until[p] <= i
      /\ records \in SUBSET tried
      /\ \A p \in records : Max({0, from + delta[p][1]}) < tabu.bestEver
  BY <1>7 DEF Free, Aspiring
<1> HIDE DEF from, tried, delta, free, records
<1>9. SlotKeys(tried, delta)
  <2>1. \A z \in Int : <<z>> \in Seq(Int) /\ Len(<<z>>) = 1
    OBVIOUS
  <2>2. \A p \in tried : delta[p] \in Seq(Int) /\ Len(delta[p]) = 1
    BY <1>5, <1>6, <1>7, <2>1
  <2>3. QED
    BY <1>5, <1>7, <2>2 DEF SlotKeys
<1>10. CASE free \cup records # {}
  <2>1. best \in free \cup records
    BY <1>8, <1>9, <1>10, ChosenIsIn
  <2>2. TabuMove(best, from, delta[best][1])
    BY <1>1, <1>10
  <2> HIDE DEF best
  <2>3. best \in tried /\ best \in Slots(N) /\ delta[best][1] = Cost(tabu.adj, tabu.comp, best)
    BY <1>5, <1>7, <1>8, <2>1
  <2>4. TabuMove(best, Violations(tabu.adj, tabu.comp), Cost(tabu.adj, tabu.comp, best))
    BY <1>3, <2>2, <2>3
  <2>5. \/ tabu.until[best] <= iters + 1
        \/ Max({0, Violations(tabu.adj, tabu.comp) + Cost(tabu.adj, tabu.comp, best)}) < tabu.bestEver
    BY <1>3, <1>8, <2>1, <2>3
  <2>6. QED
    BY <2>3, <2>4, <2>5
<1>11. CASE free \cup records = {}
  <2>1. PICK p \in Slots(N) : TabuMove(p, from, Cost(tabu.adj, tabu.comp, p))
    BY <1>1, <1>11
  <2>2. job.focused \/ \A q \in Slots(N) : ~(tabu.until[q] <= iters + 1)
    BY <1>5, <1>8, <1>11
  <2>3. QED
    BY <1>3, <2>1, <2>2
<1>12. QED
  BY <1>10, <1>11

\* A flip of the tabu search that leaves so many violations.
Moved(p, left) ==
  /\ left = Violations(Flip(tabu.adj, p), Flip(tabu.comp, p)) /\ left \in Nat
  /\ BothMasks(tabu'.adj, tabu'.comp)
  /\ tabu'.adj = Flip(tabu.adj, p) /\ tabu'.comp = Flip(tabu.comp, p) /\ tabu'.violations = left
  /\ tabu'.until = [tabu.until EXCEPT ![p] = iters + 1 + TabuTenure]
  /\ tabu'.bestEver = Min({tabu.bestEver, left})
  /\ GraphOf(tabu'.adj).n = N /\ ViolationsOf(GraphOf(tabu'.adj)) = left
  /\ Max({0, Violations(tabu.adj, tabu.comp) + Cost(tabu.adj, tabu.comp, p)}) = left
  /\ bestInvalid' = IF left > 0 /\ left < bestInvalid.violations
                    THEN [graph |-> GraphOf(tabu'.adj), violations |-> left] ELSE bestInvalid
  /\ IF left = 0
     THEN /\ Discover(GraphOf(tabu'.adj))
          /\ bestValid' = IF IsNovel(GraphOf(tabu'.adj)) THEN GraphOf(tabu'.adj) ELSE bestValid
          /\ IF PolishSteps > 0 THEN PolishBegin(GraphOf(tabu'.adj), 0) ELSE NoPolish
     ELSE UNCHANGED <<known, reported, bestValid>> /\ NoPolish
  /\ iters' = iters + 1

\* A flip of the tabu search leaves the violations that its cost says.
LEMMA MoveIs ==
  ASSUME BothMasks(tabu.adj, tabu.comp), NEW p \in Slots(N),
         TabuMove(p, Violations(tabu.adj, tabu.comp), Cost(tabu.adj, tabu.comp, p)),
         NEW left, left = Violations(Flip(tabu.adj, p), Flip(tabu.comp, p))
  PROVE  Moved(p, left)
<1> DEFINE predicted == Max({0, Violations(tabu.adj, tabu.comp) + Cost(tabu.adj, tabu.comp, p)})
<1>1. BothMasks(Flip(tabu.adj, p), Flip(tabu.comp, p))
  BY BothFlipped
<1>2. left \in Nat /\ left = Violations(tabu.adj, tabu.comp) + Cost(tabu.adj, tabu.comp, p)
  BY ViolationsFollow
<1>3. predicted = left
  BY <1>2, MaxWithNone
<1>4. /\ GraphOf(Flip(tabu.adj, p)).n = N /\ ViolationsOf(GraphOf(Flip(tabu.adj, p))) = left
  BY <1>1, BothBack
<1>5. /\ tabu' = [adj |-> Flip(tabu.adj, p), comp |-> Flip(tabu.comp, p),
                  violations |-> IF predicted = 0 THEN left ELSE predicted,
                  until |-> [tabu.until EXCEPT ![p] = iters + 1 + TabuTenure],
                  bestEver |-> Min({tabu.bestEver, predicted})]
      /\ bestInvalid' = IF predicted > 0 /\ predicted < bestInvalid.violations
                        THEN [graph |-> GraphOf(Flip(tabu.adj, p)), violations |-> predicted] ELSE bestInvalid
      /\ IF predicted = 0 /\ left = 0
         THEN /\ Discover(GraphOf(Flip(tabu.adj, p)))
              /\ bestValid' = IF IsNovel(GraphOf(Flip(tabu.adj, p))) THEN GraphOf(Flip(tabu.adj, p)) ELSE bestValid
              /\ IF PolishSteps > 0 THEN PolishBegin(GraphOf(Flip(tabu.adj, p)), 0) ELSE NoPolish
         ELSE UNCHANGED <<known, reported, bestValid>> /\ NoPolish
      /\ iters' = iters + 1
  BY Zenon DEF TabuMove
<1> HIDE DEF predicted
<1>6. /\ tabu' = [adj |-> Flip(tabu.adj, p), comp |-> Flip(tabu.comp, p), violations |-> left,
                  until |-> [tabu.until EXCEPT ![p] = iters + 1 + TabuTenure],
                  bestEver |-> Min({tabu.bestEver, left})]
  BY <1>3, <1>5
<1>7. /\ tabu'.adj = Flip(tabu.adj, p) /\ tabu'.comp = Flip(tabu.comp, p) /\ tabu'.violations = left
      /\ tabu'.until = [tabu.until EXCEPT ![p] = iters + 1 + TabuTenure]
      /\ tabu'.bestEver = Min({tabu.bestEver, left})
  BY <1>6
<1>8. QED
  BY <1>1, <1>2, <1>3, <1>4, <1>5, <1>7 DEF predicted, Moved

\* An iteration of the tabu search keeps the counts true, and polishes a valid graph only.
LEMMA IterateTabu ==
  ASSUME SearchInv, TabuIterate, UNCHANGED <<treeVars, anneal>>
  PROVE  SearchInv'
<1>1. /\ job.strategy = "tabu" /\ pc = "loop" /\ UNCHANGED <<job, pc, cancelled, result>> /\ iters < job.maxIters
      /\ TabuTrue
  BY DEF TabuIterate, SearchInv, TabuInv
<1>2. PICK p \in Slots(N) : TabuMove(p, Violations(tabu.adj, tabu.comp), Cost(tabu.adj, tabu.comp, p))
  BY IterationIs, Zenon
<1>20. PICK left : left = Violations(Flip(tabu.adj, p), Flip(tabu.comp, p))
  OBVIOUS
<1>30. BothMasks(tabu.adj, tabu.comp)
  BY <1>1 DEF TabuTrue
<1>3. /\ BothMasks(tabu'.adj, tabu'.comp) /\ left \in Nat
      /\ tabu'.adj = Flip(tabu.adj, p) /\ tabu'.comp = Flip(tabu.comp, p) /\ tabu'.violations = left
      /\ tabu'.until = [tabu.until EXCEPT ![p] = iters + 1 + TabuTenure]
      /\ tabu'.bestEver = Min({tabu.bestEver, left})
      /\ GraphOf(tabu'.adj).n = N /\ ViolationsOf(GraphOf(tabu'.adj)) = left
      /\ NoPolish \/ (left = 0 /\ PolishBegin(GraphOf(tabu'.adj), 0))
      /\ iters' = iters + 1
  <2>1. Moved(p, left)
    BY <1>2, <1>20, <1>30, MoveIs
  <2>2. QED
    BY <2>1 DEF Moved
<1>4. JobInv'
  BY <1>1, <1>3, IterateJob DEF SearchInv
<1>5. PolishInv'
  <2>1. CASE NoPolish
    BY <2>1, FramePolish DEF NoPolish, SearchInv
  <2>2. CASE ~NoPolish
    <3>1. ValidGraph(GraphOf(tabu'.adj)) /\ PolishBegin(GraphOf(tabu'.adj), 0) /\ 0 \in Nat
      BY <1>3, <2>2 DEF ValidGraph
    <3>2. QED
      BY <3>1, BeginPolish
  <2>3. QED
    BY <2>1, <2>2
<1>6. TabuInv'
  <2>1. iters + 1 + TabuTenure \in Nat
    BY Parameters DEF SearchInv, JobInv
  <2>2. tabu'.until \in [Slots(N) -> Nat]
    BY <1>1, <1>3, <2>1 DEF TabuTrue
  <2>3. tabu'.bestEver \in Nat
    BY <1>1, <1>3, MinOfTwo DEF TabuTrue
  <2>4. TabuTrue'
    BY <1>3, <1>20, <2>2, <2>3 DEF TabuTrue
  <2>5. QED
    BY <2>4 DEF TabuInv
<1>7. AnnealInv' /\ BeamInv' /\ DepthInv' /\ SeenInv'
  BY <1>1, FrameAnneal, FrameTree, FrameSeen DEF SearchInv, treeVars
<1>8. QED
  BY <1>4, <1>5, <1>6, <1>7 DEF SearchInv

\* The end of the tabu search.
LEMMA FinishTabu ==
  ASSUME SearchInv, TabuFinish, UNCHANGED <<treeVars, anneal>>
  PROVE  SearchInv'
<1>1. /\ job.strategy = "tabu" /\ pc' = "done" /\ result'.carry = {}
      /\ UNCHANGED <<job, iters, cancelled, tabu, phase, walk, ils, polished>>
  BY DEF TabuFinish, Finish, polishVars
<1>2. JobInv' /\ PolishInv' /\ TabuInv' /\ AnnealInv' /\ BeamInv' /\ DepthInv' /\ SeenInv'
  BY <1>1, EmptyCarry, FinishJob, FramePolish, FrameTabu, FrameAnneal, FrameTree, FrameSeen DEF SearchInv, treeVars
<1>3. QED
  BY <1>2 DEF SearchInv

\* The annealing starts with true counts.
LEMMA StartAnneal ==
  ASSUME SearchInv, AnnealStart, UNCHANGED <<polishVars, tabu, treeVars>>
  PROVE  SearchInv'
<1>1. /\ job.strategy = "sa" /\ pc = "start" /\ pc' = "loop" /\ UNCHANGED <<job, cancelled, iters, result>>
      /\ anneal'.adj = FromAdj(job.seed) /\ anneal'.comp = FromAdj(Complement(job.seed))
      /\ anneal'.violations = Violations(FromAdj(job.seed), FromAdj(Complement(job.seed)))
      /\ anneal'.least = Violations(FromAdj(job.seed), FromAdj(Complement(job.seed)))
  BY DEF AnnealStart
<1>2. job.seed.n = N /\ BothMasks(FromAdj(job.seed), FromAdj(Complement(job.seed)))
  BY Parameters, BothOfGraph DEF SearchInv, JobInv
<1>3. Violations(FromAdj(job.seed), FromAdj(Complement(job.seed))) \in Nat
  BY <1>2, ViolationsFollow
<1>4. AnnealTrue'
  BY <1>1, <1>2, <1>3 DEF AnnealTrue
<1>5. JobInv' /\ AnnealInv'
  BY <1>1, <1>4 DEF SearchInv, JobInv, AnnealInv, polishVars
<1>6. PolishInv' /\ TabuInv' /\ BeamInv' /\ DepthInv' /\ SeenInv'
  BY <1>1, FramePolish, FrameTabu, FrameTree, FrameSeen DEF SearchInv, treeVars, polishVars
<1>7. QED
  BY <1>5, <1>6 DEF SearchInv

\* An accepted flip counts right.
LEMMA AcceptIs ==
  ASSUME AnnealTrue, NEW p \in Slots(N), AnnealAccept(p),
         NEW left, left = Violations(Flip(anneal.adj, p), Flip(anneal.comp, p))
  PROVE  /\ BothMasks(anneal'.adj, anneal'.comp) /\ left \in Nat
         /\ anneal'.adj = Flip(anneal.adj, p) /\ anneal'.comp = Flip(anneal.comp, p) /\ anneal'.violations = left
         /\ ViolationsOf(GraphOf(anneal'.adj)) = left
         /\ anneal'.best = IF left < anneal.least THEN GraphOf(anneal'.adj) ELSE anneal.best
         /\ anneal'.least = IF left < anneal.least THEN left ELSE anneal.least
         /\ IF left = 0 THEN Discover(GraphOf(anneal'.adj)) ELSE UNCHANGED <<known, reported>>
<1>1. BothMasks(anneal.adj, anneal.comp) /\ anneal.violations = Violations(anneal.adj, anneal.comp)
  BY DEF AnnealTrue
<1>2. BothMasks(Flip(anneal.adj, p), Flip(anneal.comp, p))
  BY <1>1, BothFlipped
<1>3. left \in Nat /\ left = anneal.violations + Cost(anneal.adj, anneal.comp, p)
  BY <1>1, ViolationsFollow
<1>4. ViolationsOf(GraphOf(Flip(anneal.adj, p))) = left
  BY <1>2, BothBack
<1>5. /\ anneal' = [adj |-> Flip(anneal.adj, p), comp |-> Flip(anneal.comp, p), violations |-> left,
                    best |-> IF left < anneal.least THEN GraphOf(Flip(anneal.adj, p)) ELSE anneal.best,
                    least |-> IF left < anneal.least THEN left ELSE anneal.least]
      /\ IF left = 0 THEN Discover(GraphOf(Flip(anneal.adj, p))) ELSE UNCHANGED <<known, reported>>
  BY <1>3, Zenon DEF AnnealAccept
<1>6. QED
  BY <1>2, <1>3, <1>4, <1>5

\* An iteration of the annealing keeps the counts true, whatever it accepts.
LEMMA IterateAnneal ==
  ASSUME SearchInv, AnnealIterate, UNCHANGED <<polishVars, tabu, treeVars>>
  PROVE  SearchInv'
<1>1. /\ job.strategy = "sa" /\ pc = "loop" /\ UNCHANGED <<job, pc, cancelled, result>> /\ iters < job.maxIters
      /\ iters' = iters + 1 /\ AnnealTrue
      /\ anneal' = anneal \/ \E p \in Slots(N) : AnnealAccept(p)
  BY DEF AnnealIterate, AnnealReject, SearchInv, AnnealInv
<1>2. AnnealTrue'
  <2>1. CASE anneal' = anneal
    BY <1>1, <2>1 DEF AnnealTrue
  <2>2. CASE \E p \in Slots(N) : AnnealAccept(p)
    <3>1. PICK p \in Slots(N) : AnnealAccept(p)
      BY <2>2
    <3> DEFINE left == Violations(Flip(anneal.adj, p), Flip(anneal.comp, p))
    <3>2. /\ BothMasks(anneal'.adj, anneal'.comp) /\ left \in Nat
          /\ anneal'.adj = Flip(anneal.adj, p) /\ anneal'.comp = Flip(anneal.comp, p) /\ anneal'.violations = left
          /\ anneal'.least = IF left < anneal.least THEN left ELSE anneal.least
      BY <1>1, <3>1, AcceptIs, Zenon
    <3>3. QED
      BY <1>1, <3>2 DEF AnnealTrue
  <2>3. QED
    BY <1>1, <2>1, <2>2
<1>3. JobInv' /\ AnnealInv'
  BY <1>1, <1>2, IterateJob DEF SearchInv, AnnealInv
<1>4. PolishInv' /\ TabuInv' /\ BeamInv' /\ DepthInv' /\ SeenInv'
  BY <1>1, FramePolish, FrameTabu, FrameTree, FrameSeen DEF SearchInv, treeVars, polishVars
<1>5. QED
  BY <1>3, <1>4 DEF SearchInv

\* The end of the annealing.
LEMMA FinishAnneal ==
  ASSUME SearchInv, AnnealFinish, UNCHANGED <<polishVars, tabu, treeVars>>
  PROVE  SearchInv'
<1>1. /\ job.strategy = "sa" /\ pc' = "done" /\ result'.carry = {}
      /\ UNCHANGED <<job, iters, cancelled, anneal, tabu, phase, walk, ils, polished>>
  BY DEF AnnealFinish, polishVars
<1>2. JobInv' /\ PolishInv' /\ TabuInv' /\ AnnealInv' /\ BeamInv' /\ DepthInv' /\ SeenInv'
  BY <1>1, EmptyCarry, FinishJob, FramePolish, FrameTabu, FrameAnneal, FrameTree, FrameSeen DEF SearchInv, treeVars
<1>3. QED
  BY <1>2 DEF SearchInv

-----------------------------------------------------------------------------
(***************************************************************************)
(* The beam search keeps it                                                *)
(***************************************************************************)

\* The counts of a beam entry.
LEMMA EntryCounts ==
  ASSUME NEW e, EntryTrue(e)
  PROVE  /\ BothMasks(e.adj, e.comp)
         /\ e.kc = CountCliques(e.adj, K) /\ e.ei = CountCliques(e.comp, Ell)
         /\ e.kc \in Nat /\ e.ei \in Nat /\ Flaws(e) \in Nat
<1>1. BothMasks(e.adj, e.comp) /\ e = EntryOf(e.adj, e.comp)
  BY DEF EntryTrue
<1>2. e.kc = CountCliques(e.adj, K) /\ e.ei = CountCliques(e.comp, Ell)
  BY <1>1 DEF EntryOf
<1>3. CountCliques(e.adj, K) \in Nat /\ CountCliques(e.comp, Ell) \in Nat
  BY <1>1, CountsFollow, SizeIs
<1>4. QED
  BY <1>1, <1>2, <1>3 DEF Flaws

\* An entry made from masks has their counts.
LEMMA MadeEntry ==
  ASSUME NEW a, NEW c, BothMasks(a, c)
  PROVE  EntryTrue(EntryOf(a, c))
<1>1. EntryOf(a, c).adj = a /\ EntryOf(a, c).comp = c
  BY DEF EntryOf
<1>2. QED
  BY <1>1 DEF EntryTrue

\* A fingerprint that is new makes room for one more flip scored.
LEMMA SeenGrows ==
  ASSUME NEW S, NEW C, NEW x, NEW k \in Nat, IsFiniteSet(S), C \subseteq S, x \notin S,
         k <= Cardinality(S \ C)
  PROVE  /\ IsFiniteSet(S \cup {x}) /\ C \subseteq S \cup {x}
         /\ k + 1 <= Cardinality((S \cup {x}) \ C)
<1>1. IsFiniteSet(S \ C) /\ Cardinality(S \ C) \in Nat
  BY FS_Subset, FS_CardinalityType
<1>2. (S \cup {x}) \ C = (S \ C) \cup {x} /\ x \notin S \ C
  OBVIOUS
<1>3. Cardinality((S \ C) \cup {x}) = Cardinality(S \ C) + 1
  BY <1>1, <1>2, FS_AddElement
<1>4. IsFiniteSet(S \cup {x})
  BY FS_AddElement
<1>5. QED
  BY <1>1, <1>2, <1>3, <1>4

\* The beam search starts with the seed, or with the seed flipped into a new fingerprint.
LEMMA StartTree ==
  ASSUME SearchInv, TreeStart, UNCHANGED <<tabu, anneal>>
  PROVE  SearchInv'
<1> DEFINE entry == EntryOf(FromAdj(job.seed), FromAdj(Complement(job.seed)))
<1>1. /\ job.strategy = "tree2" /\ pc = "start" /\ pc' = "depth" /\ beam' = <<entry>>
      /\ seen' = job.carry \cup {Fingerprint(entry.adj)}
      /\ UNCHANGED <<job, cancelled, iters, result, depth, slots, parent, todo, candidates,
                     polishes, phase, walk, ils, polished>>
  BY DEF TreeStart, polishVars
<1>2. EntryTrue(entry)
  BY Parameters, BothOfGraph, MadeEntry DEF SearchInv, JobInv
<1> HIDE DEF entry
<1>3. JobInv'
  BY <1>1 DEF SearchInv, JobInv
<1>4. beam' \in Seq({entry}) /\ Len(beam') = 1 /\ \A i \in DOMAIN beam' : beam'[i] = entry
  BY <1>1
<1>5. IsList(beam')
  BY <1>4, ListOf
<1>6. Max({1, BeamWidth}) >= 1 /\ Max({1, BeamWidth}) \in Int
  BY MaxOfTwo, Parameters
<1>7. candidates' = <<>> /\ IsList(candidates')
  BY <1>1 DEF SearchInv, BeamInv
<1>8. DOMAIN candidates' = {}
  BY <1>7
<1>9. \A i \in DOMAIN beam' : EntryTrue(beam'[i])
  BY <1>2, <1>4
<1>10. BeamInv'
  BY <1>1, <1>4, <1>5, <1>6, <1>7, <1>8, <1>9 DEF BeamInv, EntryTrue
<1>11. DepthInv'
  <2>1. Len(<<>>) = 0
    OBVIOUS
  <2>2. parent = 0
    BY <1>1, <2>1 DEF SearchInv, DepthInv, BeamInv
  <2>3. QED
    BY <1>1, <1>4, <2>2 DEF SearchInv, DepthInv
<1>12. SeenInv'
  <2>1. IsFiniteSet(job.carry) /\ iters = 0
    BY <1>1, Parameters DEF SearchInv, JobInv
  <2>2. IsFiniteSet(seen')
    BY <1>1, <2>1, FS_AddElement
  <2>3. IsFiniteSet(seen' \ job.carry)
    BY <2>2, FS_Subset
  <2>4. Cardinality(seen' \ job.carry) \in Nat
    BY <2>3, FS_CardinalityType
  <2>5. QED
    BY <1>1, <2>1, <2>2, <2>4 DEF SeenInv
<1>13. PolishInv' /\ TabuInv' /\ AnnealInv'
  BY <1>1, FramePolish, FrameTabu, FrameAnneal DEF SearchInv
<1>14. QED
  BY <1>3, <1>10, <1>11, <1>12, <1>13 DEF SearchInv

\* The least of some numbers is one of them.
LEMMA MinIsIn ==
  ASSUME NEW S \in SUBSET Nat, S # {}
  PROVE  Min(S) \in S
<1>1. \E m \in S : \A x \in S : m <= x
  BY LeastOfNats
<1>2. QED
  BY <1>1 DEF Min

\* A depth begins with a beam of true entries and the slots of the graph or of its violations.
LEMMA DepthTree ==
  ASSUME SearchInv, TreeDepth, UNCHANGED <<tabu, anneal>>
  PROVE  SearchInv'
<1> DEFINE least == Min({Flaws(beam[i]) : i \in DOMAIN beam})
           chosen == Min({i \in DOMAIN beam : Flaws(beam[i]) = least})
           best == beam[chosen]
<1>1. /\ job.strategy = "tree2" /\ pc = "depth" /\ pc' = "parent" /\ beam # <<>> /\ depth # MaxDepth
      /\ parent' = 0 /\ todo' = <<>> /\ candidates' = <<>> /\ polishes' = 0
      /\ slots' = IF job.focused /\ least > 0 THEN FocusedSlots(best.adj, best.comp) ELSE Slots(N)
      /\ UNCHANGED <<job, cancelled, iters, result, beam, seen, depth, phase, walk, ils, polished>>
  BY DEF TreeDepth, DepthEnds, polishVars
<1>2. IsList(beam) /\ \A i \in DOMAIN beam : EntryTrue(beam[i]) /\ Flaws(beam[i]) \in Nat
  BY EntryCounts DEF SearchInv, BeamInv
<1>3. DOMAIN beam # {} /\ DOMAIN beam \in SUBSET Nat /\ DOMAIN beam = 1..Len(beam) /\ Len(beam) \in Nat
  <2>1. DOMAIN beam = 1..Len(beam) /\ Len(beam) \in Nat /\ beam \in Seq({beam[i] : i \in DOMAIN beam})
    BY <1>2, ListIs DEF IsList
  <2>2. Len(beam) # 0
    BY <1>1, <2>1
  <2>3. QED
    BY <2>1, <2>2
<1>4. chosen \in DOMAIN beam
  <2>1. {Flaws(beam[i]) : i \in DOMAIN beam} \in SUBSET Nat /\ {Flaws(beam[i]) : i \in DOMAIN beam} # {}
    BY <1>2, <1>3
  <2>2. least \in {Flaws(beam[i]) : i \in DOMAIN beam}
    BY <2>1, MinIsIn
  <2> HIDE DEF least
  <2>3. {i \in DOMAIN beam : Flaws(beam[i]) = least} # {} /\ {i \in DOMAIN beam : Flaws(beam[i]) = least} \in SUBSET Nat
    BY <1>3, <2>2
  <2>4. chosen \in {i \in DOMAIN beam : Flaws(beam[i]) = least}
    BY <2>3, MinIsIn
  <2>5. QED
    BY <2>4
<1> HIDE DEF least, chosen
<1>5. slots' \in SUBSET Slots(N)
  BY <1>1, <1>2, <1>4, FocusedIn, EntryCounts
<1>6. <<>> \in Seq(Slots(N)) /\ IsList(<<>>) /\ DOMAIN <<>> = {}
  <2>1. <<>> \in Seq(Slots(N)) /\ DOMAIN <<>> = {}
    OBVIOUS
  <2>2. QED
    BY <2>1, ListOf
<1>7. JobInv'
  BY <1>1 DEF SearchInv, JobInv
<1>8. BeamInv'
  <2>1. IsList(candidates)' /\ (DOMAIN candidates)' = {} /\ (pc # "start")'
    BY <1>1, <1>6 DEF IsList
  <2>2. /\ IsList(beam)' /\ (Len(beam) <= Max({1, BeamWidth}))'
        /\ \A i \in (DOMAIN beam)' : EntryTrue(beam[i])'
    BY <1>1 DEF SearchInv, BeamInv, EntryTrue, IsList
  <2>3. QED
    BY <2>1, <2>2 DEF BeamInv
<1>9. DepthInv'
  <2>1. depth \in 0..MaxDepth /\ depth # MaxDepth /\ depth' = depth /\ parent' = 0 /\ polishes' = 0 /\ beam' = beam
        /\ todo' \in Seq(Slots(N)) /\ pc' = "parent"
    BY <1>1, <1>6 DEF SearchInv, DepthInv
  <2>2. 0 \in 0..Len(beam) /\ (MaxPolish > 0 => 0 <= MaxPolish)
    BY <1>3, Parameters
  <2>3. QED
    BY <1>5, <2>1, <2>2 DEF DepthInv
<1>10. SeenInv'
  BY <1>1 DEF SearchInv, SeenInv
<1>11. PolishInv' /\ TabuInv' /\ AnnealInv'
  BY <1>1, FramePolish, FrameTabu, FrameAnneal DEF SearchInv
<1>12. QED
  BY <1>7, <1>8, <1>9, <1>10, <1>11 DEF SearchInv

\* What a parent tries are flips.
LEMMA TriesLists ==
  ASSUME NEW index, NEW t \in Tries(index), slots \in SUBSET Slots(N), job \in Jobs, iters \in 0..job.maxIters,
         Len(beam) \in Nat, index \in 0..Len(beam)
  PROVE  t \in Seq(Slots(N))
<1> DEFINE count == Cardinality(slots)
           share == (job.maxIters - iters) \div Max({Len(beam) - index, 1})
<1>1. IsFiniteSet(slots)
  BY SlotsAre, FS_Subset
<1>2. count \in Nat
  BY <1>1, FS_CardinalityType
<1>3. share \in Nat
  <2>1. Len(beam) - index \in Int /\ 1 \in Int
    OBVIOUS
  <2>2. Max({Len(beam) - index, 1}) \in Nat \ {0}
    BY <2>1, MaxOfTwo
  <2>3. job.maxIters - iters \in Nat
    BY Parameters
  <2> DEFINE a == job.maxIters - iters
             b == Max({Len(beam) - index, 1})
  <2>4. a \in Nat /\ b \in Nat \ {0}
    BY <2>2, <2>3
  <2> HIDE DEF a, b
  <2>5. a \div b \in Nat
    BY <2>4
  <2>6. QED
    BY <2>5 DEF a, b
<1>4. \/ t \in [1..share -> slots]
      \/ t = Ordered([p \in slots |-> p])
  BY DEF Tries
<1>5. CASE t \in [1..share -> slots]
  <2>1. t \in [1..share -> Slots(N)]
    BY <1>5
  <2> HIDE DEF share
  <2>2. QED
    BY <1>3, <2>1, FunctionList
<1>6. CASE t = Ordered([p \in slots |-> p])
  <2> DEFINE key == [p \in slots |-> p]
  <2>1. \A p \in slots : p \in Slots(N) /\ p = <<p[1], p[2]>> /\ p[1] \in Int /\ p[2] \in Int
    BY SlotsAre
  <2>2. \A u, v \in Int : <<u, v>> \in Seq(Int) /\ Len(<<u, v>>) = 2
    OBVIOUS
  <2>3. \A p \in slots : p \in Seq(Int) /\ Len(p) = 2
    BY <2>1, <2>2
  <2>4. Keyed(slots, key)
    BY <2>3 DEF Keyed
  <2> HIDE DEF key
  <2>5. Ordered(key) \in [1..count -> slots]
    BY <1>1, <2>4, OrderedLists
  <2>6. t \in [1..count -> Slots(N)]
    BY <1>6, <2>5 DEF key
  <2> HIDE DEF count
  <2>7. QED
    BY <1>2, <2>6, FunctionList
<1>7. QED
  BY <1>4, <1>5, <1>6

\* The beam and its candidates stay.
LEMMA FrameBeam ==
  ASSUME BeamInv, UNCHANGED <<beam, candidates>>, pc' # "start"
  PROVE  BeamInv'
<1>1. \A x : CandidateTrue(x)' <=> CandidateTrue(x)
  BY DEF CandidateTrue
<1>2. QED
  BY <1>1 DEF BeamInv

\* The next parent, with the slots it tries.
LEMMA ParentTree ==
  ASSUME SearchInv, TreeParent, UNCHANGED <<tabu, anneal>>
  PROVE  SearchInv'
<1>1. /\ job.strategy = "tree2" /\ pc = "parent" /\ pc' = "flip"
      /\ todo' \in Tries(parent) /\ parent' = parent + 1 /\ parent # Len(beam)
      /\ UNCHANGED <<job, cancelled, iters, result, beam, seen, depth, slots, candidates,
                     polishes, phase, walk, ils, polished>>
  BY DEF TreeParent, ParentsEnd, polishVars
<1>2. JobInv' /\ SeenInv'
  BY <1>1 DEF SearchInv, JobInv, SeenInv
<1>3. Len(beam) \in Nat
  BY ListIs DEF SearchInv, BeamInv
<1>4. todo' \in Seq(Slots(N))
  BY <1>1, <1>3, TriesLists DEF SearchInv, JobInv, DepthInv
<1>5. parent' \in 0..Len(beam) /\ parent' # 0
  BY <1>1, <1>3 DEF SearchInv, DepthInv
<1>6. DepthInv'
  BY <1>1, <1>4, <1>5 DEF SearchInv, DepthInv
<1>7. BeamInv' /\ PolishInv' /\ TabuInv' /\ AnnealInv'
  BY <1>1, FrameBeam, FramePolish, FrameTabu, FrameAnneal DEF SearchInv
<1>8. QED
  BY <1>2, <1>6, <1>7 DEF SearchInv

\* A slot passed over, or the end of a parent.
LEMMA SkipTree ==
  ASSUME SearchInv, TreeSkip \/ TreeNextParent, UNCHANGED <<tabu, anneal>>
  PROVE  SearchInv'
<1>1. /\ job.strategy = "tree2" /\ pc = "flip" /\ pc' \in {"flip", "parent"}
      /\ todo' = todo \/ (todo # <<>> /\ todo' = Tail(todo))
      /\ UNCHANGED <<job, cancelled, iters, result, beam, seen, depth, slots, parent,
                     candidates, polishes, phase, walk, ils, polished>>
  BY DEF TreeSkip, TreeNextParent, treeVars, polishVars
<1>2. JobInv' /\ SeenInv'
  BY <1>1 DEF SearchInv, JobInv, SeenInv
<1>3. todo' \in Seq(Slots(N))
  BY <1>1 DEF SearchInv, DepthInv
<1>4. DepthInv'
  BY <1>1, <1>3 DEF SearchInv, DepthInv
<1>5. BeamInv' /\ PolishInv' /\ TabuInv' /\ AnnealInv'
  BY <1>1, FrameBeam, FramePolish, FrameTabu, FrameAnneal DEF SearchInv
<1>6. QED
  BY <1>2, <1>4, <1>5 DEF SearchInv

\* A flip of the parent that was not seen yet, the graph it makes and its counts.
Tried(p, a, c, g, r, b) ==
  /\ p \in Slots(N) /\ a = Flip(beam[parent].adj, p) /\ c = Flip(beam[parent].comp, p) /\ g = GraphOf(a)
  /\ BothMasks(a, c) /\ r = CountCliques(a, K) /\ b = CountCliques(c, Ell) /\ r \in Nat /\ b \in Nat
  /\ g.n = N /\ ViolationsOf(g) = r + b
  /\ Fingerprint(a) \notin seen /\ seen' = seen \cup {Fingerprint(a)}
  /\ candidates' = Append(candidates, [parent |-> parent, slot |-> p, kc |-> r, ei |-> b])
  /\ IF r + b = 0 THEN Discover(g) ELSE UNCHANGED <<known, reported>>
  /\ bestValid' = IF r + b = 0 /\ IsNovel(g) THEN g ELSE bestValid
  /\ \/ NoPolish /\ polishes' = polishes
     \/ r + b = 0 /\ (MaxPolish = 0 \/ polishes < MaxPolish) /\ polishes' = polishes + 1 /\ PolishBegin(g, Restarts)
  /\ bestInvalid' = IF r + b > 0 /\ (bestInvalid = NoBest \/ r + b < bestInvalid.violations)
                    THEN [graph |-> g, violations |-> r + b] ELSE bestInvalid

\* What scoring a flip finds: the counts by deltas are those of the child.
LEMMA TryIs ==
  ASSUME SearchInv, TreeTry
  PROVE  \E p, a, c, g, r, b : Tried(p, a, c, g, r, b)
<1>1. PICK p : p = Head(todo)
  OBVIOUS
<1>2. PICK from : from = beam[parent]
  OBVIOUS
<1>3. PICK a : a = Flip(from.adj, p)
  OBVIOUS
<1>4. PICK c : c = Flip(from.comp, p)
  OBVIOUS
<1>5. PICK g : g = GraphOf(a)
  OBVIOUS
<1>6. PICK d : d = ViolationDelta(from.adj, from.comp, K, Ell, p[1], p[2])
  OBVIOUS
<1>7. PICK r : r = Max({0, from.kc + d[1]})
  OBVIOUS
<1>8. PICK b : b = Max({0, from.ei + d[2]})
  OBVIOUS
<1>9. /\ pc = "flip" /\ todo # <<>>
      /\ Fingerprint(a) \notin seen /\ seen' = seen \cup {Fingerprint(a)}
      /\ candidates' = Append(candidates, [parent |-> parent, slot |-> p, kc |-> r, ei |-> b])
      /\ IF r + b = 0 /\ ViolationsOf(g) = 0 THEN Discover(g) ELSE UNCHANGED <<known, reported>>
      /\ bestValid' = IF r + b = 0 /\ ViolationsOf(g) = 0 /\ IsNovel(g) THEN g ELSE bestValid
      /\ polishes' = IF r + b = 0 /\ ViolationsOf(g) = 0 /\ (MaxPolish = 0 \/ polishes < MaxPolish)
                     THEN polishes + 1 ELSE polishes
      /\ IF r + b = 0 /\ ViolationsOf(g) = 0 /\ (MaxPolish = 0 \/ polishes < MaxPolish)
         THEN PolishBegin(g, Restarts) ELSE NoPolish
      /\ bestInvalid' = IF r + b > 0 /\ (bestInvalid = NoBest \/ r + b < bestInvalid.violations)
                        THEN [graph |-> g, violations |-> r + b] ELSE bestInvalid
  BY <1>1, <1>2, <1>3, <1>4, <1>5, <1>6, <1>7, <1>8, ZenonT(30) DEF TreeTry
<1>10. p \in Slots(N)
  BY <1>1, <1>9 DEF SearchInv, DepthInv
<1>11. EntryTrue(from)
  <2>1. parent \in 1..Len(beam) /\ DOMAIN beam = 1..Len(beam)
    BY <1>9, ListIs DEF SearchInv, DepthInv, BeamInv
  <2>2. QED
    BY <1>2, <2>1 DEF SearchInv, BeamInv
<1>12. BothMasks(from.adj, from.comp) /\ from.kc = CountCliques(from.adj, K) /\ from.ei = CountCliques(from.comp, Ell)
  BY <1>11, EntryCounts
<1>13. BothMasks(a, c)
  BY <1>3, <1>4, <1>10, <1>12, BothFlipped
<1>14. /\ CountCliques(a, K) = from.kc + d[1] /\ CountCliques(c, Ell) = from.ei + d[2]
       /\ CountCliques(a, K) \in Nat /\ CountCliques(c, Ell) \in Nat
  <2>1. /\ CountCliques(Flip(from.adj, p), K)
             = CountCliques(from.adj, K) + ViolationDelta(from.adj, from.comp, K, Ell, p[1], p[2])[1]
        /\ CountCliques(Flip(from.comp, p), Ell)
             = CountCliques(from.comp, Ell) + ViolationDelta(from.adj, from.comp, K, Ell, p[1], p[2])[2]
    <3>1. PICK x : x = from.adj
      OBVIOUS
    <3>2. PICK y : y = from.comp
      OBVIOUS
    <3>3. K \in Nat /\ Ell \in Nat /\ BothMasks(x, y)
      BY <1>12, <3>1, <3>2, SizeIs
    <3>4. \A q \in Slots(N) :
            /\ CountCliques(Flip(x, q), K) = CountCliques(x, K) + ViolationDelta(x, y, K, Ell, q[1], q[2])[1]
            /\ CountCliques(Flip(y, q), Ell) = CountCliques(y, Ell) + ViolationDelta(x, y, K, Ell, q[1], q[2])[2]
      BY <3>3, CountsFollow
    <3>5. QED
      BY <1>10, <3>1, <3>2, <3>4
  <2>2. CountCliques(a, K) \in Nat /\ CountCliques(c, Ell) \in Nat
    BY <1>13, CountsFollow, SizeIs
  <2>3. QED
    BY <1>3, <1>4, <1>6, <1>12, <2>1, <2>2
<1>15. r = CountCliques(a, K) /\ b = CountCliques(c, Ell)
  BY <1>7, <1>8, <1>14, MaxWithNone
<1>16. g.n = N /\ ViolationsOf(g) = r + b
  BY <1>5, <1>13, <1>15, BothBack DEF Violations
<1>17. /\ IF r + b = 0 THEN Discover(g) ELSE UNCHANGED <<known, reported>>
       /\ bestValid' = IF r + b = 0 /\ IsNovel(g) THEN g ELSE bestValid
       /\ \/ NoPolish /\ polishes' = polishes
          \/ r + b = 0 /\ (MaxPolish = 0 \/ polishes < MaxPolish) /\ polishes' = polishes + 1 /\ PolishBegin(g, Restarts)
  BY <1>9, <1>16
<1>18. Tried(p, a, c, g, r, b)
  BY <1>2, <1>3, <1>4, <1>5, <1>9, <1>10, <1>13, <1>14, <1>15, <1>16, <1>17 DEF Tried
<1>19. QED
  BY <1>18

\* A flip scored keeps the counts true and the budget.
LEMMA TryTree ==
  ASSUME SearchInv, TreeTry, UNCHANGED <<tabu, anneal>>
  PROVE  SearchInv'
<1>1. /\ job.strategy = "tree2" /\ pc = "flip" /\ pc' = pc /\ todo # <<>> /\ todo' = Tail(todo)
      /\ ~(iters >= job.maxIters) /\ iters' = iters + 1
      /\ UNCHANGED <<job, cancelled, result, beam, depth, slots, parent>>
  BY DEF TreeTry, OutOfTime
<1>2. PICK p, a, c, g, r, b : Tried(p, a, c, g, r, b)
  BY TryIs
<1>3. JobInv'
  <2>1. iters < job.maxIters
    BY <1>1, Parameters DEF SearchInv, JobInv
  <2>2. QED
    BY <1>1, <2>1, IterateJob DEF SearchInv
<1>4. PolishInv'
  <2>1. NoPolish \/ (ValidGraph(g) /\ PolishBegin(g, Restarts))
    BY <1>2 DEF Tried, ValidGraph
  <2>2. CASE NoPolish
    BY <2>2, FramePolish DEF NoPolish, SearchInv
  <2>3. CASE ValidGraph(g) /\ PolishBegin(g, Restarts)
    BY <2>3, BeginPolish, Parameters
  <2>4. QED
    BY <2>1, <2>2, <2>3
<1>5. BeamInv'
  <2> DEFINE e == [parent |-> parent, slot |-> p, kc |-> r, ei |-> b]
  <2>1. candidates' = Append(candidates, e) /\ IsList(candidates) /\ \A i \in DOMAIN candidates : CandidateTrue(candidates[i])
    BY <1>2 DEF Tried, SearchInv, BeamInv
  <2>2. parent \in DOMAIN beam
    BY <1>1, ListIs DEF SearchInv, DepthInv, BeamInv
  <2>3. CandidateTrue(e)
    BY <1>2, <2>2 DEF Tried, CandidateTrue
  <2> HIDE DEF e
  <2>4. IsList(candidates') /\ \A i \in DOMAIN candidates' : CandidateTrue(candidates'[i])
    BY <2>1, <2>3, AppendList
  <2>5. \A x : CandidateTrue(x)' <=> CandidateTrue(x)
    BY <1>1 DEF CandidateTrue
  <2>6. IsList(candidates)' /\ \A i \in (DOMAIN candidates)' : CandidateTrue(candidates[i])'
    BY <2>4, <2>5 DEF IsList
  <2>7. /\ IsList(beam)' /\ (Len(beam) <= Max({1, BeamWidth}))'
        /\ \A i \in (DOMAIN beam)' : EntryTrue(beam[i])'
    BY <1>1 DEF SearchInv, BeamInv, EntryTrue, IsList
  <2>8. (pc # "start")'
    BY <1>1
  <2>9. QED
    BY <2>6, <2>7, <2>8 DEF BeamInv
<1>6. DepthInv'
  <2>1. todo' \in Seq(Slots(N))
    BY <1>1 DEF SearchInv, DepthInv
  <2>2. polishes' \in Nat /\ (MaxPolish > 0 => polishes' <= MaxPolish)
    BY <1>2, Parameters DEF Tried, SearchInv, DepthInv
  <2>3. QED
    BY <1>1, <2>1, <2>2 DEF SearchInv, DepthInv
<1>7. SeenInv'
  <2>1. Fingerprint(a) \notin seen /\ seen' = seen \cup {Fingerprint(a)}
    BY <1>2 DEF Tried
  <2>2. /\ IsFiniteSet(seen) /\ job.carry \subseteq seen /\ iters \in Nat
        /\ iters <= Cardinality(seen \ job.carry)
    BY <1>1, Parameters DEF SearchInv, JobInv, SeenInv
  <2>3. IsFiniteSet(seen') /\ job.carry \subseteq seen' /\ iters + 1 <= Cardinality(seen' \ job.carry)
    BY <2>1, <2>2, SeenGrows
  <2>4. QED
    BY <1>1, <2>3 DEF SeenInv
<1>8. TabuInv' /\ AnnealInv'
  BY <1>1, FrameTabu, FrameAnneal DEF SearchInv
<1>9. QED
  BY <1>3, <1>4, <1>5, <1>6, <1>7, <1>8 DEF SearchInv

\* The candidates kept are some of those found.
LEMMA SelectedFrom ==
  ASSUME NEW found, IsList(found),
         \A i \in DOMAIN found : found[i].kc \in Nat /\ found[i].ei \in Nat
  PROVE  /\ DOMAIN Selected(found) = 1..Min({Len(found), BeamWidth})
         /\ \A x \in DOMAIN Selected(found) : \E i \in DOMAIN found : Selected(found)[x] = found[i]
<1> DEFINE key == [i \in DOMAIN found |-> SortKey(found[i], i)]
           order == Ordered(key)
<1>1. Len(found) \in Nat /\ DOMAIN found = 1..Len(found)
  BY ListIs
<1>2. \A i \in DOMAIN found : SortKey(found[i], i) \in Seq(Int) /\ Len(SortKey(found[i], i)) = 3 /\ SortKey(found[i], i)[3] = i
  <2> SUFFICES ASSUME NEW i \in DOMAIN found
               PROVE  SortKey(found[i], i) \in Seq(Int) /\ Len(SortKey(found[i], i)) = 3 /\ SortKey(found[i], i)[3] = i
    OBVIOUS
  <2>1. i \in Int /\ found[i].kc \in Nat /\ found[i].ei \in Nat
    BY <1>1
  <2>2. PICK u, v \in Int : SortKey(found[i], i) = <<u, v, i>>
    <3>1. \E u, v : u \in Int /\ v \in Int /\ SortKey(found[i], i) = <<u, v, i>>
      BY <2>1, Parameters DEF SortKey
    <3>2. QED
      BY <3>1
  <2>3. <<u, v, i>> \in Seq(Int) /\ Len(<<u, v, i>>) = 3 /\ <<u, v, i>>[3] = i
    BY <2>1
  <2>4. QED
    BY <2>2, <2>3
<1>3. Keyed(DOMAIN found, key)
  BY <1>2 DEF Keyed
<1>4. IsFiniteSet(DOMAIN found) /\ Cardinality(DOMAIN found) = Len(found)
  <2>1. IsFiniteSet(1..Len(found)) /\ Cardinality(1..Len(found)) = Len(found)
    BY <1>1, FS_Interval
  <2>2. QED
    BY <1>1, <2>1
<1>5. Selected(found) = [x \in 1..Min({Len(found), BeamWidth}) |-> found[order[x]]]
  BY DEF Selected
<1> HIDE DEF key
<1>6. order \in [1..Len(found) -> DOMAIN found]
  BY <1>3, <1>4, OrderedLists
<1> HIDE DEF order
<1>7. Min({Len(found), BeamWidth}) \in Nat /\ Min({Len(found), BeamWidth}) <= Len(found)
  BY <1>1, MinOfTwo, Parameters
<1>8. QED
  BY <1>1, <1>5, <1>6, <1>7

\* The next beam is made of the candidates kept, each with the counts of its graph.
LEMMA NextBeamTree ==
  ASSUME SearchInv, TreeNextBeam, UNCHANGED <<tabu, anneal>>
  PROVE  SearchInv'
<1> DEFINE kept == Selected(candidates)
           m == Min({Len(candidates), BeamWidth})
<1>1. /\ job.strategy = "tree2" /\ pc = "parent" /\ pc' = "depth" /\ depth' = depth + 1
      /\ slots' = {} /\ parent' = 0 /\ todo' = <<>> /\ candidates' = <<>> /\ polishes' = 0
      /\ beam' = [x \in DOMAIN kept |-> Materialized(kept[x])]
      /\ UNCHANGED <<job, cancelled, iters, result, seen, phase, walk, ils, polished>>
  BY DEF TreeNextBeam, polishVars
<1>2. JobInv' /\ SeenInv'
  BY <1>1 DEF SearchInv, JobInv, SeenInv
<1>3. IsList(candidates) /\ \A i \in DOMAIN candidates : CandidateTrue(candidates[i])
  BY DEF SearchInv, BeamInv
<1>4. \A i \in DOMAIN candidates : EntryTrue(Materialized(candidates[i])) /\ candidates[i].kc \in Nat /\ candidates[i].ei \in Nat
  <2> SUFFICES ASSUME NEW i \in DOMAIN candidates
               PROVE  EntryTrue(Materialized(candidates[i])) /\ candidates[i].kc \in Nat /\ candidates[i].ei \in Nat
    OBVIOUS
  <2>1. PICK f : f = candidates[i]
    OBVIOUS
  <2>2. PICK a : a = Flip(beam[f.parent].adj, f.slot)
    OBVIOUS
  <2>3. PICK c : c = Flip(beam[f.parent].comp, f.slot)
    OBVIOUS
  <2>4. /\ f.parent \in DOMAIN beam /\ f.slot \in Slots(N)
        /\ f.kc = CountCliques(a, K) /\ f.ei = CountCliques(c, Ell)
    BY <1>3, <2>1, <2>2, <2>3 DEF CandidateTrue
  <2>5. BothMasks(beam[f.parent].adj, beam[f.parent].comp)
    BY <2>4, EntryCounts DEF SearchInv, BeamInv
  <2>6. BothMasks(a, c)
    BY <2>2, <2>3, <2>4, <2>5, BothFlipped
  <2>7. Materialized(f) = EntryOf(a, c)
    BY <2>2, <2>3, <2>4 DEF Materialized, EntryOf
  <2>8. EntryTrue(Materialized(f))
    BY <2>6, <2>7, MadeEntry
  <2>9. f.kc \in Nat /\ f.ei \in Nat
    BY <2>4, <2>6, CountsFollow, SizeIs
  <2>10. QED
    BY <2>1, <2>8, <2>9
<1>5. /\ DOMAIN kept = 1..m
      /\ \A x \in DOMAIN kept : \E i \in DOMAIN candidates : kept[x] = candidates[i]
  BY <1>3, <1>4, SelectedFrom
<1>6. m \in Nat /\ m <= BeamWidth
  BY <1>3, ListIs, MinOfTwo, Parameters
<1> HIDE DEF m, kept
<1>7. \A x \in 1..m : EntryTrue(Materialized(kept[x]))
  BY <1>4, <1>5
<1>8. DOMAIN beam' = 1..m /\ \A x \in 1..m : EntryTrue(beam'[x])
  BY <1>1, <1>5, <1>7
<1>9. beam' \in [1..m -> {beam'[x] : x \in 1..m}]
  BY <1>1, <1>8
<1>10. IsList(beam') /\ Len(beam') = m
  BY <1>6, <1>9, FunctionList
<1>11. m <= Max({1, BeamWidth}) /\ 0 \in 0..m
  BY <1>6, MaxOfTwo, Parameters
<1>12. <<>> \in Seq(Slots(N)) /\ IsList(<<>>) /\ DOMAIN <<>> = {}
  <2>1. <<>> \in Seq(Slots(N)) /\ DOMAIN <<>> = {}
    OBVIOUS
  <2>2. QED
    BY <2>1, ListOf
<1>13. BeamInv'
  <2>1. IsList(candidates)' /\ (DOMAIN candidates)' = {} /\ (pc # "start")'
    BY <1>1, <1>12 DEF IsList
  <2>2. /\ IsList(beam)' /\ (Len(beam) <= Max({1, BeamWidth}))'
        /\ \A i \in (DOMAIN beam)' : EntryTrue(beam[i])'
    BY <1>8, <1>10, <1>11 DEF EntryTrue, IsList
  <2>3. QED
    BY <2>1, <2>2 DEF BeamInv
<1>14. DepthInv'
  <2>1. depth \in 0..MaxDepth /\ depth # MaxDepth
    BY <1>1 DEF SearchInv, DepthInv
  <2>2. depth' \in 0..MaxDepth /\ parent' \in 0..Len(beam') /\ todo' \in Seq(Slots(N)) /\ polishes' = 0 /\ pc' = "depth"
        /\ slots' \in SUBSET Slots(N)
    BY <1>1, <1>10, <1>11, <1>12, <2>1, Parameters
  <2>3. QED
    BY <2>2, Parameters DEF DepthInv
<1>15. PolishInv' /\ TabuInv' /\ AnnealInv'
  BY <1>1, FramePolish, FrameTabu, FrameAnneal DEF SearchInv
<1>16. QED
  BY <1>2, <1>13, <1>14, <1>15 DEF SearchInv

\* The end of the beam search carries as many fingerprints as it may.
LEMMA FinishTree ==
  ASSUME SearchInv, TreeFinish, UNCHANGED <<tabu, anneal>>
  PROVE  SearchInv'
<1>1. /\ job.strategy = "tree2" /\ pc # "start" /\ pc' = "done"
      /\ UNCHANGED <<job, cancelled, iters, treeVars, seen, phase, walk, ils, polished>>
      /\ result'.carry \in kSubset(Min({Cardinality(seen), MaxCarry}), seen)
  BY DEF TreeFinish, Finish, polishVars, treeVars
<1>2. BeamInv' /\ DepthInv' /\ SeenInv' /\ PolishInv' /\ TabuInv' /\ AnnealInv'
  BY <1>1, FrameTree, FrameSeen, FramePolish, FrameTabu, FrameAnneal DEF SearchInv
<1>3. Cardinality(result'.carry) <= MaxCarry
  <2>1. Cardinality(seen) \in Nat
    BY FS_CardinalityType DEF SearchInv, SeenInv
  <2>2. Cardinality(result'.carry) = Min({Cardinality(seen), MaxCarry})
    BY <1>1 DEF kSubset
  <2>3. QED
    BY <2>1, <2>2, MinOfTwo, Parameters
<1>4. QED
  BY <1>1, <1>2, <1>3, FinishJob DEF SearchInv

-----------------------------------------------------------------------------
(***************************************************************************)
(* What holds of every search                                              *)
(***************************************************************************)

\* The worker cancels.
LEMMA StoppedSearch ==
  ASSUME SearchInv, Stopped
  PROVE  SearchInv'
<1>1. /\ cancelled' = TRUE
      /\ UNCHANGED <<job, pc, iters, result, phase, walk, ils, polished, tabu, treeVars, seen, anneal>>
  BY DEF Stopped, Cancel, polishVars, treeVars
<1>2. JobInv'
  BY <1>1 DEF SearchInv, JobInv
<1>3. BeamInv' /\ DepthInv' /\ SeenInv' /\ PolishInv' /\ TabuInv' /\ AnnealInv'
  BY <1>1, FrameTree, FrameSeen, FramePolish, FrameTabu, FrameAnneal DEF SearchInv
<1>4. QED
  BY <1>2, <1>3 DEF SearchInv

\* The steps of polishing.
LEMMA PolishingSearch ==
  ASSUME SearchInv, Polishing
  PROVE  SearchInv'
<1>1. /\ phase # "idle"
      /\ UNCHANGED <<job, pc, cancelled, iters, result, tabu, treeVars, seen, anneal>>
      /\ PolishStep \/ PolishEndWalk \/ PolishReturn
  BY DEF Polishing, PolishStep, PolishEndWalk, PolishReturn, treeVars
<1>2. JobInv'
  BY <1>1, FrameJob DEF SearchInv, JobInv
<1>3. PolishInv'
  BY <1>1, StepPolish, EndWalkPolish, ReturnPolish DEF SearchInv
<1>4. BeamInv' /\ DepthInv' /\ SeenInv' /\ TabuInv' /\ AnnealInv'
  BY <1>1, FrameTree, FrameSeen, FrameTabu, FrameAnneal DEF SearchInv
<1>5. QED
  BY <1>2, <1>3, <1>4 DEF SearchInv

\* Nothing happens.
LEMMA StutterSearch ==
  ASSUME SearchInv, UNCHANGED vars
  PROVE  SearchInv'
<1>1. UNCHANGED <<job, pc, cancelled, iters, result, phase, walk, ils, polished, tabu, treeVars, seen, anneal>>
  BY DEF vars, jobVars, polishVars, treeVars
<1>2. JobInv'
  BY <1>1 DEF SearchInv, JobInv
<1>3. BeamInv' /\ DepthInv' /\ SeenInv' /\ PolishInv' /\ TabuInv' /\ AnnealInv'
  BY <1>1, FrameTree, FrameSeen, FramePolish, FrameTabu, FrameAnneal DEF SearchInv
<1>4. QED
  BY <1>2, <1>3 DEF SearchInv

\* Every step of a search keeps the invariant.
LEMMA SearchStep == SearchInv /\ [Next]_vars => SearchInv'
<1> SUFFICES ASSUME SearchInv, [Next]_vars
             PROVE  SearchInv'
  OBVIOUS
<1>1. CASE UNCHANGED vars
  BY <1>1, StutterSearch
<1>2. CASE Stopped
  BY <1>2, StoppedSearch
<1>3. CASE Polishing
  BY <1>3, PolishingSearch
<1>4. CASE TabuNext /\ UNCHANGED <<treeVars, anneal>>
  BY <1>4, StartTabu, IterateTabu, FinishTabu DEF TabuNext
<1>5. CASE TreeNext /\ UNCHANGED <<tabu, anneal>>
  BY <1>5, StartTree, DepthTree, ParentTree, SkipTree, TryTree, NextBeamTree, FinishTree DEF TreeNext
<1>6. CASE AnnealNext /\ UNCHANGED <<polishVars, tabu, treeVars>>
  BY <1>6, StartAnneal, IterateAnneal, FinishAnneal DEF AnnealNext
<1>7. QED
  BY <1>1, <1>2, <1>3, <1>4, <1>5, <1>6 DEF Next, Strategy, Done

\* The inductive invariant holds in every state of every search.
THEOREM SearchInvAlways == Spec => []SearchInv
<1>1. Init => SearchInv
  BY InitSearch
<1>2. SearchInv /\ [Next]_vars => SearchInv'
  BY SearchStep
<1>3. QED
  BY <1>1, <1>2, PTL DEF Spec

\* The beam search keeps its budgets of scored flips, beam entries, polishing runs
\* and carried fingerprints (tree2.rs, search), for any parameters.
THEOREM BudgetKeptAlways == Spec => []BudgetKept
<1>1. SearchInv => BudgetKept
  <2> SUFFICES ASSUME SearchInv
               PROVE  BudgetKept
    OBVIOUS
  <2>1. iters \in 0..job.maxIters /\ job.maxIters \in Nat /\ Cardinality(result.carry) <= MaxCarry
        /\ (pc = "start" => iters = 0)
    BY Parameters DEF SearchInv, JobInv
  <2>2. Len(beam) <= Max({1, BeamWidth}) /\ (MaxPolish > 0 => polishes <= MaxPolish)
    BY DEF SearchInv, BeamInv, DepthInv
  <2>3. job.strategy = "tree2" => iters <= Cardinality(seen \ job.carry)
    <3>1. Cardinality(seen \ job.carry) \in Nat
      <4>1. IsFiniteSet(seen \ job.carry)
        BY FS_Subset DEF SearchInv, SeenInv
      <4>2. QED
        BY <4>1, FS_CardinalityType
    <3>2. QED
      BY <2>1, <3>1 DEF SearchInv, SeenInv
  <2>4. iters <= job.maxIters
    BY <2>1
  <2>5. QED
    BY <2>1, <2>2, <2>3, <2>4 DEF BudgetKept
<1>2. QED
  BY <1>1, SearchInvAlways, PTL

\* The violations and clique counts that the strategies carry along by deltas are
\* always those of the graph they stand on: no recount would correct one.
THEOREM CountsTrueAlways == Spec => []CountsTrue
<1>1. SearchInv => CountsTrue
  <2> SUFFICES ASSUME SearchInv
               PROVE  CountsTrue
    OBVIOUS
  <2>1. tabu # NoTabu => tabu.violations = Violations(tabu.adj, tabu.comp)
    BY DEF SearchInv, TabuInv, TabuTrue
  <2>2. anneal # NoAnneal => anneal.violations = Violations(anneal.adj, anneal.comp)
    BY DEF SearchInv, AnnealInv, AnnealTrue
  <2>3. phase = "walk" => walk.score = Counts(walk.adj, walk.comp)
    BY DEF SearchInv, PolishInv, ScoreTrue
  <2>4. ASSUME NEW i \in DOMAIN beam
        PROVE  beam[i] = EntryOf(FromAdj(GraphOf(beam[i].adj)), FromAdj(Complement(GraphOf(beam[i].adj))))
    <3>1. BothMasks(beam[i].adj, beam[i].comp) /\ beam[i] = EntryOf(beam[i].adj, beam[i].comp)
      BY <2>4 DEF SearchInv, BeamInv, EntryTrue
    <3>2. FromAdj(GraphOf(beam[i].adj)) = beam[i].adj /\ FromAdj(Complement(GraphOf(beam[i].adj))) = beam[i].comp
      BY <3>1, BothBack
    <3>3. QED
      BY <3>1, <3>2
  <2>5. QED
    BY <2>1, <2>2, <2>3, <2>4 DEF CountsTrue
<1>2. QED
  BY <1>1, SearchInvAlways, PTL

\* A polish walk (polish.rs, polish_valid_graph) never leaves the valid graphs, and what
\* ils_polish returns scores strictly better than what it was given.
THEOREM PolishGainsAlways == Spec => []PolishGains
<1>1. SearchInv => PolishGains
  <2> SUFFICES ASSUME SearchInv
               PROVE  PolishGains
    OBVIOUS
  <2>1. ASSUME phase = "walk"
        PROVE  IsValid(GraphOf(walk.adj)) /\ IsValid(walk.best) /\ (ils.best # NoGraph => IsValid(ils.best))
    <3>1. BothMasks(walk.adj, walk.comp) /\ Violations(walk.adj, walk.comp) = 0 /\ ValidGraph(walk.best) /\ IlsTrue
      BY <2>1 DEF SearchInv, PolishInv, ScoreTrue
    <3>2. ViolationsOf(GraphOf(walk.adj)) = 0
      BY <3>1, BothBack
    <3>3. QED
      BY <3>1, <3>2 DEF IsValid, ValidGraph, IlsTrue
  <2>2. phase = "back" /\ polished # NoGraph => IsValid(polished) /\ LexLess(ScoreValid(polished), ScoreValid(ils.from))
    BY DEF SearchInv, PolishInv, IsValid, ValidGraph
  <2>3. QED
    BY <2>1, <2>2 DEF PolishGains
<1>2. QED
  BY <1>1, SearchInvAlways, PTL

-----------------------------------------------------------------------------
(***************************************************************************)
(* Every search ends                                                       *)
(***************************************************************************)

\* The ten numbers of what remains.
LEMMA RemainingNow ==
  /\ Len(Remaining) = 10
  /\ Remaining[1] = IF pc = "start" THEN 2 ELSE IF pc = "done" THEN 0 ELSE 1
  /\ Remaining[2] = MaxDepth - depth
  /\ Remaining[3] = IF pc = "depth" THEN 1 ELSE 0
  /\ Remaining[4] = Len(beam) - parent
  /\ Remaining[5] = IF pc = "flip" THEN 1 + Len(todo) ELSE 0
  /\ Remaining[6] = job.maxIters - iters
  /\ phase \in {"idle", "walk", "back"} => Remaining[7] = IF phase = "walk" THEN 2 ELSE IF phase = "back" THEN 1 ELSE 0
  /\ Remaining[8] = ils.left
  /\ Remaining[9] = PolishSteps - walk.step
  /\ Remaining[10] = IF cancelled THEN 0 ELSE 1
BY DEF Remaining

\* The same after a step.
LEMMA RemainingNext ==
  /\ Len(Remaining') = 10
  /\ Remaining'[1] = IF pc' = "start" THEN 2 ELSE IF pc' = "done" THEN 0 ELSE 1
  /\ Remaining'[2] = MaxDepth - depth'
  /\ Remaining'[3] = IF pc' = "depth" THEN 1 ELSE 0
  /\ Remaining'[4] = Len(beam') - parent'
  /\ Remaining'[5] = IF pc' = "flip" THEN 1 + Len(todo') ELSE 0
  /\ Remaining'[6] = job'.maxIters - iters'
  /\ phase' \in {"idle", "walk", "back"} => Remaining'[7] = IF phase' = "walk" THEN 2 ELSE IF phase' = "back" THEN 1 ELSE 0
  /\ Remaining'[8] = ils'.left
  /\ Remaining'[9] = PolishSteps - walk'.step
  /\ Remaining'[10] = IF cancelled' THEN 0 ELSE 1
BY DEF Remaining

\* Ten numbers make a sequence of numbers.
LEMMA TenNumbers ==
  ASSUME NEW a1 \in Nat, NEW a2 \in Nat, NEW a3 \in Nat, NEW a4 \in Nat, NEW a5 \in Nat,
         NEW a6 \in Nat, NEW a7 \in Nat, NEW a8 \in Nat, NEW a9 \in Nat, NEW a10 \in Nat
  PROVE  <<a1, a2, a3, a4, a5, a6, a7, a8, a9, a10>> \in Seq(Nat)
OBVIOUS

\* What remains is a sequence of natural numbers, none ever less than zero.
LEMMA RemainingType == SearchInv => Remaining \in Seq(Nat)
<1> SUFFICES ASSUME SearchInv
             PROVE  Remaining \in Seq(Nat)
  OBVIOUS
<1>1. MaxDepth - depth \in Nat
  BY Parameters DEF SearchInv, DepthInv
<1>2. Len(beam) - parent \in Nat
  BY ListIs DEF SearchInv, DepthInv, BeamInv
<1>3. 1 + Len(todo) \in Nat
  BY DEF SearchInv, DepthInv
<1>4. job.maxIters - iters \in Nat
  BY Parameters DEF SearchInv, JobInv
<1>5. ils.left \in Nat /\ PolishSteps - walk.step \in Nat /\ phase \in {"idle", "walk", "back"}
  BY Parameters DEF SearchInv, PolishInv
<1>6. PICK a1 \in Nat : a1 = CASE pc = "start" -> 2 [] pc = "done" -> 0 [] OTHER -> 1
  OBVIOUS
<1>7. PICK a3 \in Nat : a3 = IF pc = "depth" THEN 1 ELSE 0
  OBVIOUS
<1>8. PICK a5 \in Nat : a5 = IF pc = "flip" THEN 1 + Len(todo) ELSE 0
  BY <1>3
<1>9. PICK a7 \in Nat : a7 = CASE phase = "walk" -> 2 [] phase = "back" -> 1 [] phase = "idle" -> 0
  BY <1>5
<1>10. PICK a10 \in Nat : a10 = IF cancelled THEN 0 ELSE 1
  OBVIOUS
<1>11. Remaining = <<a1, MaxDepth - depth, a3, Len(beam) - parent, a5, job.maxIters - iters, a7,
                     ils.left, PolishSteps - walk.step, a10>>
  BY <1>6, <1>7, <1>8, <1>9, <1>10 DEF Remaining
<1>12. QED
  BY <1>1, <1>2, <1>4, <1>5, <1>11, TenNumbers

\* A step lowers the i-th number and leaves those before it.
Falls(i) == Remaining'[i] < Remaining[i] /\ \A j \in 1..(i - 1) : Remaining'[j] = Remaining[j]

\* Such a step leaves less.
LEMMA FallsLess ==
  ASSUME Remaining \in Seq(Nat), Remaining' \in Seq(Nat), NEW i \in 1..10, Falls(i)
  PROVE  LexLess(Remaining', Remaining)
<1>1. Len(Remaining) = 10 /\ Len(Remaining') = 10
  BY RemainingNow, RemainingNext
<1>2. Remaining \in Seq(Int) /\ Remaining' \in Seq(Int)
  BY SeqMonotonic
<1>3. PICK x : x = Remaining'
  OBVIOUS
<1>4. PICK y : y = Remaining
  OBVIOUS
<1>5. \E k \in 1..Len(y) : x[k] < y[k] /\ \A j \in 1..(k - 1) : x[j] = y[j]
  BY <1>1, <1>3, <1>4 DEF Falls
<1>6. LexLess(x, y)
  BY <1>1, <1>2, <1>3, <1>4, <1>5, LexAtFirst
<1>7. QED
  BY <1>3, <1>4, <1>6

\* A search that begins has begun.
LEMMA StartFalls ==
  ASSUME pc = "start", pc' # "start"
  PROVE  Falls(1)
BY RemainingNow, RemainingNext DEF Falls

\* A search that ends has ended.
LEMMA DoneFalls ==
  ASSUME pc # "done", pc' = "done"
  PROVE  Falls(1)
BY RemainingNow, RemainingNext DEF Falls

\* An iteration of a search that tries no parents.
LEMMA IterationFalls ==
  ASSUME pc = "loop", pc' = "loop", UNCHANGED <<job, beam, depth, parent>>, iters' = iters + 1,
         iters \in Nat, job.maxIters \in Nat
  PROVE  Falls(6)
BY RemainingNow, RemainingNext DEF Falls

\* A step of the beam search within a depth.
LEMMA DepthFalls ==
  ASSUME pc = "depth", pc' = "parent", UNCHANGED depth
  PROVE  Falls(3)
BY RemainingNow, RemainingNext DEF Falls

\* The next beam is one depth further.
LEMMA BeamFalls ==
  ASSUME pc = "parent", pc' = "depth", depth' = depth + 1, depth \in Nat
  PROVE  Falls(2)
BY RemainingNow, RemainingNext, Parameters DEF Falls

\* The next parent of a depth.
LEMMA ParentFalls ==
  ASSUME pc = "parent", pc' = "flip", UNCHANGED <<beam, depth>>, parent' = parent + 1, parent \in Nat, Len(beam) \in Nat
  PROVE  Falls(4)
BY RemainingNow, RemainingNext DEF Falls

\* A slot tried or passed over.
LEMMA FlipFalls ==
  ASSUME pc = "flip", UNCHANGED <<beam, depth, parent>>, todo \in Seq(Slots(N)),
         pc' = "parent" \/ (pc' = "flip" /\ todo # <<>> /\ todo' = Tail(todo))
  PROVE  Falls(5)
<1>1. Len(todo) \in Nat
  OBVIOUS
<1>2. CASE pc' = "parent"
  BY <1>1, <1>2, RemainingNow, RemainingNext DEF Falls
<1>3. CASE pc' = "flip" /\ todo # <<>> /\ todo' = Tail(todo)
  <2>1. Len(todo') = Len(todo) - 1
    BY <1>3
  <2>2. QED
    BY <1>1, <1>3, <2>1, RemainingNow, RemainingNext DEF Falls
<1>4. QED
  BY <1>2, <1>3

\* A polish that ends.
LEMMA PhaseFalls ==
  ASSUME UNCHANGED <<pc, job, iters, beam, depth, parent, todo>>,
         (phase = "walk" /\ phase' = "back") \/ (phase = "back" /\ phase' = "idle")
  PROVE  Falls(7)
BY RemainingNow, RemainingNext DEF Falls

\* One restart less.
LEMMA RestartFalls ==
  ASSUME UNCHANGED <<pc, job, iters, beam, depth, parent, todo, phase>>, phase = "walk",
         ils'.left = ils.left - 1, ils.left \in Nat
  PROVE  Falls(8)
BY RemainingNow, RemainingNext DEF Falls

\* One step of the walk more.
LEMMA WalkFalls ==
  ASSUME UNCHANGED <<pc, job, iters, beam, depth, parent, todo, phase, ils>>, phase = "walk",
         walk'.step = walk.step + 1, walk.step \in Nat
  PROVE  Falls(9)
BY RemainingNow, RemainingNext, Parameters DEF Falls

\* A search is cancelled once.
LEMMA CancelFalls ==
  ASSUME UNCHANGED <<pc, job, iters, beam, depth, parent, todo, phase, ils, walk>>, ~cancelled, cancelled' = TRUE,
         phase \in {"idle", "walk", "back"}
  PROVE  Falls(10)
<1>1. Remaining'[7] = Remaining[7]
  BY RemainingNow, RemainingNext
<1>2. /\ Remaining'[1] = Remaining[1] /\ Remaining'[2] = Remaining[2] /\ Remaining'[3] = Remaining[3]
      /\ Remaining'[4] = Remaining[4] /\ Remaining'[5] = Remaining[5] /\ Remaining'[6] = Remaining[6]
      /\ Remaining'[8] = Remaining[8] /\ Remaining'[9] = Remaining[9]
  BY RemainingNow, RemainingNext
<1>3. Remaining'[10] < Remaining[10]
  BY RemainingNow, RemainingNext
<1>4. QED
  BY <1>1, <1>2, <1>3 DEF Falls

\* The steps of the tabu search leave less.
LEMMA TabuFalls ==
  ASSUME SearchInv, TabuNext, UNCHANGED treeVars
  PROVE  \E i \in 1..10 : Falls(i)
<1>1. 1 \in 1..10 /\ 6 \in 1..10 /\ iters \in Nat /\ job.maxIters \in Nat
  BY Parameters DEF SearchInv, JobInv
<1>2. CASE TabuStart
  <2>1. pc = "start" /\ pc' # "start"
    BY <1>2 DEF TabuStart
  <2>2. QED
    BY <1>1, <2>1, StartFalls
<1>3. CASE TabuIterate
  <2>1. pc = "loop" /\ pc' = "loop" /\ UNCHANGED <<job, beam, depth, parent>> /\ iters' = iters + 1
    <3>1. \E p, x, y : TabuMove(p, x, y)
      BY <1>3 DEF TabuIterate
    <3>2. QED
      BY <1>3, <3>1 DEF TabuIterate, TabuMove, treeVars
  <2>2. QED
    BY <1>1, <2>1, IterationFalls
<1>4. CASE TabuFinish
  <2>1. pc # "done" /\ pc' = "done"
    BY <1>4 DEF TabuFinish, Finish
  <2>2. QED
    BY <1>1, <2>1, DoneFalls
<1>5. QED
  BY <1>2, <1>3, <1>4 DEF TabuNext

\* The steps of the annealing leave less.
LEMMA AnnealFalls ==
  ASSUME SearchInv, AnnealNext, UNCHANGED treeVars
  PROVE  \E i \in 1..10 : Falls(i)
<1>1. 1 \in 1..10 /\ 6 \in 1..10 /\ iters \in Nat /\ job.maxIters \in Nat
  BY Parameters DEF SearchInv, JobInv
<1>2. CASE AnnealStart
  <2>1. pc = "start" /\ pc' # "start"
    BY <1>2 DEF AnnealStart
  <2>2. QED
    BY <1>1, <2>1, StartFalls
<1>3. CASE AnnealIterate
  <2>1. pc = "loop" /\ pc' = "loop" /\ UNCHANGED <<job, beam, depth, parent>> /\ iters' = iters + 1
    BY <1>3 DEF AnnealIterate, treeVars
  <2>2. QED
    BY <1>1, <2>1, IterationFalls
<1>4. CASE AnnealFinish
  <2>1. pc # "done" /\ pc' = "done"
    BY <1>4 DEF AnnealFinish
  <2>2. QED
    BY <1>1, <2>1, DoneFalls
<1>5. QED
  BY <1>2, <1>3, <1>4 DEF AnnealNext

\* The steps of the beam search leave less.
LEMMA TreeFalls ==
  ASSUME SearchInv, TreeNext
  PROVE  \E i \in 1..10 : Falls(i)
<1>1. 1 \in 1..10 /\ 2 \in 1..10 /\ 3 \in 1..10 /\ 4 \in 1..10 /\ 5 \in 1..10
  OBVIOUS
<1>2. depth \in Nat /\ parent \in Nat /\ Len(beam) \in Nat /\ todo \in Seq(Slots(N))
  BY ListIs, Parameters DEF SearchInv, DepthInv, BeamInv
<1>3. CASE TreeStart
  <2>1. pc = "start" /\ pc' # "start"
    BY <1>3 DEF TreeStart
  <2>2. QED
    BY <1>1, <2>1, StartFalls
<1>4. CASE TreeDepth
  <2>1. pc = "depth" /\ pc' = "parent" /\ UNCHANGED depth
    BY <1>4 DEF TreeDepth
  <2>2. QED
    BY <1>1, <2>1, DepthFalls
<1>5. CASE TreeParent
  <2>1. pc = "parent" /\ pc' = "flip" /\ UNCHANGED <<beam, depth>> /\ parent' = parent + 1
    BY <1>5 DEF TreeParent
  <2>2. QED
    BY <1>1, <1>2, <2>1, ParentFalls
<1>6. CASE TreeNextParent \/ TreeSkip \/ TreeTry
  <2>1. /\ pc = "flip" /\ UNCHANGED <<beam, depth, parent>>
        /\ pc' = "parent" \/ (pc' = "flip" /\ todo # <<>> /\ todo' = Tail(todo))
    BY <1>6 DEF TreeNextParent, TreeSkip, TreeTry, treeVars
  <2>2. QED
    BY <1>1, <1>2, <2>1, FlipFalls
<1>7. CASE TreeNextBeam
  <2>1. pc = "parent" /\ pc' = "depth" /\ depth' = depth + 1
    BY <1>7 DEF TreeNextBeam
  <2>2. QED
    BY <1>1, <1>2, <2>1, BeamFalls
<1>8. CASE TreeFinish
  <2>1. pc # "done" /\ pc' = "done"
    BY <1>8 DEF TreeFinish, Finish
  <2>2. QED
    BY <1>1, <2>1, DoneFalls
<1>9. QED
  BY <1>3, <1>4, <1>5, <1>6, <1>7, <1>8 DEF TreeNext

\* The steps of polishing leave less.
LEMMA PolishingFalls ==
  ASSUME SearchInv, Polishing
  PROVE  \E i \in 1..10 : Falls(i)
<1>1. 7 \in 1..10 /\ 8 \in 1..10 /\ 9 \in 1..10 /\ ils.left \in Nat /\ walk.step \in Nat
  BY Parameters DEF SearchInv, PolishInv
<1>2. UNCHANGED <<pc, job, iters, beam, depth, parent, todo>>
  BY DEF Polishing, treeVars
<1>3. CASE PolishStep
  <2>1. phase = "walk" /\ UNCHANGED <<phase, ils>> /\ walk'.step = walk.step + 1
    <3>1. \E x : walk'.step = x /\ x = walk.step + 1
      BY <1>3, StepIs, ZenonT(30) DEF SearchInv
    <3>2. QED
      BY <1>3, <3>1 DEF PolishStep
  <2>2. QED
    BY <1>1, <1>2, <2>1, WalkFalls
<1>4. CASE PolishEndWalk
  <2>1. CASE ils.left = 0
    <3>1. phase = "walk" /\ phase' = "back"
      BY <1>4, <2>1 DEF PolishEndWalk
    <3>2. QED
      BY <1>1, <1>2, <3>1, PhaseFalls
  <2>2. CASE ils.left # 0
    <3>1. phase = "walk" /\ UNCHANGED phase /\ \E g, x, y : ils' = Again(g, x, y)
      BY <1>4, <2>2 DEF PolishEndWalk
    <3>2. "left" \in DOMAIN ils
      BY <3>1 DEF SearchInv, PolishInv, IlsTrue
    <3>3. ils'.left = ils.left - 1
      BY <3>1, <3>2 DEF Again
    <3>4. QED
      BY <1>1, <1>2, <3>1, <3>3, RestartFalls
  <2>3. QED
    BY <2>1, <2>2
<1>5. CASE PolishReturn
  <2>1. phase = "back" /\ phase' = "idle"
    BY <1>5 DEF PolishReturn
  <2>2. QED
    BY <1>1, <1>2, <2>1, PhaseFalls
<1>6. QED
  BY <1>3, <1>4, <1>5 DEF Polishing

\* Cancelling leaves less.
LEMMA StoppedFalls ==
  ASSUME SearchInv, Stopped
  PROVE  \E i \in 1..10 : Falls(i)
<1>1. /\ UNCHANGED <<pc, job, iters, beam, depth, parent, todo, phase, ils, walk>>
      /\ ~cancelled /\ cancelled' = TRUE
  BY DEF Stopped, Cancel, treeVars, polishVars
<1>2. phase \in {"idle", "walk", "back"} /\ 10 \in 1..10
  BY DEF SearchInv, PolishInv
<1>3. QED
  BY <1>1, <1>2, CancelFalls

\* What SearchEnds says of a step.
LessRemains == LexLess(Remaining', Remaining) /\ Remaining' \in Seq(Nat)

\* What remains is made of natural numbers.
NumbersRemain == Remaining \in Seq(Nat)

\* Every step leaves less.
LEMMA StepLeavesLess ==
  ASSUME SearchInv, Next, NumbersRemain'
  PROVE  LessRemains \/ UNCHANGED vars
<1>1. CASE Strategy \/ Polishing \/ Stopped
  <2>2. Remaining \in Seq(Nat) /\ Remaining' \in Seq(Nat)
    BY RemainingType DEF NumbersRemain
  <2>3. \E i \in 1..10 : Falls(i)
    BY <1>1, TabuFalls, AnnealFalls, TreeFalls, PolishingFalls, StoppedFalls DEF Strategy
  <2>4. QED
    BY <2>2, <2>3, FallsLess DEF LessRemains
<1>2. CASE Done
  BY <1>2 DEF Done
<1>3. QED
  BY <1>1, <1>2 DEF Next

\* Every search ends, whatever its strategy, its polishing and its parameters: each
\* step of the loops of tabu.rs, tree2.rs, sa.rs and polish.rs, or a cancellation,
\* leaves lexicographically less of ten natural numbers.
THEOREM SearchEndsAlways == Spec => SearchEnds
<1>1. SearchInv => NumbersRemain
  BY RemainingType DEF NumbersRemain
<1>2. SearchInv /\ NumbersRemain' /\ [Next]_vars => [LessRemains]_vars
  BY StepLeavesLess
<1>3. QED
  BY <1>1, <1>2, SearchInvAlways, PTL DEF Spec, SearchEnds, LessRemains

-----------------------------------------------------------------------------
(***************************************************************************)
(* Reports and results                                                     *)
(***************************************************************************)

\* The CIDs of one more report.
LEMMA CidsMore ==
  ASSUME NEW s, NEW g, IsList(s)
  PROVE  Cids(Append(s, g)) = Cids(s) \cup {Cid(g)}
<1> DEFINE t == Append(s, g)
<1>1. /\ \A i \in DOMAIN t : (i \in DOMAIN s /\ t[i] = s[i]) \/ t[i] = g
      /\ \A i \in DOMAIN s : i \in DOMAIN t /\ t[i] = s[i]
      /\ Len(s) + 1 \in DOMAIN t /\ t[Len(s) + 1] = g
  BY AppendList
<1> HIDE DEF t
<1>2. ASSUME NEW i \in DOMAIN t
      PROVE  Cid(t[i]) \in Cids(s) \cup {Cid(g)}
  BY <1>1 DEF Cids
<1>3. ASSUME NEW i \in DOMAIN s
      PROVE  Cid(s[i]) \in Cids(t)
  <2>1. i \in DOMAIN t /\ t[i] = s[i]
    BY <1>1
  <2>2. QED
    BY <2>1 DEF Cids
<1>4. Cid(g) \in Cids(t)
  BY <1>1 DEF Cids
<1>5. Cids(t) = Cids(s) \cup {Cid(g)}
  BY <1>2, <1>3, <1>4 DEF Cids
<1>6. QED
  BY <1>5 DEF t

\* on_discovery with a valid graph: reported if it was not known, and known then.
LEMMA ReportStep ==
  ASSUME ReportInv, NEW g, ViolationsOf(g) = 0, Discover(g), job' = job, pc' # "start"
  PROVE  ReportInv' /\ known \subseteq known' /\ Cid(g) \in known'
<1>1. CASE Cid(g) \in known
  <2>1. known' = known /\ reported' = reported
    BY <1>1 DEF Discover, IsNovel
  <2>2. QED
    BY <1>1, <2>1 DEF ReportInv, IsList, Cids
<1>2. CASE Cid(g) \notin known
  <2>1. known' = known \cup {Cid(g)} /\ reported' = Append(reported, g)
    BY <1>2 DEF Discover, IsNovel
  <2>2. /\ IsList(reported) /\ \A i \in DOMAIN reported : ViolationsOf(reported[i]) = 0
        /\ known = job.known \cup Cids(reported) /\ Cids(reported) \cap job.known = {}
        /\ IsFiniteSet(Cids(reported)) /\ Cardinality(Cids(reported)) = Len(reported)
    BY DEF ReportInv
  <2>3. Cids(reported') = Cids(reported) \cup {Cid(g)} /\ Len(reported') = Len(reported) + 1 /\ IsList(reported')
    BY <2>1, <2>2, CidsMore, AppendList
  <2>4. IsFiniteSet(Cids(reported')) /\ Cardinality(Cids(reported')) = Len(reported')
    <3>1. Cid(g) \notin Cids(reported)
      BY <1>2, <2>2
    <3>2. QED
      BY <2>2, <2>3, <3>1, FS_AddElement
  <2>5. \A i \in DOMAIN reported' : ViolationsOf(reported'[i]) = 0
    BY <2>1, <2>2, AppendList
  <2>6. known' = job.known \cup Cids(reported') /\ Cids(reported') \cap job.known = {}
    BY <1>2, <2>1, <2>2, <2>3
  <2>7. Cids(reported)' = Cids(reported') /\ IsList(reported)' = IsList(reported')
    BY DEF Cids, IsList
  <2>8. QED
    BY <2>1, <2>3, <2>4, <2>5, <2>6, <2>7 DEF ReportInv
<1>3. QED
  BY <1>1, <1>2

\* Steps that report nothing.
LEMMA NoReport ==
  ASSUME ReportInv, UNCHANGED <<known, reported, job>>, pc' # "start" \/ pc' = pc
  PROVE  ReportInv' /\ known \subseteq known'
BY DEF ReportInv, IsList, Cids

\* Steps that leave the polish walk alone.
LEMMA FrameWalkFound ==
  ASSUME WalkFound, UNCHANGED <<job, walk, ils, polished>>, phase' \in {phase, "idle"}, known \subseteq known'
  PROVE  WalkFound'
BY DEF WalkFound, MayReturn

\* Steps that leave the best graphs alone.
LEMMA FrameBest ==
  ASSUME BestFound, UNCHANGED <<job, bestValid, bestInvalid>>, known \subseteq known'
  PROVE  BestFound'
BY DEF BestFound, MayReturn, NotLost

\* Steps that leave the annealing alone.
LEMMA FrameAnnealFound ==
  ASSUME AnnealFound, job' = job, known \subseteq known',
         job.strategy # "sa" \/ pc' # "loop" \/ (pc' = pc /\ UNCHANGED <<anneal, reported>>)
  PROVE  AnnealFound'
BY DEF AnnealFound

\* Steps that leave the result alone.
LEMMA FrameResult ==
  ASSUME ResultFound, known \subseteq known', job' = job, pc' # "done" \/ (pc' = pc /\ result' = result)
  PROVE  ResultFound'
BY DEF ResultFound, MayReturn, NotLost

\* The walk that a strategy begins.
LEMMA BeginFound ==
  ASSUME NEW g, NEW r, PolishBegin(g, r), Plain(job) => r = 0, job' = job, job.strategy # "sa"
  PROVE  WalkFound'
<1>1. /\ phase' = "walk" /\ walk'.improved = FALSE
      /\ ils'.left = r /\ ils'.start = g /\ ils'.from = g /\ ils'.best = NoGraph
  BY DEF PolishBegin, WalkFrom
<1>2. Plain(job)' = Plain(job)
  BY DEF Plain
<1>3. QED
  BY <1>1, <1>2 DEF WalkFound

\* A search ends with the best graphs that it kept.
LEMMA FinishFound ==
  ASSUME BestFound, NEW used, NEW carry, Finish(used, carry), UNCHANGED <<job, known>>
  PROVE  ResultFound'
<1>1. /\ result'.valid = (bestValid # NoGraph)
      /\ result'.best = IF bestValid # NoGraph THEN bestValid ELSE bestInvalid.graph
  BY DEF Finish
<1>2. /\ result'.valid => MayReturn(job, known, result'.best)
      /\ ~result'.valid => NotLost(known, result'.best)
  BY <1>1 DEF BestFound
<1>3. QED
  BY <1>2 DEF ResultFound, MayReturn, NotLost

\* A step that reports nothing and ends nothing.
LEMMA QuietStep ==
  ASSUME HonestInv, UNCHANGED <<job, known, reported, bestValid, bestInvalid, phase, walk, ils, polished, anneal, result>>,
         pc' = pc \/ (job.strategy # "sa" /\ pc' \in {"depth", "parent", "flip"})
  PROVE  HonestInv'
<1>1. ReportInv' /\ known \subseteq known'
  BY NoReport DEF HonestInv
<1>2. WalkFound' /\ BestFound' /\ AnnealFound' /\ ResultFound'
  BY <1>1, FrameWalkFound, FrameBest, FrameAnnealFound, FrameResult DEF HonestInv
<1>3. QED
  BY <1>1, <1>2 DEF HonestInv

\* The seed of a job is the graph made of its masks.
LEMMA SeedIs ==
  ASSUME SearchInv
  PROVE  job.seed.n = N /\ ViolationsOf(job.seed) \in Nat
<1>1. job.seed.n = N
  BY Parameters DEF SearchInv, JobInv
<1>2. QED
  BY <1>1, BothOfGraph, ViolationsFollow DEF ViolationsOf

\* A search begins with nothing reported.
LEMMA InitHonest == Init => HonestInv
<1> SUFFICES ASSUME Init
             PROVE  HonestInv
  OBVIOUS
<1>1. /\ pc = "start" /\ reported = <<>> /\ known = job.known /\ bestValid = NoGraph /\ bestInvalid = NoBest
      /\ phase = "idle"
  BY Zenon DEF Init
<1>2. <<>> \in Seq({}) /\ Len(<<>>) = 0 /\ DOMAIN <<>> = {}
  OBVIOUS
<1>3. IsList(<<>>)
  BY <1>2, ListOf
<1>4. Cids(<<>>) = {}
  BY <1>2 DEF Cids
<1>5. ReportInv
  BY <1>1, <1>2, <1>3, <1>4, FS_EmptySet DEF ReportInv
<1>6. bestInvalid.graph = NoGraph
  BY <1>1 DEF NoBest
<1>7. QED
  BY <1>1, <1>5, <1>6 DEF HonestInv, WalkFound, BestFound, AnnealFound, ResultFound, MayReturn, NotLost

\* The tabu search reports a valid seed.
LEMMA StartTabuHonest ==
  ASSUME SearchInv, HonestInv, TabuStart, UNCHANGED anneal
  PROVE  HonestInv'
<1>1. PICK v : v = ViolationsOf(job.seed)
  OBVIOUS
<1>2. v \in Nat
  BY <1>1, SeedIs
<1>3. /\ job.strategy = "tabu" /\ pc = "start" /\ pc' = "loop" /\ UNCHANGED <<job, cancelled, iters, result>>
      /\ bestInvalid' = [graph |-> job.seed, violations |-> v]
      /\ IF v > 0
         THEN UNCHANGED <<known, reported, bestValid>> /\ NoPolish
         ELSE /\ Discover(job.seed)
              /\ bestValid' = IF IsNovel(job.seed) THEN job.seed ELSE NoGraph
              /\ IF PolishSteps > 0 THEN PolishBegin(job.seed, 0) ELSE NoPolish
  BY <1>1, Zenon DEF TabuStart, ViolationsOf
<1>4. CASE v > 0
  <2>1. UNCHANGED <<known, reported, bestValid>> /\ NoPolish /\ bestInvalid'.graph = job.seed
    BY <1>3, <1>4
  <2>2. ReportInv' /\ known \subseteq known'
    BY <1>3, <2>1, NoReport DEF HonestInv
  <2>3. WalkFound'
    BY <1>3, <2>1, <2>2, FrameWalkFound DEF HonestInv, NoPolish
  <2>4. BestFound'
    BY <1>1, <1>3, <1>4, <2>1 DEF HonestInv, BestFound, MayReturn, NotLost
  <2>5. AnnealFound' /\ ResultFound'
    BY <1>3, <2>2, FrameAnnealFound, FrameResult DEF HonestInv
  <2>6. QED
    BY <2>2, <2>3, <2>4, <2>5 DEF HonestInv
<1>5. CASE ~(v > 0)
  <2>1. /\ Discover(job.seed) /\ bestValid' \in {job.seed, NoGraph} /\ bestInvalid'.graph = job.seed
        /\ PolishBegin(job.seed, 0) \/ NoPolish
        /\ ViolationsOf(job.seed) = 0
    BY <1>1, <1>2, <1>3, <1>5
  <2>2. ReportInv' /\ known \subseteq known' /\ Cid(job.seed) \in known'
    BY <1>3, <2>1, ReportStep DEF HonestInv
  <2>3. WalkFound'
    <3>1. CASE NoPolish
      BY <1>3, <2>2, <3>1, FrameWalkFound DEF HonestInv, NoPolish
    <3>2. CASE PolishBegin(job.seed, 0)
      BY <1>3, <3>2, BeginFound
    <3>3. QED
      BY <2>1, <3>1, <3>2
  <2>4. BestFound'
    BY <1>3, <2>1, <2>2 DEF HonestInv, BestFound, MayReturn, NotLost
  <2>5. AnnealFound' /\ ResultFound'
    BY <1>3, <2>2, FrameAnnealFound, FrameResult DEF HonestInv
  <2>6. QED
    BY <2>2, <2>3, <2>4, <2>5 DEF HonestInv
<1>6. QED
  BY <1>4, <1>5

\* The tabu search reports a valid graph before it polishes it.
LEMMA IterateTabuHonest ==
  ASSUME SearchInv, HonestInv, TabuIterate, UNCHANGED anneal
  PROVE  HonestInv'
<1>1. /\ job.strategy = "tabu" /\ pc = "loop" /\ UNCHANGED <<job, pc, cancelled, result>> /\ TabuTrue
  BY DEF TabuIterate, SearchInv, TabuInv
<1>2. PICK p \in Slots(N) : TabuMove(p, Violations(tabu.adj, tabu.comp), Cost(tabu.adj, tabu.comp, p))
  BY IterationIs, Zenon
<1>3. PICK left : left = Violations(Flip(tabu.adj, p), Flip(tabu.comp, p))
  OBVIOUS
<1>4. Moved(p, left)
  BY <1>1, <1>2, <1>3, MoveIs DEF TabuTrue
<1>5. PICK g : g = GraphOf(tabu'.adj)
  OBVIOUS
<1>6. /\ left \in Nat /\ ViolationsOf(g) = left
      /\ bestInvalid' = IF left > 0 /\ left < bestInvalid.violations
                        THEN [graph |-> g, violations |-> left] ELSE bestInvalid
      /\ IF left = 0
         THEN /\ Discover(g)
              /\ bestValid' = IF IsNovel(g) THEN g ELSE bestValid
              /\ IF PolishSteps > 0 THEN PolishBegin(g, 0) ELSE NoPolish
         ELSE UNCHANGED <<known, reported, bestValid>> /\ NoPolish
  BY <1>4, <1>5 DEF Moved
<1>7. /\ ReportInv' /\ known \subseteq known' /\ (left = 0 => Cid(g) \in known')
  BY <1>1, <1>6, ReportStep, NoReport DEF HonestInv
<1>8. WalkFound'
  <2>1. PolishBegin(g, 0) \/ NoPolish
    BY <1>6
  <2>2. CASE NoPolish
    BY <1>1, <1>7, <2>2, FrameWalkFound DEF HonestInv, NoPolish
  <2>3. CASE PolishBegin(g, 0)
    BY <1>1, <2>3, BeginFound
  <2>4. QED
    BY <2>1, <2>2, <2>3
<1>9. BestFound'
  <2>1. bestValid' = bestValid \/ (bestValid' = g /\ left = 0)
    BY <1>6
  <2>2. bestInvalid' = bestInvalid \/ (bestInvalid'.graph = g /\ left > 0)
    BY <1>6
  <2>3. QED
    BY <1>1, <1>6, <1>7, <2>1, <2>2 DEF HonestInv, BestFound, MayReturn, NotLost
<1>10. AnnealFound' /\ ResultFound'
  BY <1>1, <1>7, FrameAnnealFound, FrameResult DEF HonestInv
<1>11. QED
  BY <1>7, <1>8, <1>9, <1>10 DEF HonestInv

\* The end of a search that keeps its bests.
LEMMA FinishHonest ==
  ASSUME HonestInv, job.strategy # "sa",
         UNCHANGED <<job, known, reported, bestValid, bestInvalid, phase, walk, ils, polished>>,
         NEW used, NEW carry, Finish(used, carry)
  PROVE  HonestInv'
<1>1. pc' = "done"
  BY DEF Finish
<1>2. ReportInv' /\ known \subseteq known'
  BY <1>1, NoReport DEF HonestInv
<1>3. WalkFound' /\ BestFound' /\ AnnealFound'
  BY <1>1, <1>2, FrameWalkFound, FrameBest, FrameAnnealFound DEF HonestInv
<1>4. ResultFound'
  BY FinishFound DEF HonestInv
<1>5. QED
  BY <1>2, <1>3, <1>4 DEF HonestInv

\* The annealing reports a valid seed.
LEMMA StartAnnealHonest ==
  ASSUME SearchInv, HonestInv, AnnealStart, UNCHANGED polishVars
  PROVE  HonestInv'
<1>1. PICK v : v = ViolationsOf(job.seed)
  OBVIOUS
<1>2. v \in Nat
  BY <1>1, SeedIs
<1>3. /\ job.strategy = "sa" /\ pc = "start" /\ pc' = "loop"
      /\ UNCHANGED <<job, result, bestValid, bestInvalid, phase, walk, ils, polished>>
      /\ anneal'.best = (IF v = 0 /\ IsNovel(job.seed) THEN job.seed ELSE NoGraph) /\ anneal'.least = v
      /\ IF v = 0 THEN Discover(job.seed) ELSE UNCHANGED <<known, reported>>
  BY <1>1 DEF AnnealStart, ViolationsOf, bests, polishVars
<1>4. ReportInv' /\ known \subseteq known' /\ (v = 0 => Cid(job.seed) \in known')
  BY <1>1, <1>3, ReportStep, NoReport DEF HonestInv
<1>5. WalkFound' /\ BestFound' /\ ResultFound'
  BY <1>3, <1>4, FrameWalkFound, FrameBest, FrameResult DEF HonestInv
<1>6. AnnealFound'
  <2>1. reported = <<>>
    BY <1>3 DEF HonestInv, ReportInv
  <2>2. anneal'.best # NoGraph => anneal'.best = job.seed /\ v = 0
    BY <1>3
  <2>3. reported' # <<>> => v = 0
    BY <1>3, <2>1
  <2>4. QED
    BY <1>1, <1>3, <1>4, <2>2, <2>3 DEF AnnealFound
<1>7. QED
  BY <1>4, <1>5, <1>6 DEF HonestInv

\* The annealing reports a valid graph before it keeps it as the best.
LEMMA IterateAnnealHonest ==
  ASSUME SearchInv, HonestInv, AnnealIterate, UNCHANGED polishVars
  PROVE  HonestInv'
<1>1. /\ job.strategy = "sa" /\ pc = "loop" /\ AnnealTrue
      /\ UNCHANGED <<job, pc, result, bestValid, bestInvalid, phase, walk, ils, polished>>
      /\ AnnealReject \/ \E p \in Slots(N) : AnnealAccept(p)
  BY DEF AnnealIterate, SearchInv, AnnealInv, bests, polishVars
<1>2. CASE AnnealReject
  BY <1>1, <1>2, QuietStep DEF AnnealReject
<1>3. CASE \E p \in Slots(N) : AnnealAccept(p)
  <2>1. PICK p \in Slots(N) : AnnealAccept(p)
    BY <1>3
  <2>2. PICK left : left = Violations(Flip(anneal.adj, p), Flip(anneal.comp, p))
    OBVIOUS
  <2>3. PICK g : g = GraphOf(anneal'.adj)
    OBVIOUS
  <2>4. /\ left \in Nat /\ ViolationsOf(g) = left
        /\ anneal'.best = IF left < anneal.least THEN g ELSE anneal.best
        /\ anneal'.least = IF left < anneal.least THEN left ELSE anneal.least
        /\ IF left = 0 THEN Discover(g) ELSE UNCHANGED <<known, reported>>
    BY <1>1, <2>1, <2>2, <2>3, AcceptIs
  <2>5. anneal.least \in Nat
    BY <1>1 DEF AnnealTrue
  <2>6. ReportInv' /\ known \subseteq known' /\ (left = 0 => Cid(g) \in known')
    BY <1>1, <2>4, ReportStep, NoReport DEF HonestInv
  <2>7. WalkFound' /\ BestFound' /\ ResultFound'
    BY <1>1, <2>6, FrameWalkFound, FrameBest, FrameResult DEF HonestInv
  <2>8. AnnealFound'
    <3>1. /\ anneal.best # NoGraph => /\ ViolationsOf(anneal.best) = anneal.least
                                      /\ anneal.least = 0 => Cid(anneal.best) \in known
          /\ reported # <<>> => anneal.least = 0
      BY <1>1 DEF HonestInv, AnnealFound
    <3>2. CASE left < anneal.least
      <4>1. anneal'.best = g /\ anneal'.least = left
        BY <2>4, <3>2
      <4>2. reported' # <<>> => left = 0
        BY <2>4, <2>5, <3>1, <3>2
      <4>3. QED
        BY <2>4, <2>6, <4>1, <4>2 DEF AnnealFound
    <3>3. CASE ~(left < anneal.least)
      <4>1. anneal'.best = anneal.best /\ anneal'.least = anneal.least
        BY <2>4, <3>3
      <4>2. reported' # <<>> => anneal'.least = 0
        BY <2>4, <2>5, <3>1, <3>3
      <4>3. anneal'.best # NoGraph => /\ ViolationsOf(anneal'.best) = anneal'.least
                                      /\ anneal'.least = 0 => Cid(anneal'.best) \in known'
        BY <2>6, <3>1, <4>1
      <4>4. /\ anneal'.best # NoGraph => ViolationsOf(anneal'.best) = anneal'.least
            /\ anneal'.best # NoGraph => (anneal'.least = 0 => Cid(anneal'.best) \in known')
            /\ reported' # <<>> => anneal'.least = 0
        BY <4>2, <4>3
      <4>5. QED
        BY <4>4, ZenonT(30) DEF AnnealFound
    <3>4. QED
      BY <3>2, <3>3
  <2>9. QED
    BY <2>6, <2>7, <2>8 DEF HonestInv
<1>4. QED
  BY <1>1, <1>2, <1>3

\* The annealing ends with its best.
LEMMA FinishAnnealHonest ==
  ASSUME SearchInv, HonestInv, AnnealFinish, UNCHANGED polishVars
  PROVE  HonestInv'
<1>1. /\ job.strategy = "sa" /\ pc = "loop" /\ pc' = "done" /\ AnnealTrue
      /\ result'.valid = (reported # <<>>) /\ result'.best = anneal.best
      /\ UNCHANGED <<job, known, reported, bestValid, bestInvalid, anneal, phase, walk, ils, polished>>
  BY DEF AnnealFinish, SearchInv, AnnealInv, bests, polishVars
<1>2. ReportInv' /\ known \subseteq known'
  BY <1>1, NoReport DEF HonestInv
<1>3. WalkFound' /\ BestFound' /\ AnnealFound'
  BY <1>1, <1>2, FrameWalkFound, FrameBest, FrameAnnealFound DEF HonestInv
<1>4. ResultFound'
  <2>1. /\ result'.valid => MayReturn(job, known, anneal.best)
        /\ ~result'.valid => NotLost(known, anneal.best)
    BY <1>1 DEF HonestInv, AnnealFound, MayReturn, NotLost
  <2>2. QED
    BY <1>1, <2>1 DEF ResultFound, MayReturn, NotLost
<1>5. QED
  BY <1>2, <1>3, <1>4 DEF HonestInv

\* The beam search reports a valid seed.
LEMMA StartTreeHonest ==
  ASSUME SearchInv, HonestInv, TreeStart, UNCHANGED anneal
  PROVE  HonestInv'
<1>1. PICK v : v = ViolationsOf(job.seed)
  OBVIOUS
<1>2. v \in Nat
  BY <1>1, SeedIs
<1>3. PICK e : e = EntryOf(FromAdj(job.seed), FromAdj(Complement(job.seed)))
  OBVIOUS
<1>4. Flaws(e) = v
  BY <1>1, <1>3 DEF Flaws, EntryOf, ViolationsOf, Violations
<1>5. /\ job.strategy = "tree2" /\ pc = "start" /\ pc' = "depth"
      /\ UNCHANGED <<job, result, phase, walk, ils, polished>>
      /\ IF Flaws(e) = 0 THEN Discover(job.seed) ELSE UNCHANGED <<known, reported>>
      /\ bestValid' = IF Flaws(e) = 0 /\ IsNovel(job.seed) THEN job.seed ELSE NoGraph
      /\ bestInvalid' = IF Flaws(e) = 0 THEN NoBest ELSE [graph |-> job.seed, violations |-> Flaws(e)]
  BY <1>3, Zenon DEF TreeStart, polishVars
<1>6. ReportInv' /\ known \subseteq known' /\ (v = 0 => Cid(job.seed) \in known')
  BY <1>1, <1>4, <1>5, ReportStep, NoReport DEF HonestInv
<1>7. WalkFound' /\ AnnealFound' /\ ResultFound'
  BY <1>5, <1>6, FrameWalkFound, FrameAnnealFound, FrameResult DEF HonestInv
<1>8. BestFound'
  <2>1. bestValid' = NoGraph \/ (bestValid' = job.seed /\ v = 0)
    BY <1>4, <1>5
  <2>2. bestInvalid'.graph = NoGraph \/ (bestInvalid'.graph = job.seed /\ v # 0)
    BY <1>4, <1>5 DEF NoBest
  <2>3. QED
    BY <1>1, <1>6, <2>1, <2>2 DEF BestFound, MayReturn, NotLost
<1>9. QED
  BY <1>6, <1>7, <1>8 DEF HonestInv

\* The beam search reports a valid child before it keeps or polishes it.
LEMMA TryTreeHonest ==
  ASSUME SearchInv, HonestInv, TreeTry, UNCHANGED anneal
  PROVE  HonestInv'
<1>1. job.strategy = "tree2" /\ pc = "flip" /\ UNCHANGED <<job, pc, result>>
  BY DEF TreeTry
<1>2. PICK p, a, c, g, r, b : Tried(p, a, c, g, r, b)
  BY TryIs
<1>3. PICK v : v = r + b
  OBVIOUS
<1>4. /\ v \in Nat /\ ViolationsOf(g) = v
      /\ IF v = 0 THEN Discover(g) ELSE UNCHANGED <<known, reported>>
      /\ bestValid' = bestValid \/ (bestValid' = g /\ v = 0)
      /\ bestInvalid' = bestInvalid \/ (bestInvalid'.graph = g /\ v > 0)
      /\ NoPolish \/ PolishBegin(g, Restarts)
  BY <1>2, <1>3 DEF Tried
<1>5. ReportInv' /\ known \subseteq known' /\ (v = 0 => Cid(g) \in known')
  BY <1>1, <1>4, ReportStep, NoReport DEF HonestInv
<1>6. WalkFound'
  <2>1. CASE NoPolish
    BY <1>1, <1>5, <2>1, FrameWalkFound DEF HonestInv, NoPolish
  <2>2. CASE PolishBegin(g, Restarts)
    <3>1. Plain(job) => Restarts = 0
      BY <1>1 DEF Plain
    <3>2. QED
      BY <1>1, <2>2, <3>1, BeginFound
  <2>3. QED
    BY <1>4, <2>1, <2>2
<1>7. BestFound'
  BY <1>1, <1>4, <1>5 DEF HonestInv, BestFound, MayReturn, NotLost
<1>8. AnnealFound' /\ ResultFound'
  BY <1>1, <1>5, FrameAnnealFound, FrameResult DEF HonestInv
<1>9. QED
  BY <1>5, <1>6, <1>7, <1>8 DEF HonestInv

\* A step of a polish walk reports each graph before it is the walk's best.
LEMMA StepHonest ==
  ASSUME SearchInv, HonestInv, PolishStep, UNCHANGED <<job, pc, bestValid, bestInvalid, result, anneal>>
  PROVE  HonestInv'
<1>1. /\ PolishInv /\ phase = "walk" /\ phase' = "walk" /\ ils' = ils /\ polished' = polished
      /\ pc # "start" /\ job.strategy # "sa"
  BY DEF PolishStep, SearchInv, JobInv, HonestInv, WalkFound
<1>2. PICK g : g = GraphOf(walk'.adj)
  OBVIOUS
<1>3. PICK record : record = LexLess(ScoreTuple(walk'.score), walk.bestScore)
  OBVIOUS
<1>4. /\ LexLess(ScoreTuple(walk'.score), walk.bestScore) =>
           walk'.best = GraphOf(walk'.adj) /\ Discover(GraphOf(walk'.adj))
      /\ ~LexLess(ScoreTuple(walk'.score), walk.bestScore) =>
           /\ walk'.best = walk.best /\ walk'.improved = (walk.improved \/ FALSE)
           /\ UNCHANGED <<known, reported>> \/ Discover(GraphOf(walk'.adj))
  BY <1>1, StepIs, ZenonT(30)
<1>5. /\ (walk'.best = g /\ Discover(g))
         \/ (walk'.best = walk.best /\ (walk'.improved => walk.improved)
             /\ (UNCHANGED <<known, reported>> \/ Discover(g)))
  BY <1>2, <1>4
<1>6. ViolationsOf(g) = 0
  <2>1. PolishInv'
    BY <1>1, StepPolish
  <2>2. BothMasks(walk'.adj, walk'.comp) /\ Violations(walk'.adj, walk'.comp) = 0
    BY <1>1, <2>1 DEF PolishInv, ScoreTrue
  <2>3. QED
    BY <1>2, <2>2, BothBack
<1>7. ReportInv' /\ known \subseteq known' /\ (walk'.best = g /\ Discover(g) => Cid(g) \in known')
  BY <1>1, <1>5, <1>6, ReportStep, NoReport DEF HonestInv
<1>8. WalkFound'
  <2>1. Plain(job)' = Plain(job)
    BY DEF Plain
  <2>2. Plain(job) => /\ ils.left = 0 /\ ils.start = ils.from /\ ils.best = NoGraph
                      /\ walk.improved => Cid(walk.best) \in known
    BY <1>1 DEF HonestInv, WalkFound
  <2>3. Plain(job) => (walk'.improved => Cid(walk'.best) \in known')
    BY <1>5, <1>7, <2>2
  <2>4. QED
    BY <1>1, <2>1, <2>2, <2>3 DEF WalkFound
<1>9. BestFound' /\ AnnealFound' /\ ResultFound'
  BY <1>1, <1>7, FrameBest, FrameAnnealFound, FrameResult DEF HonestInv
<1>10. QED
  BY <1>7, <1>8, <1>9 DEF HonestInv

\* A walk that ends keeps a best that was reported, unless it was restarted.
LEMMA EndWalkHonest ==
  ASSUME SearchInv, HonestInv, PolishEndWalk, UNCHANGED <<job, pc, bestValid, bestInvalid, result, anneal>>
  PROVE  HonestInv'
<1>1. PICK optimum : optimum = IF walk.improved THEN walk.best ELSE ils.start
  OBVIOUS
<1>2. PICK best : best = IF LexLess(ScoreValid(optimum), ils.bestScore) THEN optimum ELSE ils.best
  OBVIOUS
<1>3. /\ phase = "walk" /\ UNCHANGED <<known, reported>>
      /\ (ils.left = 0 /\ phase' = "back" /\ polished' = best) \/ (ils.left # 0 /\ phase' = "walk")
  BY <1>1, <1>2, Zenon DEF PolishEndWalk
<1>4. PolishInv /\ IlsTrue /\ job.strategy # "sa"
  BY <1>3 DEF SearchInv, PolishInv, HonestInv, WalkFound
<1>5. best # NoGraph => ValidGraph(best)
  BY <1>1, <1>2, <1>3, <1>4, OptimumKept
<1>6. Plain(job) => ils.left = 0 /\ (best # NoGraph => Cid(best) \in known)
  <2> SUFFICES ASSUME Plain(job)
               PROVE  ils.left = 0 /\ (best # NoGraph => Cid(best) \in known)
    OBVIOUS
  <2>1. /\ ils.left = 0 /\ ils.start = ils.from /\ ils.best = NoGraph
        /\ walk.improved => Cid(walk.best) \in known
    BY <1>3 DEF HonestInv, WalkFound
  <2>2. CASE walk.improved
    BY <1>1, <1>2, <2>1, <2>2
  <2>3. CASE ~walk.improved
    <3>1. optimum = ils.from /\ ils.bestScore = ScoreValid(ils.from) /\ ils.from.n = N
      BY <1>1, <1>4, <2>1, <2>3 DEF IlsTrue, ValidGraph
    <3>2. ScoreValid(ils.from) \in Seq(Int)
      BY <3>1, ScoreValidType
    <3>3. ~LexLess(ScoreValid(ils.from), ScoreValid(ils.from))
      BY <3>2, LexIrreflexive
    <3>4. QED
      BY <1>2, <2>1, <3>1, <3>3
  <2>4. QED
    BY <2>2, <2>3
<1>7. MayReturn(job, known, best)
  BY <1>5, <1>6 DEF MayReturn, ValidGraph
<1>8. ReportInv' /\ known \subseteq known'
  BY <1>3, NoReport DEF HonestInv
<1>9. WalkFound'
  <2>1. Plain(job)' = Plain(job)
    BY DEF Plain
  <2>2. CASE phase' = "back"
    BY <1>3, <1>4, <1>7, <2>1, <2>2 DEF WalkFound, MayReturn
  <2>3. CASE phase' = "walk"
    BY <1>3, <1>4, <1>6, <2>1, <2>3 DEF WalkFound
  <2>4. QED
    BY <1>3, <2>2, <2>3
<1>10. BestFound' /\ AnnealFound' /\ ResultFound'
  BY <1>4, <1>8, FrameBest, FrameAnnealFound, FrameResult DEF HonestInv
<1>11. QED
  BY <1>8, <1>9, <1>10 DEF HonestInv

\* The strategy may keep the polished graph as its best.
LEMMA ReturnHonest ==
  ASSUME SearchInv, HonestInv, PolishReturn, UNCHANGED <<job, pc, known, reported, bestInvalid, result, anneal>>
  PROVE  HonestInv'
<1>1. /\ phase = "back" /\ phase' = "idle"
      /\ bestValid' = IF polished # NoGraph THEN polished ELSE bestValid
  BY DEF PolishReturn
<1>2. ReportInv' /\ known \subseteq known'
  BY NoReport DEF HonestInv
<1>3. WalkFound'
  BY <1>1 DEF WalkFound
<1>4. BestFound'
  <2>1. MayReturn(job, known, bestValid')
    BY <1>1 DEF HonestInv, WalkFound, BestFound
  <2>2. NotLost(known, bestInvalid.graph)
    BY DEF HonestInv, BestFound
  <2>3. QED
    BY <2>1, <2>2 DEF BestFound, MayReturn, NotLost
<1>5. AnnealFound' /\ ResultFound'
  <2>1. UNCHANGED <<anneal, reported>> /\ pc' = pc
    OBVIOUS
  <2>2. QED
    BY <1>2, <2>1, FrameAnnealFound, FrameResult DEF HonestInv
<1>6. QED
  BY <1>2, <1>3, <1>4, <1>5 DEF HonestInv

\* Every step of a search keeps what it reports and returns honest.
LEMMA HonestStep == SearchInv /\ HonestInv /\ [Next]_vars => HonestInv'
<1> SUFFICES ASSUME SearchInv, HonestInv, [Next]_vars
             PROVE  HonestInv'
  OBVIOUS
<1>1. CASE UNCHANGED vars \/ Stopped
  <2>1. UNCHANGED <<job, known, reported, bestValid, bestInvalid, phase, walk, ils, polished, anneal, result, pc>>
    BY <1>1 DEF Stopped, vars, jobVars, polishVars, bests
  <2>2. QED
    BY <2>1, QuietStep
<1>2. CASE Polishing
  <2>1. UNCHANGED <<job, pc, bestInvalid, result, anneal>>
    BY <1>2 DEF Polishing
  <2>2. \/ PolishStep /\ UNCHANGED bestValid
        \/ PolishEndWalk /\ UNCHANGED bestValid
        \/ PolishReturn /\ UNCHANGED <<known, reported>>
    BY <1>2 DEF Polishing
  <2>3. QED
    BY <2>1, <2>2, StepHonest, EndWalkHonest, ReturnHonest
<1>3. CASE TabuNext /\ UNCHANGED anneal
  <2>1. CASE TabuFinish
    <3>1. job.strategy # "sa" /\ Finish(job.maxIters, {})
          /\ UNCHANGED <<job, known, reported, bestValid, bestInvalid, phase, walk, ils, polished>>
      BY <2>1 DEF TabuFinish, bests, polishVars
    <3>2. QED
      BY <3>1, FinishHonest
  <2>2. QED
    BY <1>3, <2>1, StartTabuHonest, IterateTabuHonest DEF TabuNext
<1>4. CASE TreeNext /\ UNCHANGED anneal
  <2>1. CASE TreeFinish
    <3>1. /\ job.strategy # "sa" /\ \E carry : Finish(iters, carry)
          /\ UNCHANGED <<job, known, reported, bestValid, bestInvalid, phase, walk, ils, polished>>
      BY <2>1 DEF TreeFinish, bests, polishVars
    <3>2. QED
      BY <3>1, FinishHonest
  <2>2. CASE TreeDepth \/ TreeParent \/ TreeNextParent \/ TreeSkip \/ TreeNextBeam
    <3>1. /\ job.strategy # "sa" /\ (pc' = pc \/ pc' \in {"depth", "parent", "flip"})
          /\ UNCHANGED <<job, known, reported, bestValid, bestInvalid, phase, walk, ils, polished, result>>
      BY <2>2 DEF TreeDepth, TreeParent, TreeNextParent, TreeSkip, TreeNextBeam, bests, polishVars
    <3>2. QED
      BY <1>4, <3>1, QuietStep
  <2>3. QED
    BY <1>4, <2>1, <2>2, StartTreeHonest, TryTreeHonest DEF TreeNext
<1>5. CASE AnnealNext /\ UNCHANGED polishVars
  BY <1>5, StartAnnealHonest, IterateAnnealHonest, FinishAnnealHonest DEF AnnealNext
<1>6. QED
  BY <1>1, <1>2, <1>3, <1>4, <1>5 DEF Next, Strategy, Done

\* What is reported and kept as best is valid, and what is kept was reported.
THEOREM HonestInvAlways == Spec => []HonestInv
<1>1. Init => HonestInv
  BY InitHonest
<1>2. SearchInv /\ HonestInv /\ [Next]_vars => HonestInv'
  BY HonestStep
<1>3. QED
  BY <1>1, <1>2, SearchInvAlways, PTL DEF Spec

\* Every graph given to on_discovery is valid, was not known to the job, and is
\* not isomorphic to another one given, whatever the strategy and its polishing.
THEOREM ReportsNewAlways == Spec => []ReportsNew
<1>1. HonestInv => ReportsNew
  BY DEF HonestInv, ReportInv, ReportsNew, IsValid
<1>2. QED
  BY <1>1, HonestInvAlways, PTL

\* A search hands back no graph as valid that is not, none that it neither reported
\* nor knew (but for restarted polishing in the beam search), and none as invalid
\* that is valid and new.
THEOREM ResultHonestAlways == Spec => []ResultHonest
<1>1. HonestInv => ResultHonest
  <2> SUFFICES ASSUME HonestInv, pc = "done"
               PROVE  /\ result.valid /\ result.best # NoGraph =>
                           /\ IsValid(result.best)
                           /\ \/ Cid(result.best) \in job.known \cup Cids(reported)
                              \/ job.strategy = "tree2" /\ Restarts > 0
                      /\ ~result.valid /\ result.best # NoGraph /\ IsValid(result.best) => ~IsNovel(result.best)
    BY DEF ResultHonest
  <2>1. known = job.known \cup Cids(reported) /\ Restarts \in Nat
    BY Parameters DEF HonestInv, ReportInv
  <2>2. /\ result.valid => MayReturn(job, known, result.best)
        /\ ~result.valid => NotLost(known, result.best)
    BY DEF HonestInv, ResultFound
  <2>3. Plain(job) \/ (job.strategy = "tree2" /\ Restarts > 0)
    BY <2>1 DEF Plain
  <2>4. QED
    BY <2>1, <2>2, <2>3 DEF MayReturn, NotLost, IsValid, IsNovel
<1>2. QED
  BY <1>1, HonestInvAlways, PTL

-----------------------------------------------------------------------------
(***************************************************************************)
(* A walk over graphs keeps its counts exact                               *)
(***************************************************************************)

\* Noise leaves a graph its vertices.
LEMMA PerturbedSize ==
  ASSUME NEW g, NEW h \in Perturbed(g, 1)
  PROVE  h.n = g.n
<1> DEFINE pairs == Vertices(g.n) \X Vertices(g.n)
           Unfolded(f) == [i \in 0..1 |-> IF i = 0 THEN {g} ELSE Noisy(f[i - 1], pairs)]
           once == [i \in 0..1 |-> IF i = 0 THEN {g} ELSE Noisy({g}, pairs)]
           after == CHOOSE f : f = Unfolded(f)
<1>1. Perturbed(g, 1) = after[1]
  BY Zenon DEF Perturbed
<1>2. once = Unfolded(once)
  OBVIOUS
<1> HIDE DEF once
<1>3. after = Unfolded(after)
  <2> HIDE DEF Unfolded
  <2>1. QED
    BY <1>2, Zenon
<1> HIDE DEF after
<1>4. after[1] = Noisy({g}, pairs)
  BY <1>3
<1>5. \E p \in pairs : h = SetEdge(g, p[1], p[2], ~Edge(g, p[1], p[2]))
  BY <1>1, <1>4 DEF Noisy
<1>6. QED
  BY <1>5 DEF SetEdge

\* Every seed has the size that was asked for.
LEMMA SeedSize ==
  ASSUME NEW size, NEW seed \in Seeds(size)
  PROVE  seed.n = size
<1>1. (NewGraph(size)).n = size
  BY DEF NewGraph
<1>2. (PaleyGraph(size)).n = size
  BY DEF PaleyGraph, GraphWith
<1>3. QED
  BY <1>1, <1>2, PerturbedSize DEF Seeds

\* The inductive invariant of the walk: the masks are those of a graph and of its
\* complement, and the counts carried along are the numbers of their cliques.
WalkInv ==
  /\ n \in Sizes
  /\ MasksOn(adj, Vertices(n)) /\ comp = Others(adj, Vertices(n))
  /\ target \in Nat \X Nat
  /\ kc = Cardinality(CliquesIn(adj, Vertices(n), target[1]))
  /\ ei = Cardinality(CliquesIn(comp, Vertices(n), target[2]))

\* The first counts are exact.
LEMMA InitWalk == WalkInit => WalkInv
<1> SUFFICES ASSUME WalkInit
             PROVE  WalkInv
  OBVIOUS
<1>1. PICK size \in Sizes, t \in Targets : \E seed \in Seeds(size) :
        /\ target = t
        /\ adj = FromAdj(seed)
        /\ comp = FromAdj(Complement(seed))
        /\ kc = CountCliques(adj, t[1])
        /\ ei = CountCliques(comp, t[2])
  BY DEF WalkInit
<1>9. PICK seed \in Seeds(size) :
        /\ target = t
        /\ adj = FromAdj(seed)
        /\ comp = FromAdj(Complement(seed))
        /\ kc = CountCliques(adj, t[1])
        /\ ei = CountCliques(comp, t[2])
  BY <1>1
<1>2. size \in Nat /\ size < WordBits /\ t \in Nat \X Nat /\ t[1] \in Nat /\ t[2] \in Nat
  BY SizesAssumption
<1>3. seed.n = size
  BY SeedSize
<1>4. MasksOn(adj, Vertices(size)) /\ comp = Others(adj, Vertices(size))
  BY <1>9, <1>2, <1>3, MasksOfBoth
<1>5. MasksOn(comp, Vertices(size))
  BY <1>4, OthersMasks
<1>6. n = size
  <2>1. DOMAIN adj = Vertices(size)
    BY <1>4 DEF MasksOn
  <2>2. QED
    BY <1>2, <2>1, VerticesAre DEF n
<1>7. kc = Cardinality(CliquesIn(adj, Vertices(size), t[1])) /\ ei = Cardinality(CliquesIn(comp, Vertices(size), t[2]))
  BY <1>9, <1>2, <1>4, <1>5, CountExact
<1>8. QED
  BY <1>9, <1>2, <1>4, <1>6, <1>7 DEF WalkInv

\* A flip keeps the counts exact.
LEMMA NextWalk == WalkInv /\ [WalkNext]_walkVars => WalkInv'
<1> SUFFICES ASSUME WalkInv, [WalkNext]_walkVars
             PROVE  WalkInv'
  OBVIOUS
<1>1. CASE UNCHANGED walkVars
  BY <1>1 DEF WalkInv, walkVars, n
<1>2. ASSUME NEW p \in Slots(n), FlipStep(p)
      PROVE  WalkInv'
  <2> DEFINE V == Vertices(n)
             u == p[1]
             v == p[2]
             k == target[1]
             ell == target[2]
             delta == ViolationDelta(adj, comp, k, ell, u, v)
  <2>1. /\ u \in V /\ v \in V /\ u # v /\ k \in Nat /\ ell \in Nat /\ IsFiniteSet(V)
        /\ MasksOn(adj, V) /\ comp = Others(adj, V) /\ MasksOn(comp, V)
    <3>1. u \in V /\ v \in V /\ u # v
      BY DEF Slots, Vertices
    <3>2. QED
      BY <3>1, OthersMasks DEF WalkInv, MasksOn
  <2>2. /\ kc' = Max({0, kc + delta[1]}) /\ ei' = Max({0, ei + delta[2]})
        /\ adj' = FlipEdge(adj, u, v) /\ comp' = FlipEdge(comp, u, v) /\ target' = target
    BY <1>2 DEF FlipStep, Flip
  <2>3. MasksOn(adj', V) /\ comp' = Others(adj', V) /\ MasksOn(comp', V)
    BY <2>1, <2>2, FlipIs
  <2> HIDE DEF V, u, v, k, ell, delta
  <2>4. /\ Cardinality(CliquesIn(adj', V, k)) = kc + delta[1] /\ delta[1] \in Int
        /\ Cardinality(CliquesIn(comp', V, ell)) = ei + delta[2] /\ delta[2] \in Int
    <3>1. kc = Cardinality(CliquesIn(adj, V, k)) /\ ei = Cardinality(CliquesIn(comp, V, ell))
      BY DEF WalkInv, V, k, ell
    <3>2. QED
      BY <2>1, <2>2, <3>1, DeltaExact DEF delta
  <2>5. /\ Cardinality(CliquesIn(adj', V, k)) \in Nat /\ Cardinality(CliquesIn(comp', V, ell)) \in Nat
    BY <2>1, CliquesFinite
  <2>6. kc' = Cardinality(CliquesIn(adj', V, k)) /\ ei' = Cardinality(CliquesIn(comp', V, ell))
    BY <2>2, <2>4, <2>5, MaxWithNone
  <2>7. DOMAIN adj' = DOMAIN adj
    BY <2>1, <2>3 DEF MasksOn
  <2>8. n' = n
    BY <2>7 DEF n
  <2>9. QED
    BY <2>2, <2>3, <2>6, <2>8 DEF WalkInv, V, k, ell
<1>3. QED
  BY <1>1, <1>2 DEF WalkNext

-----------------------------------------------------------------------------
(***************************************************************************)
(* What exact counts show                                                  *)
(***************************************************************************)

\* The cliques of a graph, by its edges or by its masks.
LEMMA CliquesAsGraph ==
  ASSUME NEW m \in Nat, m < WordBits, NEW g, g.n = m, NEW k
  PROVE  CliquesOf(g, k) = CliquesIn(FromAdj(g), Vertices(m), k)
<1>1. \A u, v \in Vertices(m) : u \in FromAdj(g)[v] <=> Edge(g, v, u)
  BY FromAdjMasks
<1>2. \A S \in SUBSET Vertices(m) : IsClique(FromAdj(g), S) <=> \A u, v \in S : u # v => Edge(g, u, v)
  BY <1>1 DEF IsClique
<1>3. QED
  BY <1>2 DEF CliquesOf, CliquesIn

\* The bounds of the two clique sizes.
LEMMA ExtremesOfTwo ==
  ASSUME NEW t \in Nat \X Nat
  PROVE  /\ Min(Range(t)) <= t[1] /\ Min(Range(t)) <= t[2]
         /\ t[1] <= Max(Range(t)) /\ t[2] <= Max(Range(t)) /\ Max(Range(t)) \in Nat
<1>1. DOMAIN t = {1, 2}
  OBVIOUS
<1>2. Range(t) = {t[1], t[2]} /\ t[1] \in Nat /\ t[2] \in Nat
  BY <1>1 DEF Range
<1>3. \E x \in Range(t) : \A y \in Range(t) : x <= y
  BY <1>2
<1>4. \E x \in Range(t) : \A y \in Range(t) : x >= y
  BY <1>2
<1>5. Min(Range(t)) \in Range(t) /\ \A y \in Range(t) : Min(Range(t)) <= y
  BY <1>3 DEF Min
<1>6. Max(Range(t)) \in Range(t) /\ \A y \in Range(t) : Max(Range(t)) >= y
  BY <1>4 DEF Max
<1>7. QED
  BY <1>2, <1>5, <1>6

\* The histogram shows a violation if there is one.
LEMMA HistogramShows ==
  ASSUME NEW g, NEW maxK \in Nat, NEW k \in 3..maxK, NEW ell \in 3..maxK,
         CountCliques(FromAdj(g), k) \in Nat, CountCliques(FromAdj(Complement(g)), ell) \in Nat
  PROVE  IsValidRamsey(Histogram(g, maxK), k, ell) <=>
           CountCliques(FromAdj(g), k) + CountCliques(FromAdj(Complement(g)), ell) = 0
<1> DEFINE red(t) == CountCliques(FromAdj(g), t)
           blue(t) == CountCliques(FromAdj(Complement(g)), t)
           hist == Histogram(g, maxK)
           shown == {x \in 3..maxK : \E y \in 3..maxK : (red(y) > 0 \/ blue(y) > 0) /\ x <= y}
<1> HIDE DEF red, blue
<1>1. hist = [t \in shown |-> [red |-> red(t), blue |-> blue(t)]]
  <2> DEFINE tiers == [t \in 3..maxK |-> [red |-> red(t), blue |-> blue(t)]]
             filled == {t \in 3..maxK : tiers[t].red > 0 \/ tiers[t].blue > 0}
  <2>1. hist = [t \in {x \in 3..maxK : \E y \in filled : x <= y} |-> tiers[t]]
    BY DEF Histogram, red, blue
  <2>2. {x \in 3..maxK : \E y \in filled : x <= y} = shown
    OBVIOUS
  <2>3. QED
    BY <2>1, <2>2
<1> HIDE DEF hist
<1>2. /\ IsValidRamsey(hist, k, ell) <=>
           \A t \in shown : ~(t = k /\ red(t) > 0) /\ ~(t = ell /\ blue(t) > 0)
  BY <1>1 DEF IsValidRamsey
<1>3. (red(k) > 0 => k \in shown) /\ (blue(ell) > 0 => ell \in shown)
  OBVIOUS
<1>4. IsValidRamsey(hist, k, ell) <=> ~(red(k) > 0) /\ ~(blue(ell) > 0)
  BY <1>2, <1>3
<1>5. red(k) \in Nat /\ blue(ell) \in Nat
  BY DEF red, blue
<1>6. QED
  BY <1>4, <1>5 DEF hist, red, blue

\* Exact counts agree with every recount and with the histogram's verdict.
LEMMA WalkIsExact == WalkInv => CountsExact
<1> SUFFICES ASSUME WalkInv
             PROVE  CountsExact
  OBVIOUS
<1> DEFINE V == Vertices(n)
           k == target[1]
           ell == target[2]
<1>1. n \in Nat /\ n < WordBits /\ k \in Nat /\ ell \in Nat
  BY SizesAssumption DEF WalkInv
<1>2. MasksOn(adj, V) /\ comp = Others(adj, V) /\ MasksOn(comp, V)
  BY OthersMasks DEF WalkInv
<1>3. graph = MaskGraph(n, adj)
  BY Zenon DEF graph, MaskGraph
<1>4. /\ graph.n = n /\ FromAdj(graph) = adj
      /\ Complement(graph).n = n /\ FromAdj(Complement(graph)) = comp
  BY <1>1, <1>2, <1>3, MasksBack
<1> HIDE DEF V, k, ell
<1>5. \A t : /\ CliquesOf(graph, t) = CliquesIn(adj, V, t)
             /\ CliquesOf(Complement(graph), t) = CliquesIn(comp, V, t)
  BY <1>1, <1>4, CliquesAsGraph DEF V
<1>6. kc = Cardinality(CliquesOf(graph, k)) /\ ei = Cardinality(CliquesOf(Complement(graph), ell))
  BY <1>5 DEF WalkInv, V, k, ell
<1>7. \A t \in 0..n : CountCliques(adj, t) = Cardinality(CliquesOf(graph, t))
  BY <1>2, <1>5, CountExact
<1>8. ASSUME 3 <= Min(Range(target))
      PROVE  IsValidRamsey(Histogram(graph, Max(Range(target))), k, ell) <=> kc + ei = 0
  <2>1. target \in Nat \X Nat
    BY DEF WalkInv
  <2>2. k \in 3..Max(Range(target)) /\ ell \in 3..Max(Range(target)) /\ Max(Range(target)) \in Nat
    <3>1. /\ Min(Range(target)) <= k /\ Min(Range(target)) <= ell
          /\ k <= Max(Range(target)) /\ ell <= Max(Range(target)) /\ Max(Range(target)) \in Nat
      BY <2>1, ExtremesOfTwo DEF k, ell
    <3>2. Min(Range(target)) \in Nat
      <4>1. Range(target) = {k, ell}
        <5>1. DOMAIN target = {1, 2}
          BY <2>1
        <5>2. QED
          BY <5>1 DEF Range, k, ell
      <4>2. QED
        BY <1>1, <4>1 DEF Min
    <3>3. QED
      BY <1>1, <1>8, <3>1, <3>2
  <2>3. CountCliques(adj, k) = kc /\ CountCliques(comp, ell) = ei
    BY <1>1, <1>2, <1>5, <1>6, CountExact
  <2>4. kc \in Nat /\ ei \in Nat
    <3>1. IsFiniteSet(V)
      BY <1>2 DEF MasksOn
    <3>2. QED
      BY <1>5, <1>6, <3>1, CliquesFinite
  <2>5. QED
    BY <1>4, <2>2, <2>3, <2>4, HistogramShows
<1>9. QED
  BY <1>4, <1>6, <1>7, <1>8 DEF CountsExact, k, ell

(***************************************************************************)
(* Along every walk by single flips, for every clique sizes and every      *)
(* number of vertices a word holds, the counts carried along by deltas and *)
(* the recounts are those of the current graph and of its complement.      *)
(***************************************************************************)
THEOREM CountsExactAlways == WalkSpec => []CountsExact
<1>1. WalkInit => WalkInv
  BY InitWalk
<1>2. WalkInv /\ [WalkNext]_walkVars => WalkInv'
  BY NextWalk
<1>3. WalkInv => CountsExact
  BY WalkIsExact
<1>4. QED
  BY <1>1, <1>2, <1>3, PTL DEF WalkSpec

-----------------------------------------------------------------------------
(***************************************************************************)
(* What the search for the cliques finds                                   *)
(***************************************************************************)

\* What the search should find in every mask.
Found(nbrs, V, t) == [mask \in SUBSET V |-> CliquesIn(nbrs, mask, t)]

\* One more level of the search for the cliques.
LEMMA ExtensionsStep ==
  ASSUME NEW nbrs, NEW V, MasksOn(nbrs, V), NEW left \in Nat, NEW shorter,
         left > 0 => shorter = Found(nbrs, V, left - 1)
  PROVE  Extensions(nbrs, left, shorter) = Found(nbrs, V, left)
<1> DEFINE e == Extensions(nbrs, left, shorter)
<1>1. DOMAIN nbrs = V
  BY DEF MasksOn
<1>2. ASSUME NEW mask \in SUBSET V
      PROVE  e[mask] = CliquesIn(nbrs, mask, left)
  <2>1. IsFiniteSet(mask) /\ \A v \in mask : After(nbrs, mask, v) \in SUBSET V
    BY AfterSmaller
  <2>2. CASE left = 0
    <3>1. e[mask] = {{}}
      BY <1>1, <2>2 DEF Extensions, Rests
    <3>2. CliquesIn(nbrs, mask, 0) = {{}}
      <4>1. \A S \in SUBSET mask : Cardinality(S) = 0 <=> S = {}
        <5>1. \A S \in SUBSET mask : IsFiniteSet(S)
          BY <2>1, FS_Subset
        <5>2. QED
          BY <5>1, FS_EmptySet
      <4>2. QED
        BY <4>1 DEF CliquesIn, IsClique
    <3>3. QED
      BY <2>2, <3>1, <3>2
  <2>3. CASE left > 0 /\ Cardinality(mask) < left
    <3>1. e[mask] = {}
      <4>1. ~(left = 0) /\ mask \in SUBSET DOMAIN nbrs /\ Cardinality(mask) \in Nat
        BY <1>1, <2>1, <2>3, FS_CardinalityType
      <4>2. QED
        BY <2>3, <4>1 DEF Extensions, Rests
    <3>2. ASSUME NEW S \in CliquesIn(nbrs, mask, left)
          PROVE  FALSE
      <4>1. S \subseteq mask /\ Cardinality(S) = left
        BY DEF CliquesIn
      <4>2. Cardinality(S) <= Cardinality(mask) /\ Cardinality(mask) \in Nat
        BY <2>1, <4>1, FS_Subset, FS_CardinalityType
      <4>3. QED
        BY <2>3, <4>1, <4>2
    <3>3. QED
      BY <3>1, <3>2
  <2>4. CASE left > 0 /\ Cardinality(mask) >= left
    <3> DEFINE f == [w \in mask |-> shorter[{x \in mask : x > w} \cap nbrs[w]]]
               h == [w \in mask |-> CliquesIn(nbrs, After(nbrs, mask, w), left - 1)]
    <3>1. e[mask] = Headed(f)
      BY <1>1, <2>4 DEF Extensions, Rests
    <3>2. f = h
      BY <2>1, <2>4 DEF After, Found
    <3>3. left - 1 \in Nat /\ (left - 1) + 1 = left
      BY <2>4
    <3>4. CliquesIn(nbrs, mask, (left - 1) + 1) = Headed(h)
      BY <3>3, CliquesFromLeast
    <3>5. QED
      BY <3>1, <3>2, <3>3, <3>4
  <2>5. left = 0 \/ (left > 0 /\ Cardinality(mask) < left) \/ (left > 0 /\ Cardinality(mask) >= left)
    <3>1. Cardinality(mask) \in Nat
      BY <2>1, FS_CardinalityType
    <3>2. QED
      BY <3>1
  <2>6. QED
    BY <2>2, <2>3, <2>4, <2>5
<1>3. e = [mask \in SUBSET V |-> e[mask]]
  BY <1>1 DEF Extensions
<1> HIDE DEF e
<1>4. e = [mask \in SUBSET V |-> CliquesIn(nbrs, mask, left)]
  BY <1>2, <1>3
<1>5. QED
  BY <1>4 DEF e, Found

\* The search of guilty_edges finds the cliques, all of them.
LEMMA CliquesFound ==
  ASSUME NEW nbrs, NEW V, MasksOn(nbrs, V), NEW k \in Nat \ {0}
  PROVE  Cliques(nbrs, k) = CliquesIn(nbrs, V, k)
<1> DEFINE g == [left \in 0..(k - 1) |-> Found(nbrs, V, left)]
           Unfolded(e) == [left \in 0..(k - 1) |-> Extensions(nbrs, left, e[left - 1])]
           extend == CHOOSE e : e = Unfolded(e)
           founds == [v \in DOMAIN nbrs |-> extend[k - 1][Above(nbrs[v], v)]]
<1>1. Cliques(nbrs, k) = Headed(founds)
  BY DEF Cliques
<1>2. ASSUME NEW left \in Nat, NEW shorter, left > 0 => shorter = Found(nbrs, V, left - 1)
      PROVE  Extensions(nbrs, left, shorter) = Found(nbrs, V, left)
  BY <1>2, ExtensionsStep, ZenonT(30)
<1>3. g = Unfolded(g)
  <2>1. ASSUME NEW left \in 0..(k - 1)
        PROVE  Extensions(nbrs, left, g[left - 1]) = Found(nbrs, V, left)
    <3>1. left \in Nat /\ (left > 0 => g[left - 1] = Found(nbrs, V, left - 1))
      OBVIOUS
    <3> HIDE DEF g
    <3>2. QED
      BY <1>2, <3>1, ZenonT(30)
  <2>2. QED
    BY <2>1
<1> HIDE DEF g
<1>4. extend = Unfolded(extend)
  <2> HIDE DEF Unfolded
  <2>1. QED
    BY <1>3, Zenon
<1> HIDE DEF extend, founds
<1>5. \A left \in 0..(k - 1) : extend[left] = Extensions(nbrs, left, extend[left - 1])
  BY <1>4
<1> DEFINE G == {left \in Nat : left <= k - 1 => extend[left] = Found(nbrs, V, left)}
<1>6. 0 \in G
  <2>1. 0 \in 0..(k - 1) /\ 0 \in Nat /\ ~(0 > 0)
    OBVIOUS
  <2>2. Extensions(nbrs, 0, extend[0 - 1]) = Found(nbrs, V, 0)
    BY <1>2, <2>1, ZenonT(30)
  <2>3. QED
    BY <1>5, <2>1, <2>2
<1>7. ASSUME NEW left \in G
      PROVE  left + 1 \in G
  <2> SUFFICES ASSUME left + 1 <= k - 1
               PROVE  extend[left + 1] = Found(nbrs, V, left + 1)
    OBVIOUS
  <2>1. left + 1 \in Nat /\ left + 1 \in 0..(k - 1) /\ (left + 1) - 1 = left /\ extend[left] = Found(nbrs, V, (left + 1) - 1)
    OBVIOUS
  <2>2. Extensions(nbrs, left + 1, extend[left]) = Found(nbrs, V, left + 1)
    BY <1>2, <2>1, ZenonT(30)
  <2>3. QED
    BY <1>5, <2>1, <2>2
<1>8. G = Nat
  <2>1. G \in SUBSET Nat
    OBVIOUS
  <2> HIDE DEF G
  <2>2. QED
    BY <1>6, <1>7, <2>1, NatInductive
<1>9. extend[k - 1] = Found(nbrs, V, k - 1)
  <2>1. k - 1 \in Nat
    OBVIOUS
  <2>2. QED
    BY <1>8, <2>1
<1>10. DOMAIN nbrs = V /\ V \in SUBSET V
  BY DEF MasksOn
<1>11. founds = [v \in V |-> CliquesIn(nbrs, After(nbrs, V, v), k - 1)]
  <2>1. \A v \in V : Above(nbrs[v], v) = After(nbrs, V, v) /\ After(nbrs, V, v) \in SUBSET V
    BY <1>10, AfterIs
  <2>2. QED
    BY <1>9, <1>10, <2>1 DEF Found, founds
<1>12. CliquesIn(nbrs, V, (k - 1) + 1) = Headed([v \in V |-> CliquesIn(nbrs, After(nbrs, V, v), k - 1)])
  <2>1. k - 1 \in Nat
    OBVIOUS
  <2>2. QED
    BY <1>10, <2>1, CliquesFromLeast
<1>13. (k - 1) + 1 = k
  OBVIOUS
<1>14. QED
  BY <1>1, <1>11, <1>12, <1>13

\* The members of a clique of some size are other than one another and marked.
LEMMA MarkedIs ==
  ASSUME NEW nbrs, NEW V, MasksOn(nbrs, V), NEW k \in Nat
  PROVE  /\ DOMAIN Marked(nbrs, k) = V
         /\ \A u, v \in V : u \in Marked(nbrs, k)[v] <=>
              u # v /\ \E S \in CliquesIn(nbrs, V, k) : u \in S /\ v \in S
<1>1. DOMAIN nbrs = V /\ IsFiniteSet(V)
  BY DEF MasksOn
<1>2. \A S \in CliquesIn(nbrs, V, k) : S \subseteq V /\ IsFiniteSet(S) /\ Cardinality(S) = k
  BY <1>1, CliquesFinite DEF CliquesIn
<1>3. CASE k < 2
  <2>1. ASSUME NEW S \in CliquesIn(nbrs, V, k), NEW u \in S, NEW v \in S, u # v
        PROVE  FALSE
    <3>1. Cardinality({u, v}) = 2 /\ IsFiniteSet(S) /\ {u, v} \subseteq S
      BY <1>2, <2>1, PairSize
    <3>2. Cardinality({u, v}) <= Cardinality(S)
      BY <3>1, FS_Subset
    <3>3. QED
      BY <1>2, <1>3, <3>1, <3>2
  <2>2. Marked(nbrs, k) = [v \in V |-> {}]
    BY <1>1, <1>3 DEF Marked
  <2>3. QED
    BY <2>1, <2>2
<1>4. CASE k = 2
  <2>1. Marked(nbrs, k) = nbrs
    BY <1>4 DEF Marked
  <2>2. ASSUME NEW u \in V, NEW v \in V, u \in nbrs[v]
        PROVE  u # v /\ \E S \in CliquesIn(nbrs, V, k) : u \in S /\ v \in S
    <3>1. u # v /\ v \in nbrs[u]
      BY <2>2 DEF MasksOn
    <3>2. Cardinality({u, v}) = 2
      BY <3>1, PairSize
    <3>3. {u, v} \in CliquesIn(nbrs, V, k)
      BY <1>4, <2>2, <3>1, <3>2 DEF CliquesIn, IsClique
    <3>4. QED
      BY <3>1, <3>3
  <2>3. ASSUME NEW u \in V, NEW v \in V, u # v, NEW S \in CliquesIn(nbrs, V, k), u \in S, v \in S
        PROVE  u \in nbrs[v]
    BY <2>3 DEF CliquesIn, IsClique
  <2>4. QED
    BY <1>1, <2>1, <2>2, <2>3
<1>5. CASE k > 2
  <2>1. Cliques(nbrs, k) = CliquesIn(nbrs, V, k)
    BY <1>5, CliquesFound
  <2>2. Marked(nbrs, k) = [v \in V |-> UNION {c \ {v} : c \in {d \in CliquesIn(nbrs, V, k) : v \in d}}]
    BY <1>1, <1>5, <2>1 DEF Marked
  <2>3. QED
    BY <2>2
<1>6. QED
  BY <1>3, <1>4, <1>5

\* Exact masks give exactly the edges in violations.
LEMMA WalkIsGuilty == WalkInv => GuiltyExact
<1> SUFFICES ASSUME WalkInv
             PROVE  GuiltyExact
  OBVIOUS
<1> DEFINE V == Vertices(n)
           red == Marked(adj, target[1])
           blue == Marked(comp, target[2])
           R == CliquesIn(adj, V, target[1])
           B == CliquesIn(comp, V, target[2])
<1>1. n \in Nat /\ n < WordBits /\ target[1] \in Nat /\ target[2] \in Nat
  BY SizesAssumption DEF WalkInv
<1>2. MasksOn(adj, V) /\ comp = Others(adj, V) /\ MasksOn(comp, V)
  BY OthersMasks DEF WalkInv
<1>3. CliquesOf(graph, target[1]) = R /\ CliquesOf(Complement(graph), target[2]) = B
  <2>1. graph = MaskGraph(n, adj)
    BY Zenon DEF graph, MaskGraph
  <2>2. /\ graph.n = n /\ FromAdj(graph) = adj
        /\ Complement(graph).n = n /\ FromAdj(Complement(graph)) = comp
    BY <1>1, <1>2, <2>1, MasksBack
  <2>3. QED
    BY <1>1, <2>2, CliquesAsGraph
<1>4. /\ \A u, v \in V : u \in red[v] <=> u # v /\ \E S \in R : u \in S /\ v \in S
      /\ \A u, v \in V : u \in blue[v] <=> u # v /\ \E S \in B : u \in S /\ v \in S
  BY <1>1, <1>2, MarkedIs
<1>5. \A v \in V : v \in Nat /\ v + 1 < WordBits
  BY <1>2 DEF MasksOn
<1>6. \A S \in R \cup B : S \subseteq V
  BY DEF CliquesIn
<1> DEFINE guilty == {p \in Slots(n) : p[2] \in Above(red[p[1]] \cup blue[p[1]], p[1])}
<1>7. GuiltyEdges(adj, comp, target[1], target[2]) = guilty
  BY DEF GuiltyEdges, n
<1> HIDE DEF red, blue, R, B
<1>8. ASSUME NEW u \in V, NEW v \in V
      PROVE  <<u, v>> \in guilty <=> u < v /\ \E S \in R \cup B : u \in S /\ v \in S
  <2>1. <<u, v>> \in Slots(n) <=> u < v
    BY DEF Slots
  <2>2. v \in Above(red[u] \cup blue[u], u) <=> v \in red[u] \cup blue[u] /\ v > u
    BY <1>5 DEF Above
  <2>3. <<u, v>> \in guilty <=> u < v /\ v \in red[u] \cup blue[u]
    BY <1>5, <2>1, <2>2
  <2>4. u < v => u # v
    BY <1>5
  <2>5. QED
    BY <1>4, <2>3, <2>4
<1>9. guilty \subseteq V \X V
  BY DEF Slots
<1> HIDE DEF guilty
<1>10. guilty = UNION {PairsIn(S) : S \in R \cup B}
  <2>1. ASSUME NEW p \in guilty
        PROVE  \E S \in R \cup B : p \in PairsIn(S)
    <3>1. PICK u \in V, v \in V : p = <<u, v>>
      BY <1>9, <2>1
    <3>2. u < v /\ \E S \in R \cup B : u \in S /\ v \in S
      BY <1>8, <2>1, <3>1
    <3>3. QED
      BY <3>1, <3>2 DEF PairsIn
  <2>2. ASSUME NEW S \in R \cup B, NEW p \in PairsIn(S)
        PROVE  p \in guilty
    <3>1. PICK u \in S, v \in S : p = <<u, v>> /\ u < v
      BY <2>2 DEF PairsIn
    <3>2. u \in V /\ v \in V
      BY <1>6
    <3>3. QED
      BY <1>8, <3>1, <3>2
  <2>3. QED
    BY <2>1, <2>2
<1>11. QED
  BY <1>3, <1>7, <1>10 DEF GuiltyExact

(***************************************************************************)
(* Along every walk the edges that the focused mode flips are those that   *)
(* lie in a clique of the walked sizes, of the graph or of its complement: *)
(* all of them and no other.                                               *)
(***************************************************************************)
THEOREM GuiltyExactAlways == WalkSpec => []GuiltyExact
<1>1. WalkInit => WalkInv
  BY InitWalk
<1>2. WalkInv /\ [WalkNext]_walkVars => WalkInv'
  BY NextWalk
<1>3. WalkInv => GuiltyExact
  BY WalkIsGuilty
<1>4. QED
  BY <1>1, <1>2, <1>3, PTL DEF WalkSpec

-----------------------------------------------------------------------------
(***************************************************************************)
(* Weights that tell graphs apart                                          *)
(***************************************************************************)

\* 2^m is the number of the subsets of 1..m.
LEMMA PowerCounts ==
  ASSUME NEW m \in Nat
  PROVE  2^m \in Nat /\ IsFiniteSet(SUBSET (1..m)) /\ Cardinality(SUBSET (1..m)) = 2^m
<1>1. IsFiniteSet(1..m) /\ Cardinality(1..m) = m
  BY FS_Interval
<1>2. IsFiniteSet(SUBSET (1..m)) /\ Cardinality(SUBSET (1..m)) = 2^Cardinality(1..m)
  BY <1>1, FS_SUBSET
<1>3. Cardinality(SUBSET (1..m)) = 2^m
  BY <1>1, <1>2
<1>4. Cardinality(SUBSET (1..m)) \in Nat
  BY <1>2, FS_CardinalityType
<1>5. QED
  BY <1>2, <1>3, <1>4

\* One power of two is twice the one before: the subsets of 1..m, and as many with m + 1.
LEMMA PowerDoubles ==
  ASSUME NEW m \in Nat
  PROVE  2^(m + 1) = 2 * 2^m
<1> DEFINE S == SUBSET (1..m)
           T == (SUBSET (1..(m + 1))) \ S
           f == [s \in S |-> s \cup {m + 1}]
<1>1. f \in Bijection(S, T)
  <2>0. /\ \A x : x \in 1..(m + 1) <=> x \in 1..m \/ x = m + 1
        /\ m + 1 \notin 1..m
    OBVIOUS
  <2>1. \A s \in S : f[s] \in T /\ f[s] \ {m + 1} = s
    BY <2>0
  <2>2. \A t \in T : t \ {m + 1} \in S /\ f[t \ {m + 1}] = t
    BY <2>0
  <2>3. QED
    <3>1. f \in [S -> T]
      BY <2>1
    <3>2. \A a, b \in S : f[a] = f[b] => a = b
      BY <2>1
    <3>3. \A t \in T : \E s \in S : f[s] = t
      BY <2>2
    <3>4. QED
      BY <3>1, <3>2, <3>3, Zenon DEF Bijection, Injection, Surjection, IsInjective
<1>2. IsFiniteSet(S) /\ Cardinality(S) = 2^m /\ 2^m \in Nat
  BY PowerCounts
<1>3. IsFiniteSet(T) /\ Cardinality(T) = 2^m
  <2>1. ExistsBijection(S, T)
    BY <1>1 DEF ExistsBijection
  <2>2. QED
    BY <1>2, <2>1, FS_Bijection
<1>4. S \cap T = {} /\ S \cup T = SUBSET (1..(m + 1))
  <2>1. \A x : x \in 1..m => x \in 1..(m + 1)
    OBVIOUS
  <2>2. QED
    BY <2>1
<1>5. Cardinality(SUBSET (1..(m + 1))) = 2^(m + 1)
  <2>1. m + 1 \in Nat
    OBVIOUS
  <2>2. QED
    BY <2>1, PowerCounts
<1>6. Cardinality(S \cup T) = Cardinality(S) + Cardinality(T) - Cardinality(S \cap T)
  BY <1>2, <1>3, FS_Union
<1>7. Cardinality(S \cap T) = 0
  BY <1>4, FS_EmptySet
<1> HIDE DEF S, T
<1>8. \A p, q \in Nat : p = q + q - 0 => p = 2 * q
  OBVIOUS
<1>9. 2^(m + 1) = 2^m + 2^m - 0
  BY <1>2, <1>3, <1>4, <1>5, <1>6, <1>7
<1>10. 2^(m + 1) \in Nat
  <2>1. m + 1 \in Nat
    OBVIOUS
  <2>2. QED
    BY <2>1, PowerCounts
<1>11. QED
  BY <1>2, <1>8, <1>9, <1>10

\* The first power of two.
LEMMA PowerZero == 2^0 = 1
<1>1. SUBSET (1..0) = {{}}
  OBVIOUS
<1>2. Cardinality({{}}) = 1
  BY FS_Singleton
<1>3. QED
  BY <1>1, <1>2, PowerCounts

\* The sets of positive numbers that have b + 1 for their greatest: 2^b of them.
TopSets(b) == {s \cup {b + 1} : s \in SUBSET (1..b)}

\* There are 2^b sets with the greatest b + 1.
LEMMA TopSetsCount ==
  ASSUME NEW b \in Nat
  PROVE  /\ IsFiniteSet(TopSets(b)) /\ Cardinality(TopSets(b)) = 2^b /\ 2^b \in Nat
         /\ \A X \in TopSets(b) : b + 1 \in X /\ X \in SUBSET (1..(b + 1))
<1> DEFINE S == SUBSET (1..b)
           T == TopSets(b)
           f == [s \in S |-> s \cup {b + 1}]
<1>1. \A x : x \in 1..(b + 1) <=> x \in 1..b \/ x = b + 1
  OBVIOUS
<1>2. b + 1 \notin 1..b
  OBVIOUS
<1>3. f \in [S -> T]
  BY DEF TopSets
<1>4. \A p, q \in S : f[p] = f[q] => p = q
  <2>1. \A s \in S : f[s] \ {b + 1} = s
    BY <1>2
  <2>2. QED
    BY <2>1
<1>5. \A t \in T : \E s \in S : f[s] = t
  BY DEF TopSets
<1>6. IsFiniteSet(S) /\ Cardinality(S) = 2^b /\ 2^b \in Nat
  BY PowerCounts
<1>7. IsFiniteSet(T) /\ Cardinality(T) = 2^b
  <2> HIDE DEF S, T, f
  <2>1. QED
    BY <1>3, <1>4, <1>5, <1>6, SameSize
<1>8. \A X \in T : b + 1 \in X /\ X \in SUBSET (1..(b + 1))
  BY <1>1 DEF TopSets
<1>9. QED
  BY <1>6, <1>7, <1>8

\* All of them for the numbers of a set: as many as its weight.
TopsOf(s) == UNION {TopSets(b) : b \in s}

\* A finite set of numbers has finitely many such sets.
LEMMA TopsFinite ==
  ASSUME NEW B \in SUBSET Nat, IsFiniteSet(B)
  PROVE  IsFiniteSet(TopsOf(B)) /\ Cardinality(TopsOf(B)) \in Nat
<1>1. IsFiniteSet({TopSets(b) : b \in B})
  <2> DEFINE m == [b \in B |-> TopSets(b)]
  <2>1. m \in Surjection(B, {TopSets(b) : b \in B})
    BY DEF Surjection
  <2>2. QED
    BY <2>1, FS_Surjection
<1>2. \A a \in {TopSets(b) : b \in B} : IsFiniteSet(a)
  BY TopSetsCount
<1>3. IsFiniteSet(TopsOf(B))
  BY <1>1, <1>2, FS_UNION DEF TopsOf
<1>4. QED
  BY <1>3, FS_CardinalityType

\* Sets of different greatest elements are different.
LEMMA TopsApart ==
  ASSUME NEW B \in SUBSET Nat, NEW C \in SUBSET Nat, IsFiniteSet(B), IsFiniteSet(C), B \cap C = {}
  PROVE  /\ TopsOf(B \cup C) = TopsOf(B) \cup TopsOf(C)
         /\ TopsOf(B) \cap TopsOf(C) = {}
         /\ Cardinality(TopsOf(B \cup C)) = Cardinality(TopsOf(B)) + Cardinality(TopsOf(C))
<1>1. TopsOf(B \cup C) = TopsOf(B) \cup TopsOf(C)
  BY DEF TopsOf
<1>2. ASSUME NEW X \in TopsOf(B), X \in TopsOf(C)
      PROVE  FALSE
  <2>1. PICK b \in B : X \in TopSets(b)
    BY DEF TopsOf
  <2>2. PICK c \in C : X \in TopSets(c)
    BY <1>2 DEF TopsOf
  <2>3. b \in Nat /\ c \in Nat /\ b # c
    OBVIOUS
  <2>4. b + 1 \in X /\ c + 1 \in X /\ (\A x \in X : x \in 1..(b + 1)) /\ (\A x \in X : x \in 1..(c + 1))
    BY <2>1, <2>2, TopSetsCount
  <2>5. c + 1 \in 1..(b + 1) /\ b + 1 \in 1..(c + 1)
    BY <2>4
  <2>6. QED
    BY <2>3, <2>5
<1>3. TopsOf(B) \cap TopsOf(C) = {}
  BY <1>2
<1>4. /\ IsFiniteSet(TopsOf(B)) /\ Cardinality(TopsOf(B)) \in Nat
      /\ IsFiniteSet(TopsOf(C)) /\ Cardinality(TopsOf(C)) \in Nat
  BY TopsFinite
<1>5. Cardinality(TopsOf(B) \cup TopsOf(C)) =
        Cardinality(TopsOf(B)) + Cardinality(TopsOf(C)) - Cardinality(TopsOf(B) \cap TopsOf(C))
  BY <1>4, FS_Union
<1>6. Cardinality(TopsOf(B) \cap TopsOf(C)) = 0
  BY <1>3, FS_EmptySet
<1>7. Cardinality(TopsOf(B) \cup TopsOf(C)) = Cardinality(TopsOf(B)) + Cardinality(TopsOf(C))
  BY <1>4, <1>5, <1>6
<1>8. QED
  BY <1>1, <1>3, <1>7

\* The weight of a graph, counted.
LEMMA WeightCounts ==
  ASSUME NEW g, g.bits \in SUBSET Nat, IsFiniteSet(g.bits)
  PROVE  Weight(g) = Cardinality(TopsOf(g.bits))
<1> DEFINE B == g.bits
           Unfolded(h) == [s \in SUBSET B |->
                             IF s = {} THEN 0
                             ELSE h[s \ {CHOOSE x \in s : TRUE}] + 2^(CHOOSE x \in s : TRUE)]
           counted == [s \in SUBSET B |-> Cardinality(TopsOf(s))]
           iter == CHOOSE h : h = Unfolded(h)
<1>1. Weight(g) = iter[B]
  BY Zenon DEF Weight, FoldSet, MapThenFoldSet
<1>2. counted = Unfolded(counted)
  <2> SUFFICES ASSUME NEW s \in SUBSET B
               PROVE  counted[s] = IF s = {} THEN 0
                                   ELSE counted[s \ {CHOOSE x \in s : TRUE}] + 2^(CHOOSE x \in s : TRUE)
    BY Zenon
  <2>1. CASE s = {}
    <3>1. TopsOf({}) = {}
      BY DEF TopsOf
    <3>2. QED
      BY <2>1, <3>1, FS_EmptySet
  <2>2. CASE s # {}
    <3> DEFINE x == CHOOSE y \in s : TRUE
    <3>1. x \in s /\ x \in Nat
      BY <2>2
    <3> HIDE DEF x
    <3> DEFINE r == s \ {x}
    <3>2. r \in SUBSET B /\ r \in SUBSET Nat /\ {x} \in SUBSET Nat /\ s = r \cup {x} /\ r \cap {x} = {}
      BY <3>1
    <3>3. IsFiniteSet(r) /\ IsFiniteSet({x})
      BY <3>2, FS_Subset, FS_Singleton
    <3> HIDE DEF r
    <3>4. Cardinality(TopsOf(s)) = Cardinality(TopsOf(r)) + Cardinality(TopsOf({x}))
      BY <3>2, <3>3, TopsApart
    <3>5. TopsOf({x}) = TopSets(x)
      BY DEF TopsOf
    <3>6. Cardinality(TopSets(x)) = 2^x
      BY <3>1, TopSetsCount
    <3>7. counted[s] = counted[r] + 2^x
      BY <3>2, <3>4, <3>5, <3>6
    <3>8. QED
      BY <2>2, <3>7, Zenon DEF r, x
  <2>3. QED
    BY <2>1, <2>2
<1> HIDE DEF counted
<1>3. iter = Unfolded(iter)
  <2> HIDE DEF Unfolded
  <2>1. QED
    BY <1>2, Zenon
<1> HIDE DEF iter
<1> DEFINE G == {s \in SUBSET B : iter[s] = counted[s]}
<1>4. \A s \in SUBSET B : (\A r \in SUBSET s : r # s => r \in G) => s \in G
  <2> SUFFICES ASSUME NEW s \in SUBSET B, \A r \in SUBSET s : r # s => r \in G
               PROVE  iter[s] = counted[s]
    OBVIOUS
  <2>1. /\ iter[s] = IF s = {} THEN 0
                     ELSE iter[s \ {CHOOSE x \in s : TRUE}] + 2^(CHOOSE x \in s : TRUE)
        /\ counted[s] = IF s = {} THEN 0
                        ELSE counted[s \ {CHOOSE x \in s : TRUE}] + 2^(CHOOSE x \in s : TRUE)
    BY <1>2, <1>3, Zenon
  <2>2. s # {} => s \ {CHOOSE x \in s : TRUE} \in G
    <3>1. s # {} => (CHOOSE x \in s : TRUE) \in s
      OBVIOUS
    <3>2. QED
      BY <3>1
  <2>3. QED
    BY <2>1, <2>2
<1>5. G \in SUBSET (SUBSET B)
  OBVIOUS
<1>6. G = SUBSET B
  <2> HIDE DEF G
  <2>1. QED
    BY <1>4, <1>5, SubsetInduction
<1>7. iter[B] = counted[B]
  BY <1>6
<1>8. QED
  BY <1>1, <1>7 DEF counted

\* The weight tells the bits: the greatest bit in which two sets differ outweighs
\* all that are below it.
LEMMA Outweighs ==
  ASSUME NEW B \in SUBSET Nat, IsFiniteSet(B), NEW C \in SUBSET Nat, IsFiniteSet(C),
         NEW d \in B, d \notin C, \A x \in Nat : x > d => (x \in B <=> x \in C)
  PROVE  Cardinality(TopsOf(C)) < Cardinality(TopsOf(B))
<1> DEFINE H == {x \in B : x > d}
           low == {x \in C : x < d}
           rest == {x \in B : x < d}
<1>1. /\ C = H \cup low /\ H \cap low = {}
      /\ B = (H \cup {d}) \cup rest /\ (H \cup {d}) \cap rest = {} /\ H \cap {d} = {}
  <2>1. d \in Nat /\ \A x \in Nat : (x < d \/ x = d \/ x > d) /\ ~(x < d /\ x > d) /\ ~(d < d)
    OBVIOUS
  <2>2. \A x : x \in C <=> x \in H \/ x \in low
    BY <2>1
  <2>3. \A x : x \in B <=> x \in H \/ x = d \/ x \in rest
    BY <2>1
  <2>4. (\A x \in low : x \notin H) /\ (\A x \in rest : x \notin H /\ x # d) /\ d \notin H
    BY <2>1
  <2> HIDE DEF H, low, rest
  <2>5. QED
    BY <2>2, <2>3, <2>4
<1>2. /\ H \in SUBSET Nat /\ low \in SUBSET Nat /\ rest \in SUBSET Nat /\ {d} \in SUBSET Nat /\ d \in Nat
      /\ IsFiniteSet(H) /\ IsFiniteSet(low) /\ IsFiniteSet(rest) /\ IsFiniteSet({d})
  <2>1. H \in SUBSET B /\ low \in SUBSET C /\ rest \in SUBSET B /\ d \in Nat
    OBVIOUS
  <2> HIDE DEF H, low, rest
  <2>2. IsFiniteSet(H) /\ IsFiniteSet(low) /\ IsFiniteSet(rest) /\ IsFiniteSet({d})
    BY <2>1, FS_Subset, FS_Singleton
  <2>3. QED
    BY <2>1, <2>2
<1>3. TopsOf(low) \in SUBSET ((SUBSET (1..d)) \ {{}})
  <2> SUFFICES ASSUME NEW X \in TopsOf(low)
               PROVE  X \in SUBSET (1..d) /\ X # {}
    OBVIOUS
  <2>1. PICK b \in low : X \in TopSets(b)
    BY DEF TopsOf
  <2>2. b \in Nat /\ b < d
    BY <1>2
  <2>3. b + 1 \in X /\ \A x \in X : x \in 1..(b + 1)
    BY <2>1, <2>2, TopSetsCount
  <2>4. \A x \in 1..(b + 1) : x \in 1..d
    BY <2>2, <1>2
  <2>5. QED
    BY <2>3, <2>4
<1>4. Cardinality(TopsOf(low)) < 2^d /\ Cardinality(TopsOf(low)) \in Nat
  <2>1. IsFiniteSet(SUBSET (1..d)) /\ Cardinality(SUBSET (1..d)) = 2^d /\ 2^d \in Nat
    BY <1>2, PowerCounts
  <2>2. TopsOf(low) \in SUBSET (SUBSET (1..d)) /\ TopsOf(low) # SUBSET (1..d)
    BY <1>3
  <2>3. Cardinality(TopsOf(low)) <= 2^d /\ Cardinality(TopsOf(low)) # 2^d
    <3> HIDE DEF low
    <3>1. QED
      BY <2>1, <2>2, FS_Subset
  <2>4. Cardinality(TopsOf(low)) \in Nat
    BY <1>2, TopsFinite
  <2>5. QED
    BY <2>1, <2>3, <2>4
<1>5. Cardinality(TopsOf({d})) = 2^d /\ 2^d \in Nat
  <2>1. TopsOf({d}) = TopSets(d)
    BY DEF TopsOf
  <2>2. QED
    BY <1>2, <2>1, TopSetsCount
<1>6. /\ Cardinality(TopsOf(H)) \in Nat /\ Cardinality(TopsOf(rest)) \in Nat
  BY <1>2, TopsFinite
<1>7. IsFiniteSet(H \cup {d}) /\ H \cup {d} \in SUBSET Nat
  BY <1>2, FS_Union
<1> HIDE DEF H, low, rest
<1>8. Cardinality(TopsOf(C)) = Cardinality(TopsOf(H)) + Cardinality(TopsOf(low))
  BY <1>1, <1>2, TopsApart
<1>9. Cardinality(TopsOf(H \cup {d})) = Cardinality(TopsOf(H)) + Cardinality(TopsOf({d}))
  BY <1>1, <1>2, TopsApart
<1>10. Cardinality(TopsOf(B)) = Cardinality(TopsOf(H \cup {d})) + Cardinality(TopsOf(rest))
  BY <1>1, <1>2, <1>7, TopsApart
<1> DEFINE ch == Cardinality(TopsOf(H))
           cl == Cardinality(TopsOf(low))
           cr == Cardinality(TopsOf(rest))
           pow == 2^d
<1>11. /\ Cardinality(TopsOf(C)) = ch + cl /\ Cardinality(TopsOf(B)) = (ch + pow) + cr
       /\ ch \in Nat /\ cl \in Nat /\ cr \in Nat /\ pow \in Nat /\ cl < pow
  BY <1>4, <1>5, <1>6, <1>8, <1>9, <1>10
<1> HIDE DEF ch, cl, cr, pow
<1>12. QED
  BY <1>11

\* A finite set of numbers has a greatest one.
LEMMA GreatestOf ==
  ASSUME NEW S \in SUBSET Nat, IsFiniteSet(S), S # {}
  PROVE  \E d \in S : \A x \in S : x <= d
<1> DEFINE G == {s \in SUBSET S : s = {} \/ \E d \in s : \A x \in s : x <= d}
<1>1. \A s \in SUBSET S : (\A r \in SUBSET s : r # s => r \in G) => s \in G
  <2> SUFFICES ASSUME NEW s \in SUBSET S, \A r \in SUBSET s : r # s => r \in G, NEW y \in s
               PROVE  \E d \in s : \A x \in s : x <= d
    OBVIOUS
  <2>1. s \ {y} \in G
    OBVIOUS
  <2>2. CASE s \ {y} = {}
    BY <2>2
  <2>3. CASE \E d \in s \ {y} : \A x \in s \ {y} : x <= d
    <3>1. PICK d \in s \ {y} : \A x \in s \ {y} : x <= d
      BY <2>3
    <3>2. d \in Nat /\ y \in Nat /\ \A x \in s : x \in Nat
      OBVIOUS
    <3>3. CASE d <= y
      BY <3>1, <3>2, <3>3
    <3>4. CASE y <= d
      BY <3>1, <3>2, <3>4
    <3>5. QED
      BY <3>2, <3>3, <3>4
  <2>4. QED
    BY <2>1, <2>2, <2>3
<1>2. G \in SUBSET (SUBSET S)
  OBVIOUS
<1>3. G = SUBSET S
  <2> HIDE DEF G
  <2>1. QED
    BY <1>1, <1>2, SubsetInduction
<1>4. S \in G
  BY <1>3
<1>5. QED
  BY <1>4

\* Two graphs of one weight have the same bits.
LEMMA WeightTells ==
  ASSUME NEW g, g.bits \in SUBSET Nat, IsFiniteSet(g.bits),
         NEW h, h.bits \in SUBSET Nat, IsFiniteSet(h.bits), Weight(g) = Weight(h)
  PROVE  g.bits = h.bits
<1> DEFINE B == g.bits
           C == h.bits
           D == (B \ C) \cup (C \ B)
<1>1. Cardinality(TopsOf(B)) = Cardinality(TopsOf(C)) /\ Cardinality(TopsOf(B)) \in Nat /\ Cardinality(TopsOf(C)) \in Nat
  BY WeightCounts, TopsFinite
<1>2. D \in SUBSET Nat /\ IsFiniteSet(D)
  <2>1. IsFiniteSet(B \cup C)
    BY FS_Union
  <2>2. D \in SUBSET (B \cup C)
    OBVIOUS
  <2>3. QED
    BY <2>1, <2>2, FS_Subset
<1> SUFFICES ASSUME D # {}
             PROVE  FALSE
  OBVIOUS
<1>3. PICK d \in D : \A x \in D : x <= d
  <2> HIDE DEF D
  <2>1. QED
    BY <1>2, GreatestOf
<1>4. d \in Nat /\ \A x \in Nat : x > d => (x \in B <=> x \in C)
  BY <1>2, <1>3
<1>5. CASE d \in B
  <2>1. d \notin C
    BY <1>3, <1>5
  <2>2. Cardinality(TopsOf(C)) < Cardinality(TopsOf(B))
    BY <1>4, <1>5, <2>1, Outweighs
  <2>3. QED
    BY <1>1, <2>2
<1>6. CASE d \in C
  <2>1. d \notin B
    BY <1>3, <1>6
  <2>2. Cardinality(TopsOf(B)) < Cardinality(TopsOf(C))
    BY <1>4, <1>6, <2>1, Outweighs
  <2>3. QED
    BY <1>1, <2>2
<1>7. QED
  BY <1>3, <1>5, <1>6

-----------------------------------------------------------------------------
(***************************************************************************)
(* Relabelled graphs                                                       *)
(***************************************************************************)

\* One labelling after another.
After2(a, b) == [v \in DOMAIN b |-> a[b[v]]]

\* A labelling maps the vertices one to one: on finitely many it is then onto.
LEMMA LabellingIs ==
  ASSUME NEW m, NEW lab
  PROVE  lab \in Labellings(m) <=>
           /\ lab \in [Vertices(m) -> Vertices(m)]
           /\ \A v, w \in Vertices(m) : lab[v] = lab[w] => v = w
           /\ \A w \in Vertices(m) : \E v \in Vertices(m) : lab[v] = w
<1> DEFINE V == Vertices(m)
<1>1. lab \in Labellings(m) <=> lab \in Injection(V, V) /\ lab \in Surjection(V, V)
  BY Zenon DEF Labellings, Bijection
<1>2. lab \in Injection(V, V) <=> lab \in [V -> V] /\ \A v, w \in V : lab[v] = lab[w] => v = w
  <2>1. lab \in Injection(V, V) <=> lab \in [V -> V] /\ IsInjective(lab)
    BY Zenon DEF Injection
  <2>2. lab \in [V -> V] => DOMAIN lab = V
    OBVIOUS
  <2>3. QED
    BY <2>1, <2>2 DEF IsInjective
<1>3. lab \in Surjection(V, V) <=> lab \in [V -> V] /\ \A w \in V : \E v \in V : lab[v] = w
  BY Zenon DEF Surjection
<1>4. QED
  BY <1>1, <1>2, <1>3

\* Inverted undoes a labelling, from both sides.
LEMMA InvertedBack ==
  ASSUME NEW m, NEW lab \in Labellings(m)
  PROVE  /\ Inverted(lab) \in Labellings(m)
         /\ \A v \in Vertices(m) : lab[Inverted(lab)[v]] = v /\ Inverted(lab)[lab[v]] = v
<1> DEFINE V == Vertices(m)
           inv == Inverted(lab)
<1>1. /\ lab \in [V -> V] /\ DOMAIN lab = V
      /\ \A v, w \in V : lab[v] = lab[w] => v = w
      /\ \A w \in V : \E v \in V : lab[v] = w
  BY LabellingIs
<1>2. inv = [v \in V |-> CHOOSE p \in V : lab[p] = v]
  BY <1>1 DEF Inverted
<1>3. \A v \in V : inv[v] \in V /\ lab[inv[v]] = v
  BY <1>1, <1>2
<1>4. \A v \in V : inv[lab[v]] = v
  BY <1>1, <1>3
<1>5. inv \in [V -> V]
  BY <1>2, <1>3
<1>6. (\A v, w \in V : inv[v] = inv[w] => v = w) /\ (\A w \in V : \E v \in V : inv[v] = w)
  BY <1>1, <1>3, <1>4
<1> HIDE DEF inv
<1>7. inv \in Labellings(m)
  BY <1>5, <1>6, LabellingIs
<1>8. QED
  BY <1>3, <1>4, <1>7 DEF inv

\* One labelling after another is a labelling.
LEMMA ComposedIs ==
  ASSUME NEW m, NEW a \in Labellings(m), NEW b \in Labellings(m)
  PROVE  /\ After2(a, b) \in Labellings(m)
         /\ \A v \in Vertices(m) : After2(a, b)[v] = a[b[v]] /\ b[v] \in Vertices(m) /\ a[v] \in Vertices(m)
<1> DEFINE V == Vertices(m)
           ab == After2(a, b)
<1>1. /\ a \in [V -> V] /\ (\A v, w \in V : a[v] = a[w] => v = w) /\ (\A w \in V : \E v \in V : a[v] = w)
      /\ b \in [V -> V] /\ (\A v, w \in V : b[v] = b[w] => v = w) /\ (\A w \in V : \E v \in V : b[v] = w)
  BY LabellingIs
<1>2. ab = [v \in V |-> a[b[v]]]
  BY <1>1 DEF After2
<1>3. \A v \in V : ab[v] = a[b[v]] /\ b[v] \in V /\ a[v] \in V
  BY <1>1, <1>2
<1>4. ab \in [V -> V]
  BY <1>2, <1>3
<1>5. (\A v, w \in V : ab[v] = ab[w] => v = w) /\ (\A w \in V : \E v \in V : ab[v] = w)
  <2>1. ASSUME NEW v \in V, NEW w \in V, ab[v] = ab[w]
        PROVE  v = w
    <3>1. a[b[v]] = a[b[w]] /\ b[v] \in V /\ b[w] \in V
      BY <1>3, <2>1
    <3>2. b[v] = b[w]
      BY <1>1, <3>1
    <3>3. QED
      BY <1>1, <3>2
  <2>2. ASSUME NEW w \in V
        PROVE  \E v \in V : ab[v] = w
    <3>1. PICK x \in V : a[x] = w
      BY <1>1
    <3>2. PICK v \in V : b[v] = x
      BY <1>1
    <3>3. QED
      BY <1>3, <3>1, <3>2
  <2>3. QED
    BY <2>1, <2>2
<1> HIDE DEF ab
<1>6. ab \in Labellings(m)
  BY <1>4, <1>5, LabellingIs
<1>7. QED
  BY <1>3, <1>6 DEF ab

\* There are finitely many labellings.
LEMMA LabellingsFinite ==
  ASSUME NEW m \in Nat
  PROVE  IsFiniteSet(Labellings(m))
<1> DEFINE V == Vertices(m)
           f == [lab \in Labellings(m) |-> {<<v, lab[v]>> : v \in V}]
<1>1. IsFiniteSet(SUBSET (V \X V))
  BY VerticesAre, FS_Product, FS_SUBSET
<1>2. \A lab \in Labellings(m) : f[lab] \in SUBSET (V \X V) /\ lab \in [V -> V]
  <2>1. \A lab \in Labellings(m) : lab \in [V -> V]
    BY LabellingIs
  <2>2. QED
    BY <2>1
<1>3. \A a, b \in Labellings(m) : f[a] = f[b] => a = b
  <2> SUFFICES ASSUME NEW a \in Labellings(m), NEW b \in Labellings(m), f[a] = f[b]
               PROVE  a = b
    OBVIOUS
  <2>1. \A v \in V : <<v, a[v]>> \in {<<w, b[w]>> : w \in V}
    OBVIOUS
  <2>2. \A v \in V : a[v] = b[v]
    BY <2>1
  <2>3. a \in [V -> V] /\ b \in [V -> V]
    BY <1>2
  <2>4. QED
    BY <2>2, <2>3
<1>4. f \in Injection(Labellings(m), SUBSET (V \X V))
  <2>1. f \in [Labellings(m) -> SUBSET (V \X V)] /\ DOMAIN f = Labellings(m)
    BY <1>2
  <2> HIDE DEF f
  <2>2. QED
    BY <1>3, <2>1, Zenon DEF Injection, IsInjective
<1>5. QED
  BY <1>1, <1>4, FS_Injection

\* Relabelled: its edges.
LEMMA RelabelledIs ==
  ASSUME NEW m \in Nat, NEW g, g.n = m, NEW lab \in Labellings(m)
  PROVE  /\ Relabelled(g, lab) = Packing(m, {q \in Slots(m) : Edge(g, lab[q[1]], lab[q[2]])})
         /\ Relabelled(g, lab).n = m
         /\ \A i, j \in Vertices(m) : Edge(Relabelled(g, lab), i, j) <=> Edge(g, lab[i], lab[j])
<1> DEFINE V == Vertices(m)
           E == {q \in Slots(m) : Edge(g, lab[q[1]], lab[q[2]])}
           h == Relabelled(g, lab)
<1>1. h = Packing(m, E) /\ h.n = m
  BY DEF Relabelled, GraphWith, Packing
<1>2. \A i, j \in V : <<i, j>> \in E <=> i < j /\ Edge(g, lab[i], lab[j])
  BY DEF Slots
<1>3. lab \in [V -> V]
  BY LabellingIs
<1>4. \A i, j \in V : Edge(h, i, j) <=> (<<i, j>> \in E \/ <<j, i>> \in E)
  <2>1. E \in SUBSET Slots(m)
    OBVIOUS
  <2> HIDE DEF E, h
  <2>2. QED
    BY <1>1, <2>1, PackedEdges
<1>5. \A i, j \in V : (Edge(g, lab[i], lab[j]) <=> Edge(g, lab[j], lab[i])) /\ ~Edge(g, lab[i], lab[i])
  <2>1. \A i \in V : lab[i] \in V
    BY <1>3
  <2>2. QED
    BY <2>1, EdgeSymmetric
<1>6. \A i, j \in V : i < j \/ i = j \/ j < i
  BY DEF Vertices
<1> HIDE DEF E, h
<1>7. \A i, j \in V : Edge(h, i, j) <=> Edge(g, lab[i], lab[j])
  <2> SUFFICES ASSUME NEW i \in V, NEW j \in V
               PROVE  Edge(h, i, j) <=> Edge(g, lab[i], lab[j])
    OBVIOUS
  <2>1. /\ Edge(h, i, j) <=> (<<i, j>> \in E \/ <<j, i>> \in E)
        /\ <<i, j>> \in E <=> i < j /\ Edge(g, lab[i], lab[j])
        /\ <<j, i>> \in E <=> j < i /\ Edge(g, lab[j], lab[i])
    BY <1>2, <1>4
  <2>2. QED
    BY <1>5, <1>6, <2>1
<1>8. QED
  BY <1>1, <1>7 DEF E, h

\* A graph with no bits but those of its edges.
Proper(g) == g.n \in Nat /\ g = Packing(g.n, {q \in Slots(g.n) : Edge(g, q[1], q[2])})

\* A packed graph has the bits of its edges only.
LEMMA PackedProper ==
  ASSUME NEW m \in Nat, NEW E \in SUBSET Slots(m)
  PROVE  Proper(Packing(m, E)) /\ Packing(m, E).n = m
<1> DEFINE g == Packing(m, E)
<1>1. g.n = m
  BY DEF Packing
<1>2. \A q \in Slots(m) : q[1] \in Vertices(m) /\ q[2] \in Vertices(m) /\ q = <<q[1], q[2]>> /\ <<q[2], q[1]>> \notin Slots(m)
  BY DEF Slots, Vertices
<1>3. \A q \in Slots(m) : Edge(g, q[1], q[2]) <=> q \in E
  <2> SUFFICES ASSUME NEW q \in Slots(m)
               PROVE  Edge(g, q[1], q[2]) <=> q \in E
    OBVIOUS
  <2>1. Edge(g, q[1], q[2]) <=> (<<q[1], q[2]>> \in E \/ <<q[2], q[1]>> \in E)
    BY <1>2, PackedEdges
  <2>2. QED
    BY <1>2, <2>1
<1>4. {q \in Slots(m) : Edge(g, q[1], q[2])} = E
  BY <1>3
<1> HIDE DEF g
<1>5. g = Packing(m, E)
  BY DEF g
<1>6. QED
  BY <1>1, <1>4, <1>5 DEF Proper

\* Proper graphs with the same edges are equal.
LEMMA SameEdges ==
  ASSUME NEW g, NEW h, Proper(g), Proper(h), g.n = h.n,
         \A i, j \in Vertices(g.n) : Edge(g, i, j) <=> Edge(h, i, j)
  PROVE  g = h
<1>1. {q \in Slots(g.n) : Edge(g, q[1], q[2])} = {q \in Slots(g.n) : Edge(h, q[1], q[2])}
  BY DEF Slots
<1>2. QED
  BY <1>1 DEF Proper

\* So has a relabelled graph.
LEMMA RelabelledProper ==
  ASSUME NEW m \in Nat, NEW g, g.n = m, NEW lab \in Labellings(m)
  PROVE  Proper(Relabelled(g, lab))
<1> DEFINE E == {q \in Slots(m) : Edge(g, lab[q[1]], lab[q[2]])}
<1>1. Relabelled(g, lab) = Packing(m, E) /\ E \in SUBSET Slots(m)
  BY RelabelledIs
<1> HIDE DEF E
<1>2. QED
  BY <1>1, PackedProper

\* Relabelling twice is relabelling once by the two composed.
LEMMA RelabelledTwice ==
  ASSUME NEW m \in Nat, NEW g, g.n = m, NEW a \in Labellings(m), NEW b \in Labellings(m)
  PROVE  Relabelled(Relabelled(g, a), b) = Relabelled(g, After2(a, b))
<1> DEFINE V == Vertices(m)
           h == Relabelled(g, a)
           x == Relabelled(h, b)
           c == After2(a, b)
           y == Relabelled(g, c)
<1>1. h.n = m /\ \A i, j \in V : Edge(h, i, j) <=> Edge(g, a[i], a[j])
  BY RelabelledIs
<1>2. c \in Labellings(m) /\ \A v \in V : c[v] = a[b[v]] /\ b[v] \in V
  BY ComposedIs
<1> HIDE DEF h, c
<1>3. Proper(x) /\ x.n = m /\ \A i, j \in V : Edge(x, i, j) <=> Edge(h, b[i], b[j])
  BY <1>1, RelabelledIs, RelabelledProper
<1>4. Proper(y) /\ y.n = m /\ \A i, j \in V : Edge(y, i, j) <=> Edge(g, c[i], c[j])
  BY <1>2, RelabelledIs, RelabelledProper
<1> HIDE DEF x, y
<1>5. \A i, j \in V : Edge(x, i, j) <=> Edge(y, i, j)
  BY <1>1, <1>2, <1>3, <1>4
<1>6. x = y
  BY <1>3, <1>4, <1>5, SameEdges
<1>7. QED
  BY <1>6 DEF x, y, h, c

\* Undoing a relabelling.
LEMMA RelabelledBack ==
  ASSUME NEW m \in Nat, NEW g, g.n = m, Proper(g), NEW a \in Labellings(m)
  PROVE  Relabelled(Relabelled(g, a), Inverted(a)) = g
<1> DEFINE V == Vertices(m)
           b == Inverted(a)
           c == After2(a, b)
           y == Relabelled(g, c)
<1>1. b \in Labellings(m) /\ \A v \in V : a[b[v]] = v
  BY InvertedBack
<1> HIDE DEF b
<1>2. c \in Labellings(m) /\ \A v \in V : c[v] = v
  BY <1>1, ComposedIs
<1>3. Relabelled(Relabelled(g, a), b) = y
  BY <1>1, RelabelledTwice
<1> HIDE DEF c
<1>4. Proper(y) /\ y.n = m /\ \A i, j \in V : Edge(y, i, j) <=> Edge(g, c[i], c[j])
  BY <1>2, RelabelledIs, RelabelledProper
<1> HIDE DEF y
<1>5. y = g
  BY <1>2, <1>4, SameEdges
<1>6. QED
  BY <1>3, <1>5 DEF b

\* permute_vertices with a permutation is the relabelling by its inverse.
LEMMA PermutedIs ==
  ASSUME NEW m \in Nat, NEW g, g.n = m, NEW perm \in Labellings(m), NEW lab \in Labellings(m),
         \A v \in Vertices(m) : perm[lab[v]] = v /\ lab[perm[v]] = v
  PROVE  PermuteVertices(g, perm) = Relabelled(g, lab)
<1> DEFINE V == Vertices(m)
           moved == {p \in Slots(m) : Edge(g, p[1], p[2])}
           E == {q \in Slots(m) : Edge(g, lab[q[1]], lab[q[2]])}
           left == {Bit(g, perm[p[1]], perm[p[2]]) : p \in moved}
           right == {BitIndex(m, q[1], q[2]) : q \in E}
<1>1. PermuteVertices(g, perm) = [n |-> m, bits |-> left]
  BY DEF PermuteVertices
<1>2. Relabelled(g, lab) = [n |-> m, bits |-> right]
  BY RelabelledIs DEF Packing
<1>3. /\ perm \in [V -> V] /\ \A v, w \in V : perm[v] = perm[w] => v = w
      /\ lab \in [V -> V] /\ \A v, w \in V : lab[v] = lab[w] => v = w
  BY LabellingIs
<1>4. /\ \A q \in Slots(m) : q[1] \in V /\ q[2] \in V /\ q[1] < q[2] /\ q = <<q[1], q[2]>>
      /\ \A i, j \in V : <<i, j>> \in Slots(m) <=> i < j
      /\ \A i, j \in V : ~(i < j) /\ i # j => j < i
      /\ \A i, j \in V : Edge(g, i, j) <=> Edge(g, j, i)
      /\ \A i, j \in V : i < j => i # j /\ ~(j < i)
  <2>1. \A i, j \in V : Edge(g, i, j) <=> Edge(g, j, i)
    BY EdgeSymmetric
  <2>2. QED
    BY <2>1 DEF Slots, Vertices
<1>5. \A i, j \in V : /\ i < j => Bit(g, i, j) = BitIndex(m, i, j)
                      /\ j < i => Bit(g, i, j) = BitIndex(m, j, i)
  BY DEF Bit, Vertices
<1>6. ASSUME NEW p \in moved
      PROVE  Bit(g, perm[p[1]], perm[p[2]]) \in right
  <2> DEFINE i == perm[p[1]]
             j == perm[p[2]]
  <2>1. /\ i \in V /\ j \in V /\ lab[i] = p[1] /\ lab[j] = p[2] /\ i # j
        /\ Edge(g, lab[i], lab[j]) /\ Edge(g, lab[j], lab[i])
    BY <1>3, <1>4
  <2> HIDE DEF i, j
  <2>2. CASE i < j
    <3>1. <<i, j>> \in E
      BY <1>4, <2>1, <2>2
    <3>2. Bit(g, i, j) = BitIndex(m, i, j)
      BY <1>5, <2>1, <2>2
    <3>3. BitIndex(m, <<i, j>>[1], <<i, j>>[2]) \in right
      BY <3>1
    <3>4. QED
      BY <3>2, <3>3 DEF i, j
  <2>3. CASE j < i
    <3>1. <<j, i>> \in E
      BY <1>4, <2>1, <2>3
    <3>2. Bit(g, i, j) = BitIndex(m, j, i)
      BY <1>5, <2>1, <2>3
    <3>3. BitIndex(m, <<j, i>>[1], <<j, i>>[2]) \in right
      BY <3>1
    <3>4. QED
      BY <3>2, <3>3 DEF i, j
  <2>4. QED
    BY <1>4, <2>1, <2>2, <2>3
<1>7. ASSUME NEW q \in E
      PROVE  BitIndex(m, q[1], q[2]) \in left
  <2> DEFINE i == lab[q[1]]
             j == lab[q[2]]
  <2>1. /\ i \in V /\ j \in V /\ perm[i] = q[1] /\ perm[j] = q[2] /\ i # j
        /\ Edge(g, i, j) /\ Edge(g, j, i) /\ q[1] \in V /\ q[2] \in V /\ q[1] < q[2]
    BY <1>3, <1>4
  <2> HIDE DEF i, j
  <2>2. CASE i < j
    <3>1. <<i, j>> \in moved
      BY <1>4, <2>1, <2>2
    <3>2. Bit(g, perm[<<i, j>>[1]], perm[<<i, j>>[2]]) \in left
      BY <3>1
    <3>3. QED
      BY <1>5, <2>1, <3>2
  <2>3. CASE j < i
    <3>1. <<j, i>> \in moved
      BY <1>4, <2>1, <2>3
    <3>2. Bit(g, perm[<<j, i>>[1]], perm[<<j, i>>[2]]) \in left
      BY <3>1
    <3>3. QED
      BY <1>5, <2>1, <3>2
  <2>4. QED
    BY <1>4, <2>1, <2>2, <2>3
<1>8. left = right
  <2> HIDE DEF moved, E
  <2>1. QED
    BY <1>6, <1>7
<1>9. QED
  BY <1>1, <1>2, <1>8

\* A proper graph has finitely many bits, all of them numbers.
LEMMA ProperBits ==
  ASSUME NEW g, Proper(g)
  PROVE  g.bits \in SUBSET Nat /\ IsFiniteSet(g.bits)
<1> DEFINE m == g.n
           E == {q \in Slots(m) : Edge(g, q[1], q[2])}
           f == [q \in E |-> BitIndex(m, q[1], q[2])]
<1>1. m \in Nat /\ g.bits = {BitIndex(m, q[1], q[2]) : q \in E}
  BY DEF Proper, Packing
<1> HIDE DEF m
<1>2. IsFiniteSet(E)
  <2>1. IsFiniteSet(Vertices(m) \X Vertices(m))
    BY <1>1, VerticesAre, FS_Product
  <2>2. E \in SUBSET (Vertices(m) \X Vertices(m))
    BY DEF Slots
  <2>3. QED
    BY <2>1, <2>2, FS_Subset
<1>3. IsFiniteSet(g.bits)
  <2>1. f \in Surjection(E, g.bits)
    BY <1>1 DEF Surjection
  <2>2. QED
    BY <1>2, <2>1, FS_Surjection
<1>4. \A q \in Slots(m) : BitIndex(m, q[1], q[2]) \in Nat
  <2> SUFFICES ASSUME NEW q \in Slots(m)
               PROVE  BitIndex(m, q[1], q[2]) \in Nat
    OBVIOUS
  <2> DEFINE i == q[1]
             j == q[2]
  <2>1. i \in Nat /\ j \in Nat /\ i < j /\ j < m
    BY <1>1 DEF Slots, Vertices
  <2> HIDE DEF i, j
  <2>2. 2 * ((i * (i + 1)) \div 2) = i * (i + 1) /\ (i * (i + 1)) \div 2 \in Int
    BY <2>1, Halves
  <2>3. i * (i + 1) <= i * m
    BY <1>1, <2>1
  <2>4. i * (i + 1) >= 0 /\ i * m \in Int /\ i * (i + 1) \in Int
    BY <1>1, <2>1
  <2> DEFINE half == (i * (i + 1)) \div 2
             full == i * (i + 1)
             im == i * m
  <2>5. BitIndex(m, i, j) = im - half + (j - i - 1)
    BY DEF BitIndex
  <2>6. 2 * half = full /\ half \in Int /\ full <= im /\ full >= 0 /\ im \in Int /\ full \in Int
    BY <2>2, <2>3, <2>4
  <2> HIDE DEF half, full, im
  <2>7. im - half >= 0
    BY <2>6
  <2>8. QED
    BY <1>1, <2>1, <2>5, <2>6, <2>7 DEF i, j
<1>5. g.bits \in SUBSET Nat
  BY <1>1, <1>4
<1>6. QED
  BY <1>3, <1>5

\* The least weight of a relabelling.
LeastWeight(g) == Min({Weight(Relabelled(g, lab)) : lab \in Labellings(g.n)})

\* What nauty takes: a relabelling of the least weight.
LEMMA NautyIs ==
  ASSUME NEW m \in Nat, NEW g, g.n = m
  PROVE  /\ Nauty(g).lab \in Labellings(m)
         /\ Weight(Relabelled(g, Nauty(g).lab)) = LeastWeight(g)
         /\ Nauty(g).aut = Cardinality({lab \in Labellings(m) : Relabelled(g, lab) = g})
<1> DEFINE labs == Labellings(m)
           weight == [lab \in labs |-> Weight(Relabelled(g, lab))]
           all == {Weight(Relabelled(g, lab)) : lab \in labs}
<1>1. Range(weight) = all
  BY DEF Range
<1>2. labs # {}
  <2> DEFINE id == [v \in Vertices(m) |-> v]
  <2>1. id \in Labellings(m)
    BY LabellingIs
  <2>2. QED
    BY <2>1
<1>3. all \in SUBSET Nat
  <2>1. ASSUME NEW lab \in labs
        PROVE  Weight(Relabelled(g, lab)) \in Nat
    <3> DEFINE h == Relabelled(g, lab)
    <3>1. h.bits \in SUBSET Nat /\ IsFiniteSet(h.bits)
      BY RelabelledProper, ProperBits
    <3> HIDE DEF h
    <3>2. Weight(h) \in Nat
      BY <3>1, WeightCounts, TopsFinite
    <3>3. QED
      BY <3>2 DEF h
  <2>2. QED
    BY <2>1
<1>4. LeastWeight(g) \in all
  <2>1. all # {}
    BY <1>2
  <2> HIDE DEF all
  <2>2. \E w \in all : \A x \in all : w <= x
    BY <1>3, <2>1, LeastOfNats
  <2>3. Min(all) \in all
    BY <2>2 DEF Min
  <2>4. QED
    BY <2>3 DEF LeastWeight, all
<1>5. \E lab \in labs : weight[lab] = LeastWeight(g)
  BY <1>4
<1>6. Min(Range(weight)) = LeastWeight(g)
  BY <1>1 DEF LeastWeight
<1> DEFINE some == CHOOSE lab \in labs : weight[lab] = LeastWeight(g)
<1>7. some \in labs /\ weight[some] = LeastWeight(g)
  <2> HIDE DEF labs, weight
  <2>1. QED
    BY <1>5
<1>8. Nauty(g) = [lab |-> CHOOSE lab \in labs : weight[lab] = Min(Range(weight)),
                  aut |-> Cardinality({lab \in labs : Relabelled(g, lab) = g})]
  BY Zenon DEF Nauty
<1>9. Nauty(g).lab = some /\ Nauty(g).aut = Cardinality({lab \in labs : Relabelled(g, lab) = g})
  <2> HIDE DEF labs, weight
  <2>1. QED
    BY <1>6, <1>8
<1> HIDE DEF some
<1>10. weight[some] = Weight(Relabelled(g, some))
  BY <1>7
<1>11. QED
  BY <1>7, <1>9, <1>10

\* The canonical form is the relabelling nauty takes.
LEMMA CanonicalIs ==
  ASSUME NEW m \in Nat, NEW g, g.n = m
  PROVE  /\ CanonicalForm(g).graph = Relabelled(g, Nauty(g).lab)
         /\ CanonicalForm(g).aut = Nauty(g).aut
         /\ PermuteVertices(g, Inverted(Nauty(g).lab)) = Relabelled(g, Nauty(g).lab)
<1> DEFINE lab == Nauty(g).lab
           inv == Inverted(lab)
<1>1. lab \in Labellings(m)
  BY NautyIs
<1> HIDE DEF lab
<1>2. inv \in Labellings(m) /\ \A v \in Vertices(m) : inv[lab[v]] = v /\ lab[inv[v]] = v
  BY <1>1, InvertedBack
<1> HIDE DEF inv
<1>3. PermuteVertices(g, inv) = Relabelled(g, lab)
  BY <1>1, <1>2, PermutedIs
<1>4. CanonicalForm(g) = [graph |-> IF m = 0 THEN NewGraph(0) ELSE PermuteVertices(g, inv), aut |-> Nauty(g).aut]
  BY DEF CanonicalForm, inv, lab
<1>5. CASE m = 0
  <2>1. Slots(0) = {}
    BY DEF Slots, Vertices
  <2>2. Relabelled(g, lab) = Packing(0, {q \in Slots(0) : Edge(g, lab[q[1]], lab[q[2]])})
    BY <1>1, <1>5, RelabelledIs
  <2>3. Relabelled(g, lab) = NewGraph(0)
    BY <2>1, <2>2 DEF Packing, NewGraph
  <2>4. QED
    BY <1>3, <1>4, <1>5, <2>3 DEF lab, inv
<1>6. CASE m # 0
  BY <1>3, <1>4, <1>6 DEF lab, inv
<1>7. QED
  BY <1>5, <1>6

\* The relabellings of a relabelling are those of the graph.
LEMMA SameRelabellings ==
  ASSUME NEW m \in Nat, NEW g, g.n = m, NEW a \in Labellings(m)
  PROVE  LeastWeight(Relabelled(g, a)) = LeastWeight(g)
<1> DEFINE h == Relabelled(g, a)
           labs == Labellings(m)
           inv == Inverted(a)
<1>1. h.n = m
  BY RelabelledIs
<1>2. \A b \in labs : After2(a, b) \in labs /\ Relabelled(h, b) = Relabelled(g, After2(a, b))
  BY ComposedIs, RelabelledTwice
<1>3. ASSUME NEW b \in labs
      PROVE  \E c \in labs : Relabelled(h, c) = Relabelled(g, b)
  <2> DEFINE c == After2(inv, b)
             d == After2(a, c)
  <2>1. inv \in labs /\ \A v \in Vertices(m) : a[inv[v]] = v
    BY InvertedBack
  <2> HIDE DEF inv
  <2>2. c \in labs /\ \A v \in Vertices(m) : c[v] = inv[b[v]] /\ b[v] \in Vertices(m)
    BY <2>1, ComposedIs
  <2> HIDE DEF c
  <2>3. d \in labs /\ \A v \in Vertices(m) : d[v] = a[c[v]]
    BY <2>2, ComposedIs
  <2>4. \A v \in Vertices(m) : d[v] = b[v]
    BY <2>1, <2>2, <2>3
  <2>5. d \in [Vertices(m) -> Vertices(m)] /\ b \in [Vertices(m) -> Vertices(m)]
    BY <2>3, LabellingIs
  <2>6. Relabelled(h, c) = Relabelled(g, d)
    BY <1>2, <2>2
  <2> HIDE DEF d
  <2>7. d = b
    BY <2>4, <2>5
  <2>8. QED
    BY <2>2, <2>6, <2>7
<1> HIDE DEF h, labs
<1>4. {Weight(Relabelled(h, lab)) : lab \in labs} = {Weight(Relabelled(g, lab)) : lab \in labs}
  BY <1>2, <1>3
<1>5. QED
  BY <1>1, <1>4 DEF LeastWeight, h, labs

\* A relabelling has as many automorphisms.
LEMMA SameAut ==
  ASSUME NEW m \in Nat, NEW g, g.n = m, Proper(g), NEW a \in Labellings(m)
  PROVE  Nauty(Relabelled(g, a)).aut = Nauty(g).aut
<1> DEFINE h == Relabelled(g, a)
           inv == Inverted(a)
           S == {lab \in Labellings(m) : Relabelled(g, lab) = g}
           T == {lab \in Labellings(m) : Relabelled(h, lab) = h}
           f == [lab \in S |-> After2(inv, After2(lab, a))]
<1>1. h.n = m /\ Proper(h) /\ inv \in Labellings(m) /\ \A v \in Vertices(m) : a[inv[v]] = v /\ inv[a[v]] = v
  BY RelabelledIs, RelabelledProper, InvertedBack
<1> HIDE DEF inv
<1>2. \A lab \in Labellings(m) :
        /\ After2(inv, After2(lab, a)) \in Labellings(m)
        /\ \A v \in Vertices(m) : After2(inv, After2(lab, a))[v] = inv[lab[a[v]]]
  <2> SUFFICES ASSUME NEW lab \in Labellings(m)
               PROVE  /\ After2(inv, After2(lab, a)) \in Labellings(m)
                      /\ \A v \in Vertices(m) : After2(inv, After2(lab, a))[v] = inv[lab[a[v]]]
    OBVIOUS
  <2> DEFINE c == After2(lab, a)
  <2>1. c \in Labellings(m) /\ \A v \in Vertices(m) : c[v] = lab[a[v]]
    BY ComposedIs
  <2> HIDE DEF c
  <2>2. After2(inv, c) \in Labellings(m) /\ \A v \in Vertices(m) : After2(inv, c)[v] = inv[c[v]]
    BY <1>1, <2>1, ComposedIs
  <2>3. QED
    BY <2>1, <2>2 DEF c
<1>3. \A lab \in Labellings(m) : Relabelled(h, After2(inv, After2(lab, a))) = Relabelled(Relabelled(g, lab), a)
  <2> SUFFICES ASSUME NEW lab \in Labellings(m)
               PROVE  Relabelled(h, After2(inv, After2(lab, a))) = Relabelled(Relabelled(g, lab), a)
    OBVIOUS
  <2> DEFINE b == After2(inv, After2(lab, a))
             c == After2(lab, a)
             d == After2(a, b)
  <2>1. b \in Labellings(m) /\ \A v \in Vertices(m) : b[v] = inv[lab[a[v]]]
    BY <1>2
  <2>2. c \in Labellings(m) /\ \A v \in Vertices(m) : c[v] = lab[a[v]] /\ c[v] \in Vertices(m)
    <3>1. c \in Labellings(m) /\ \A v \in Vertices(m) : c[v] = lab[a[v]]
      BY ComposedIs
    <3>2. c \in [Vertices(m) -> Vertices(m)]
      BY <3>1, LabellingIs
    <3>3. QED
      BY <3>1, <3>2
  <2> HIDE DEF b
  <2>3. d \in Labellings(m) /\ \A v \in Vertices(m) : d[v] = a[b[v]]
    BY <2>1, ComposedIs
  <2>4. Relabelled(h, b) = Relabelled(g, d)
    BY <2>1, RelabelledTwice
  <2>5. Relabelled(Relabelled(g, lab), a) = Relabelled(g, c)
    BY RelabelledTwice
  <2> HIDE DEF c, d
  <2>6. \A v \in Vertices(m) : d[v] = c[v]
    BY <1>1, <2>1, <2>2, <2>3
  <2>7. d \in [Vertices(m) -> Vertices(m)] /\ c \in [Vertices(m) -> Vertices(m)]
    BY <2>2, <2>3, LabellingIs
  <2>8. d = c
    BY <2>6, <2>7
  <2>9. QED
    BY <2>4, <2>5, <2>8 DEF b
<1>4. f \in [S -> T]
  <2>1. \A lab \in S : After2(inv, After2(lab, a)) \in T
    BY <1>2, <1>3
  <2>2. QED
    BY <2>1
<1>5. \A x, y \in S : f[x] = f[y] => x = y
  <2> SUFFICES ASSUME NEW x \in S, NEW y \in S, f[x] = f[y]
               PROVE  x = y
    OBVIOUS
  <2>1. \A v \in Vertices(m) : f[x][v] = inv[x[a[v]]] /\ f[y][v] = inv[y[a[v]]]
    BY <1>2
  <2> HIDE DEF f
  <2>2. /\ x \in [Vertices(m) -> Vertices(m)] /\ y \in [Vertices(m) -> Vertices(m)]
        /\ inv \in [Vertices(m) -> Vertices(m)] /\ a \in [Vertices(m) -> Vertices(m)]
    BY <1>1, LabellingIs
  <2>3. ASSUME NEW w \in Vertices(m)
        PROVE  x[w] = y[w]
    <3> DEFINE v == inv[w]
    <3>1. v \in Vertices(m) /\ a[v] = w
      BY <1>1, <2>2
    <3> HIDE DEF v
    <3>2. inv[x[w]] = inv[y[w]] /\ x[w] \in Vertices(m) /\ y[w] \in Vertices(m)
      BY <2>1, <2>2, <3>1
    <3>3. QED
      BY <1>1, <3>2
  <2>4. QED
    BY <2>2, <2>3
<1>6. \A t \in T : \E lab \in S : f[lab] = t
  <2> SUFFICES ASSUME NEW t \in T
               PROVE  \E lab \in S : f[lab] = t
    OBVIOUS
  <2> DEFINE lab == After2(a, After2(t, inv))
             c == After2(t, inv)
  <2>1. c \in Labellings(m) /\ \A v \in Vertices(m) : c[v] = t[inv[v]]
    BY <1>1, ComposedIs
  <2>2. lab \in Labellings(m) /\ \A v \in Vertices(m) : lab[v] = a[c[v]]
    <3> HIDE DEF c
    <3>1. After2(a, c) \in Labellings(m) /\ \A v \in Vertices(m) : After2(a, c)[v] = a[c[v]]
      BY <2>1, ComposedIs
    <3>2. QED
      BY <3>1 DEF c
  <2>3. \A v \in Vertices(m) : lab[v] = a[t[inv[v]]]
    BY <2>1, <2>2
  <2> HIDE DEF lab
  <2> DEFINE b == After2(inv, After2(lab, a))
  <2>4. b \in Labellings(m) /\ \A v \in Vertices(m) : b[v] = inv[lab[a[v]]]
    BY <1>2, <2>2
  <2>5. Relabelled(h, b) = Relabelled(Relabelled(g, lab), a)
    BY <1>3, <2>2
  <2> HIDE DEF b
  <2>6. b \in [Vertices(m) -> Vertices(m)] /\ t \in [Vertices(m) -> Vertices(m)] /\ a \in [Vertices(m) -> Vertices(m)]
    BY <2>4, LabellingIs
  <2>7. \A v \in Vertices(m) : b[v] = t[v]
    BY <1>1, <2>3, <2>4, <2>6
  <2>8. b = t
    BY <2>6, <2>7
  <2>9. Relabelled(Relabelled(g, lab), a) = Relabelled(g, a)
    BY <2>5, <2>8
  <2>10. Relabelled(g, lab) = g
    <3> DEFINE k == Relabelled(g, lab)
    <3>1. k.n = m /\ Proper(k)
      BY <2>2, RelabelledIs, RelabelledProper
    <3> HIDE DEF k
    <3>2. Relabelled(Relabelled(k, a), Inverted(a)) = k
      BY <3>1, RelabelledBack
    <3>3. Relabelled(Relabelled(g, a), Inverted(a)) = g
      BY RelabelledBack
    <3>4. QED
      BY <2>9, <3>2, <3>3 DEF k
  <2>11. lab \in S
    BY <2>2, <2>10
  <2>12. f[lab] = t
    BY <2>8, <2>11 DEF b
  <2>13. QED
    BY <2>11, <2>12
<1>7. IsFiniteSet(S)
  BY LabellingsFinite, FS_Subset
<1>8. Cardinality(T) = Cardinality(S)
  <2> HIDE DEF S, T, f
  <2>1. QED
    BY <1>4, <1>5, <1>6, <1>7, SameSize
<1>9. Nauty(g).aut = Cardinality(S) /\ Nauty(h).aut = Cardinality(T)
  <2> HIDE DEF h
  <2>1. QED
    BY <1>1, NautyIs
<1>10. QED
  BY <1>8, <1>9

\* Isomorphic graphs have one canonical form and one number of automorphisms.
LEMMA CanonicalInvariant ==
  ASSUME NEW m \in Nat, NEW g, g.n = m, Proper(g), NEW a \in Labellings(m)
  PROVE  CanonicalForm(Relabelled(g, a)) = CanonicalForm(g)
<1> DEFINE h == Relabelled(g, a)
           cg == Relabelled(g, Nauty(g).lab)
           ch == Relabelled(h, Nauty(h).lab)
<1>1. h.n = m /\ Proper(h)
  BY RelabelledIs, RelabelledProper
<1>2. LeastWeight(h) = LeastWeight(g) /\ Nauty(h).aut = Nauty(g).aut
  BY SameRelabellings, SameAut
<1> HIDE DEF h
<1>3. /\ Nauty(g).lab \in Labellings(m) /\ Weight(cg) = LeastWeight(g)
      /\ Nauty(h).lab \in Labellings(m) /\ Weight(ch) = LeastWeight(h)
  BY <1>1, NautyIs
<1>4. Proper(cg) /\ Proper(ch) /\ cg.n = m /\ ch.n = m
  BY <1>1, <1>3, RelabelledIs, RelabelledProper
<1> HIDE DEF cg, ch
<1>5. cg.bits = ch.bits
  BY <1>2, <1>3, <1>4, ProperBits, WeightTells
<1>6. cg = ch
  BY <1>4, <1>5 DEF Proper, Packing
<1>7. /\ CanonicalForm(g).graph = cg /\ CanonicalForm(g).aut = Nauty(g).aut
      /\ CanonicalForm(h).graph = ch /\ CanonicalForm(h).aut = Nauty(h).aut
  BY <1>1, CanonicalIs DEF cg, ch
<1>8. \A x : CanonicalForm(x) = [graph |-> CanonicalForm(x).graph, aut |-> CanonicalForm(x).aut]
  BY DEF CanonicalForm
<1>9. QED
  BY <1>2, <1>6, <1>7, <1>8 DEF h

-----------------------------------------------------------------------------
(***************************************************************************)
(* One canonical form for all relabellings of a graph                      *)
(***************************************************************************)

\* Permuting the vertices of a graph changes nothing of its canonical form, and the
\* canonical form is the graph with its vertices permuted: for every graph, of any
\* size, and every permutation (canonical_form over nauty and permute_vertices).
THEOREM CanonicalForAll ==
  ASSUME NEW m \in Nat, NEW E \in SUBSET Slots(m), NEW g, g = Packing(m, E)
  PROVE  /\ \A perm \in Labellings(m) : CanonicalForm(PermuteVertices(g, perm)) = CanonicalForm(g)
         /\ \E lab \in Labellings(m) : PermuteVertices(g, lab) = CanonicalForm(g).graph
<1>1. Proper(g) /\ g.n = m
  BY PackedProper
<1>2. ASSUME NEW perm \in Labellings(m)
      PROVE  CanonicalForm(PermuteVertices(g, perm)) = CanonicalForm(g)
  <2> DEFINE lab == Inverted(perm)
  <2>1. lab \in Labellings(m) /\ \A v \in Vertices(m) : perm[lab[v]] = v /\ lab[perm[v]] = v
    BY InvertedBack
  <2> HIDE DEF lab
  <2>2. PermuteVertices(g, perm) = Relabelled(g, lab)
    BY <1>1, <2>1, PermutedIs
  <2>3. QED
    BY <1>1, <2>1, <2>2, CanonicalInvariant
<1>3. \E lab \in Labellings(m) : PermuteVertices(g, lab) = CanonicalForm(g).graph
  <2>1. Nauty(g).lab \in Labellings(m)
    BY <1>1, NautyIs
  <2>2. Inverted(Nauty(g).lab) \in Labellings(m)
    BY <2>1, InvertedBack
  <2>3. CanonicalForm(g).graph = PermuteVertices(g, Inverted(Nauty(g).lab))
    BY <1>1, CanonicalIs
  <2>4. QED
    BY <2>2, <2>3
<1>4. QED
  BY <1>2, <1>3

\* The graph of the walk has the bits of its edges, and no others.
LEMMA WalkGraph ==
  ASSUME WalkInv
  PROVE  /\ n \in Nat /\ n >= 2 /\ n <= MaxText /\ n < WordBits /\ graph.n = n /\ Proper(graph)
         /\ \E E \in SUBSET Slots(n) : graph = Packing(n, E)
<1> DEFINE E == {q \in Slots(n) : HasEdge(adj, q[1], q[2])}
<1>1. n \in Nat /\ n >= 2 /\ n <= MaxText /\ n < WordBits
  BY SizesAssumption DEF WalkInv, MaxText
<1>2. graph = Packing(n, E) /\ E \in SUBSET Slots(n)
  BY DEF graph, GraphWith, Packing
<1> HIDE DEF E
<1>3. Proper(graph) /\ graph.n = n
  BY <1>1, <1>2, PackedProper
<1>4. QED
  BY <1>1, <1>2, <1>3

\* The walk's graphs have one canonical form under every exchange of two vertices.
LEMMA WalkIsCanonical == WalkInv => CanonicalShared
<1> SUFFICES ASSUME WalkInv
             PROVE  CanonicalShared
  OBVIOUS
<1> DEFINE V == Vertices(n)
           Swapped(p) == [v \in V |-> IF v = p[1] THEN p[2] ELSE IF v = p[2] THEN p[1] ELSE v]
<1>1. n \in Nat /\ \E E \in SUBSET Slots(n) : graph = Packing(n, E)
  BY WalkGraph
<1>2. /\ \A perm \in Labellings(n) : CanonicalForm(PermuteVertices(graph, perm)) = CanonicalForm(graph)
      /\ \E lab \in Labellings(n) : PermuteVertices(graph, lab) = CanonicalForm(graph).graph
  BY <1>1, CanonicalForAll
<1>3. ASSUME NEW p \in Slots(n)
      PROVE  Swapped(p) \in Labellings(n)
  <2> DEFINE s == Swapped(p)
  <2>1. p[1] \in V /\ p[2] \in V /\ p[1] # p[2]
    BY <1>1 DEF Slots, Vertices
  <2>2. s \in [V -> V]
    BY <2>1
  <2>3. \A v \in V : s[v] = IF v = p[1] THEN p[2] ELSE IF v = p[2] THEN p[1] ELSE v
    OBVIOUS
  <2> HIDE DEF s
  <2>4. \A v \in V : s[v] \in V /\ s[s[v]] = v
    BY <2>1, <2>3
  <2>5. (\A v, w \in V : s[v] = s[w] => v = w) /\ (\A w \in V : \E v \in V : s[v] = w)
    BY <2>4
  <2>6. s \in Labellings(n)
    BY <2>2, <2>5, LabellingIs
  <2>7. QED
    BY <2>6 DEF s
<1>4. \A p \in Slots(n) : CanonicalForm(PermuteVertices(graph, Swapped(p))) = CanonicalForm(graph)
  BY <1>2, <1>3
<1>5. QED
  BY <1>2, <1>4, Zenon DEF CanonicalShared

-----------------------------------------------------------------------------
(***************************************************************************)
(* Sequences flattened from pieces of one length                           *)
(***************************************************************************)

\* A number written as so many times w and a rest.
LEMMA QuotientIs ==
  ASSUME NEW w \in Nat \ {0}, NEW q \in Int, NEW r \in Int, 0 <= r, r < w
  PROVE  (w * q + r) \div w = q
<1> DEFINE a == w * q + r
           d == a \div w
           e == a % w
<1>1. a \in Int /\ w \in Int /\ w > 0
  OBVIOUS
<1> HIDE DEF a
<1>2. d \in Int /\ e \in Int /\ 0 <= e /\ e < w /\ a = w * d + e
  BY <1>1
<1> HIDE DEF d, e
<1>3. ASSUME NEW x \in Int, NEW y \in Int, x < y
      PROVE  w * x + w <= w * y
  <2>1. y - x - 1 >= 0 /\ y - x - 1 \in Int
    BY <1>3
  <2>2. w * (y - x - 1) >= 0
    BY <2>1
  <2>3. w * y = w * x + w + w * (y - x - 1)
    OBVIOUS
  <2>4. QED
    BY <2>2, <2>3
<1>4. w * d + e = w * q + r /\ w * d \in Int /\ w * q \in Int
  BY <1>2 DEF a
<1>5. ~(d < q)
  <2> SUFFICES ASSUME d < q
               PROVE  FALSE
    OBVIOUS
  <2>1. w * d + w <= w * q
    BY <1>2, <1>3
  <2>2. QED
    BY <1>2, <1>4, <2>1
<1>6. ~(q < d)
  <2> SUFFICES ASSUME q < d
               PROVE  FALSE
    OBVIOUS
  <2>1. w * q + w <= w * d
    BY <1>2, <1>3
  <2>2. QED
    BY <1>2, <1>4, <2>1
<1>7. QED
  BY <1>2, <1>5, <1>6 DEF d, a

\* A number below w * i, written as so many times w and a rest below w.
LEMMA QuotientSplits ==
  ASSUME NEW w \in Nat \ {0}, NEW a \in Nat, NEW i \in Nat, a < w * i
  PROVE  /\ a \div w \in 0..(i - 1)
         /\ a - w * (a \div w) \in 0..(w - 1)
         /\ a = w * (a \div w) + (a - w * (a \div w))
<1> DEFINE d == a \div w
           e == a % w
<1>1. d \in Int /\ e \in Int /\ 0 <= e /\ e < w /\ a = w * d + e
  OBVIOUS
<1> HIDE DEF d, e
<1>2. ASSUME NEW x \in Int, NEW y \in Int, x < y
      PROVE  w * x + w <= w * y
  <2>1. y - x - 1 >= 0 /\ y - x - 1 \in Int
    BY <1>2
  <2>2. w * (y - x - 1) >= 0
    BY <2>1
  <2>3. w * y = w * x + w + w * (y - x - 1)
    OBVIOUS
  <2>4. QED
    BY <2>2, <2>3
<1>3. w * d \in Int /\ w * i \in Int /\ w * 0 = 0
  BY <1>1
<1>4. d >= 0
  <2> SUFFICES ASSUME d < 0
               PROVE  FALSE
    BY <1>1
  <2>1. w * d + w <= w * 0
    BY <1>1, <1>2
  <2>2. QED
    BY <1>1, <1>3, <2>1
<1>5. d < i
  <2> SUFFICES ASSUME ~(d < i)
               PROVE  FALSE
    OBVIOUS
  <2>1. w * i <= w * d
    <3>1. CASE i = d
      BY <1>3, <3>1
    <3>2. CASE i < d
      <4>1. w * i + w <= w * d
        BY <1>1, <1>2, <3>2
      <4>2. QED
        BY <1>3, <4>1
    <3>3. QED
      BY <1>1, <3>1, <3>2
  <2>2. QED
    BY <1>1, <1>3, <2>1
<1>6. d \in 0..(i - 1) /\ a - w * d \in 0..(w - 1) /\ a = w * d + (a - w * d)
  BY <1>1, <1>3, <1>4, <1>5
<1>7. QED
  BY <1>6 DEF d

\* Where the element x of a flattened sequence comes from if every piece has w
\* elements, and where the element k of the piece p goes.
Piece(w, x) == ((x - 1) \div w) + 1
Place(w, x) == x - w * ((x - 1) \div w)
Spot(w, p, k) == w * (p - 1) + k
Whole(w, i) == w * i

\* The lengths of ever more pieces.
LEMMA WholeIs ==
  ASSUME NEW w \in Nat \ {0}, NEW i \in Nat
  PROVE  Whole(w, i) \in Nat /\ Whole(w, 0) = 0 /\ Whole(w, 1) = w /\ Whole(w, i + 1) = Whole(w, i) + w
         /\ \A k \in Int : Spot(w, i + 1, k) = Whole(w, i) + k
<1>1. w * i \in Nat /\ w * 0 = 0 /\ w * 1 = w /\ w * (i + 1) = w * i + w
  OBVIOUS
<1>2. (i + 1) - 1 = i
  OBVIOUS
<1>3. \A k \in Int : Spot(w, i + 1, k) = Whole(w, i) + k
  BY <1>2, Zenon DEF Spot, Whole
<1>4. QED
  BY <1>1, <1>3 DEF Whole

\* Every element comes from a place in a piece.
LEMMA PieceIs ==
  ASSUME NEW w \in Nat \ {0}, NEW i \in Nat, NEW x \in 1..Whole(w, i)
  PROVE  Piece(w, x) \in 1..i /\ Place(w, x) \in 1..w
<1> DEFINE a == x - 1
           d == a \div w
           wd == w * d
<1>1. a \in Nat /\ a < w * i
  BY DEF Whole
<1> HIDE DEF a
<1>2. d \in 0..(i - 1) /\ a - wd \in 0..(w - 1)
  BY <1>1, QuotientSplits
<1>3. wd \in Int
  BY <1>2
<1>4. Piece(w, x) = d + 1 /\ Place(w, x) = x - wd
  BY DEF Piece, Place, a
<1>5. x \in Int /\ x = a + 1
  BY <1>1, WholeIs DEF a
<1> HIDE DEF wd, d
<1>6. d + 1 \in 1..i
  BY <1>2
<1>7. x - wd \in 1..w
  <2>1. x - wd = (a - wd) + 1
    BY <1>1, <1>3, <1>5
  <2>2. \A y \in 0..(w - 1) : y + 1 \in 1..w
    OBVIOUS
  <2>3. QED
    BY <1>2, <2>1, <2>2
<1>8. QED
  BY <1>4, <1>6, <1>7

\* Every place in a piece goes to one element, and is found again from it.
LEMMA SpotIs ==
  ASSUME NEW w \in Nat \ {0}, NEW i \in Nat, NEW p \in 1..i, NEW k \in 1..w
  PROVE  /\ Spot(w, p, k) \in 1..Whole(w, i)
         /\ Piece(w, Spot(w, p, k)) = p /\ Place(w, Spot(w, p, k)) = k
<1> DEFINE wp == w * (p - 1)
           wi == w * i
           rest == w * (i - p)
           x == Spot(w, p, k)
<1>1. wp \in Int /\ wi \in Int /\ wp >= 0 /\ p - 1 \in Int /\ k - 1 \in Int /\ k \in Int
  OBVIOUS
<1>2. wi = wp + w + rest
  OBVIOUS
<1>3. rest >= 0 /\ rest \in Int
  <2>1. i - p >= 0 /\ i - p \in Int
    OBVIOUS
  <2>2. QED
    BY <2>1
<1>4. (w * (p - 1) + (k - 1)) \div w = p - 1
  <2>1. 0 <= k - 1 /\ k - 1 < w
    OBVIOUS
  <2> HIDE DEF wp, wi, rest, x
  <2>2. QED
    BY <1>1, <2>1, QuotientIs
<1>5. x = wp + k
  BY DEF Spot
<1> HIDE DEF x
<1>6. x - 1 = w * (p - 1) + (k - 1)
  <2> HIDE DEF wp
  <2>1. x - 1 = wp + (k - 1)
    BY <1>1, <1>5
  <2>2. QED
    BY <2>1 DEF wp
<1>7. (x - 1) \div w = p - 1
  BY <1>4, <1>6
<1>8. Piece(w, x) = p /\ Place(w, x) = x - wp
  BY <1>7 DEF Piece, Place
<1>9. Whole(w, i) = wi
  BY DEF Whole
<1> HIDE DEF wp, wi, rest
<1>10. x - wp = k /\ x \in 1..wi
  BY <1>1, <1>2, <1>3, <1>5
<1>11. QED
  BY <1>8, <1>9, <1>10 DEF x

\* When a sequence is two others, one behind the other.
LEMMA JoinIs ==
  ASSUME NEW S, NEW a \in Seq(S), NEW b \in Seq(S), NEW c \in Seq(S), Len(c) = Len(a) + Len(b),
         \A x \in 1..Len(a) : c[x] = a[x], \A k \in 1..Len(b) : c[Len(a) + k] = b[k]
  PROVE  a \o b = c
<1> DEFINE d == a \o b
           l == Len(a)
           w == Len(b)
<1>1. l \in Nat /\ w \in Nat
  OBVIOUS
<1>2. /\ d \in Seq(S) /\ Len(d) = l + w
      /\ \A i \in 1..(l + w) : d[i] = IF i <= l THEN a[i] ELSE b[i - l]
  BY ConcatProperties
<1> HIDE DEF d
<1>3. \A i \in 1..(l + w) : d[i] = c[i]
  <2> SUFFICES ASSUME NEW i \in 1..(l + w)
               PROVE  d[i] = c[i]
    OBVIOUS
  <2>1. CASE i <= l
    <3>1. i \in 1..l
      BY <1>1, <2>1
    <3>2. QED
      BY <1>2, <2>1, <3>1
  <2>2. CASE ~(i <= l)
    <3>1. i - l \in 1..w /\ l + (i - l) = i
      BY <1>1, <2>2
    <3>2. c[l + (i - l)] = b[i - l]
      BY <3>1
    <3>3. QED
      BY <1>2, <2>2, <3>1, <3>2
  <2>3. QED
    BY <2>1, <2>2
<1> HIDE DEF l, w
<1>4. Len(c) = l + w
  BY DEF l, w
<1>5. d = c
  BY <1>2, <1>3, <1>4, SeqEqual
<1>6. QED
  BY <1>5 DEF d

\* M pieces of w elements each, and what becomes of them in one sequence.
Pieces(S, w, M, seqs) ==
  /\ w \in Nat \ {0} /\ M \in Nat /\ seqs \in [1..M -> Seq(S)]
  /\ \A p \in 1..M : Len(seqs[p]) = w

Flattened(S, w, M, seqs, flat) ==
  /\ flat \in Seq(S) /\ Len(flat) = Whole(w, M)
  /\ \A p \in 1..M, k \in 1..w : flat[Spot(w, p, k)] = seqs[p][k]

\* Flattening pieces of one length.
LEMMA FlattenIs ==
  ASSUME NEW S, NEW w, NEW M, NEW seqs, Pieces(S, w, M, seqs)
  PROVE  Flattened(S, w, M, seqs, FlattenSeq(seqs))
<1>0. w \in Nat \ {0} /\ M \in Nat /\ seqs \in [1..M -> Seq(S)] /\ \A p \in 1..M : Len(seqs[p]) = w
  BY DEF Pieces
<1> USE <1>0
<1> SUFFICES /\ FlattenSeq(seqs) \in Seq(S) /\ Len(FlattenSeq(seqs)) = Whole(w, M)
             /\ \A p \in 1..M, k \in 1..w : FlattenSeq(seqs)[Spot(w, p, k)] = seqs[p][k]
  BY DEF Flattened
<1> DEFINE Unfolded(f) == [i \in 1..M |-> IF i = 1 THEN seqs[i] ELSE f[i - 1] \o seqs[i]]
           flat == [i \in 1..M |-> [x \in 1..Whole(w, i) |-> seqs[Piece(w, x)][Place(w, x)]]]
           flatten == CHOOSE f : f = Unfolded(f)
<1>1. Len(seqs) = M
  OBVIOUS
<1>2. FlattenSeq(seqs) = IF M = 0 THEN seqs ELSE flatten[M]
  <2>1. FlattenSeq(seqs) = IF Len(seqs) = 0 THEN seqs
                           ELSE (CHOOSE f : f = [i \in 1..Len(seqs) |->
                                   IF i = 1 THEN seqs[i] ELSE f[i - 1] \o seqs[i]])[Len(seqs)]
    BY Zenon DEF FlattenSeq
  <2>2. QED
    BY <1>1, <2>1
<1>3. ASSUME NEW i \in 1..M
      PROVE  /\ flat[i] \in Seq(S) /\ Len(flat[i]) = Whole(w, i)
             /\ \A p \in 1..i, k \in 1..w : flat[i][Spot(w, p, k)] = seqs[p][k]
             /\ \A x \in 1..Whole(w, i) : flat[i][x] = seqs[Piece(w, x)][Place(w, x)]
  <2> DEFINE l == Whole(w, i)
             e == [x \in 1..l |-> seqs[Piece(w, x)][Place(w, x)]]
  <2>1. flat[i] = e
    OBVIOUS
  <2> HIDE DEF flat
  <2>2. \A x \in 1..l : seqs[Piece(w, x)][Place(w, x)] \in S
    <3> SUFFICES ASSUME NEW x \in 1..l
                 PROVE  seqs[Piece(w, x)][Place(w, x)] \in S
      OBVIOUS
    <3>1. Piece(w, x) \in 1..i /\ Place(w, x) \in 1..w
      BY PieceIs
    <3>2. Piece(w, x) \in 1..M
      BY <3>1
    <3>3. seqs[Piece(w, x)] \in Seq(S) /\ Len(seqs[Piece(w, x)]) = w
      BY <3>2
    <3>4. QED
      BY <3>1, <3>3
  <2>0. i \in Nat
    OBVIOUS
  <2>3. l \in Nat
    BY <2>0, WholeIs
  <2>4. \A p \in 1..i, k \in 1..w : Spot(w, p, k) \in 1..l /\ Piece(w, Spot(w, p, k)) = p /\ Place(w, Spot(w, p, k)) = k
    BY <2>0, SpotIs
  <2> HIDE DEF l
  <2>5. e \in [1..l -> S]
    BY <2>2
  <2>6. e \in Seq(S) /\ Len(e) = l /\ \A x \in 1..l : e[x] = seqs[Piece(w, x)][Place(w, x)]
    BY <2>3, <2>5
  <2> HIDE DEF e
  <2>7. \A p \in 1..i, k \in 1..w : e[Spot(w, p, k)] = seqs[p][k]
    BY <2>4, <2>6
  <2>8. QED
    BY <2>1, <2>6, <2>7 DEF l
<1>4. flat = Unfolded(flat)
  <2> SUFFICES ASSUME NEW i \in 1..M
               PROVE  flat[i] = IF i = 1 THEN seqs[i] ELSE flat[i - 1] \o seqs[i]
    BY Zenon
  <2>1. seqs[i] \in Seq(S) /\ Len(seqs[i]) = w
    OBVIOUS
  <2>2. /\ flat[i] \in Seq(S) /\ Len(flat[i]) = Whole(w, i)
        /\ \A p \in 1..i, k \in 1..w : flat[i][Spot(w, p, k)] = seqs[p][k]
        /\ \A x \in 1..Whole(w, i) : flat[i][x] = seqs[Piece(w, x)][Place(w, x)]
    BY <1>3
  <2> HIDE DEF flat
  <2> DEFINE h == i - 1
             l == Whole(w, h)
  <2>3. h \in Nat /\ i = h + 1 /\ i \in 1..i
    OBVIOUS
  <2>4. l \in Nat /\ Whole(w, i) = l + w /\ \A k \in Int : Spot(w, i, k) = l + k
    <3>1. l \in Nat /\ Whole(w, h + 1) = l + w /\ \A k \in Int : Spot(w, h + 1, k) = l + k
      <4> HIDE DEF h
      <4>1. QED
        BY <2>3, WholeIs
    <3>2. QED
      BY <2>3, <3>1
  <2>5. \A k \in 1..w : flat[i][l + k] = seqs[i][k]
    <3> SUFFICES ASSUME NEW k \in 1..w
                 PROVE  flat[i][l + k] = seqs[i][k]
      OBVIOUS
    <3>1. flat[i][Spot(w, i, k)] = seqs[i][k]
      BY <2>2, <2>3
    <3>2. k \in Int
      OBVIOUS
    <3>3. Spot(w, i, k) = l + k
      <4> HIDE DEF l, h
      <4>1. QED
        BY <2>4, <3>2
    <3>4. QED
      BY <3>1, <3>3
  <2>6. CASE i = 1
    <3>1. l = 0
      BY <2>6, WholeIs
    <3> HIDE DEF l
    <3>2. \A k \in 1..w : flat[i][k] = seqs[i][k]
      BY <2>5, <3>1
    <3>3. Len(flat[i]) = w
      BY <2>2, <2>4, <3>1
    <3>4. \A k \in 1..Len(flat[i]) : flat[i][k] = seqs[i][k]
      BY <3>2, <3>3
    <3>5. flat[i] = seqs[i]
      <4> DEFINE x == flat[i]
                 y == seqs[i]
      <4>1. x \in Seq(S) /\ y \in Seq(S) /\ Len(x) = Len(y) /\ \A k \in 1..Len(x) : x[k] = y[k]
        BY <2>1, <2>2, <3>3, <3>4
      <4> HIDE DEF x, y
      <4>2. x = y
        BY <4>1, SeqEqual
      <4>3. QED
        BY <4>2 DEF x, y
    <3>6. QED
      BY <2>6, <3>5
  <2>7. CASE i # 1
    <3>1. h \in 1..M
      BY <2>7
    <3>2. flat[h] \in Seq(S) /\ Len(flat[h]) = l /\ \A x \in 1..l : flat[h][x] = seqs[Piece(w, x)][Place(w, x)]
      BY <1>3, <3>1
    <3> HIDE DEF h, l
    <3>3. \A x \in 1..l : x \in 1..Whole(w, i)
      BY <2>4
    <3>4. \A x \in 1..l : flat[i][x] = flat[h][x]
      BY <2>2, <3>2, <3>3
    <3>5. Len(flat[i]) = Len(flat[h]) + Len(seqs[i])
      BY <2>1, <2>2, <2>4, <3>2
    <3>6. (\A x \in 1..Len(flat[h]) : flat[i][x] = flat[h][x]) /\ (\A k \in 1..Len(seqs[i]) : flat[i][Len(flat[h]) + k] = seqs[i][k])
      BY <2>1, <2>5, <3>2, <3>4
    <3>7. flat[h] \o seqs[i] = flat[i]
      BY <2>1, <2>2, <3>2, <3>5, <3>6, JoinIs
    <3>8. QED
      BY <2>7, <3>7 DEF h
  <2>8. QED
    BY <2>6, <2>7
<1> HIDE DEF flat
<1>5. flatten = Unfolded(flatten)
  <2> HIDE DEF Unfolded
  <2>1. QED
    BY <1>4, Zenon
<1> HIDE DEF flatten
<1> DEFINE G == {i \in Nat : i + 1 \in 1..M => flatten[i + 1] = flat[i + 1]}
<1>6. 0 \in G
  BY <1>4, <1>5
<1>7. \A i \in G : i + 1 \in G
  <2> SUFFICES ASSUME NEW i \in G, (i + 1) + 1 \in 1..M
               PROVE  flatten[(i + 1) + 1] = flat[(i + 1) + 1]
    OBVIOUS
  <2> DEFINE j == (i + 1) + 1
  <2>1. i + 1 \in 1..M /\ j - 1 = i + 1 /\ j # 1
    OBVIOUS
  <2>2. flatten[i + 1] = flat[i + 1]
    BY <2>1
  <2>3. /\ flatten[j] = IF j = 1 THEN seqs[j] ELSE flatten[j - 1] \o seqs[j]
        /\ flat[j] = IF j = 1 THEN seqs[j] ELSE flat[j - 1] \o seqs[j]
    BY <1>4, <1>5, Zenon
  <2>4. QED
    BY <2>1, <2>2, <2>3
<1>8. G = Nat
  <2> HIDE DEF G
  <2>1. G \in SUBSET Nat
    BY DEF G
  <2>2. QED
    BY <1>6, <1>7, <2>1, NatInductive
<1>9. CASE M = 0
  <2>1. FlattenSeq(seqs) = seqs
    BY <1>2, <1>9
  <2>2. seqs \in Seq(S) /\ Len(seqs) = 0
    BY <1>9
  <2>3. Whole(w, M) = 0
    BY <1>9, WholeIs
  <2>4. QED
    BY <1>9, <2>1, <2>2, <2>3
<1>10. CASE M # 0
  <2>1. M \in 1..M /\ M - 1 \in Nat /\ (M - 1) + 1 = M
    BY <1>10
  <2>2. M - 1 \in G
    BY <1>8, <2>1
  <2>3. flatten[M] = flat[M]
    BY <2>1, <2>2
  <2>4. FlattenSeq(seqs) = flat[M]
    BY <1>2, <1>10, <2>3
  <2>5. QED
    BY <1>3, <2>1, <2>4
<1>11. QED
  BY <1>9, <1>10

-----------------------------------------------------------------------------
(***************************************************************************)
(* The text of a graph                                                     *)
(***************************************************************************)

\* The first powers of two.
LEMMA SmallPowers == 2^0 = 1 /\ 2^1 = 2 /\ 2^2 = 4 /\ 2^3 = 8 /\ 2^4 = 16 /\ 2^5 = 32
<1>1. 2^(0 + 1) = 2 * 2^0 /\ 2^(1 + 1) = 2 * 2^1 /\ 2^(2 + 1) = 2 * 2^2 /\ 2^(3 + 1) = 2 * 2^3 /\ 2^(4 + 1) = 2 * 2^4
  BY PowerDoubles
<1>2. 0 + 1 = 1 /\ 1 + 1 = 2 /\ 2 + 1 = 3 /\ 3 + 1 = 4 /\ 4 + 1 = 5
  OBVIOUS
<1>3. 2^1 = 2 * 2^0 /\ 2^2 = 2 * 2^1 /\ 2^3 = 2 * 2^2 /\ 2^4 = 2 * 2^3 /\ 2^5 = 2 * 2^4
  BY <1>1, <1>2
<1> DEFINE p0 == 2^0
           p1 == 2^1
           p2 == 2^2
           p3 == 2^3
           p4 == 2^4
           p5 == 2^5
<1>4. p0 = 1 /\ p1 = 2 * p0 /\ p2 = 2 * p1 /\ p3 = 2 * p2 /\ p4 = 2 * p3 /\ p5 = 2 * p4
  BY <1>3, PowerZero
<1> HIDE DEF p0, p1, p2, p3, p4, p5
<1>5. p0 = 1 /\ p1 = 2 /\ p2 = 4 /\ p3 = 8 /\ p4 = 16 /\ p5 = 32
  BY <1>4
<1>6. QED
  BY <1>5 DEF p0, p1, p2, p3, p4, p5

\* The number that the bits at the places of s make, one place more at a time.
Made1(f, s) == IF 1 \in s THEN f[1] ELSE 0
Made2(f, s) == IF 2 \in s THEN 2 * Made1(f, s) + f[2] ELSE Made1(f, s)
Made3(f, s) == IF 3 \in s THEN 2 * Made2(f, s) + f[3] ELSE Made2(f, s)
Made4(f, s) == IF 4 \in s THEN 2 * Made3(f, s) + f[4] ELSE Made3(f, s)
Made5(f, s) == IF 5 \in s THEN 2 * Made4(f, s) + f[5] ELSE Made4(f, s)
Made6(f, s) == IF 6 \in s THEN 2 * Made5(f, s) + f[6] ELSE Made5(f, s)

\* The maximum of a finite set of numbers is in it, and none is above it.
LEMMA MaxIsIn ==
  ASSUME NEW s \in SUBSET Nat, IsFiniteSet(s), s # {}
  PROVE  Max(s) \in s /\ \A x \in s : x <= Max(s)
<1>1. \E d \in s : \A x \in s : d >= x
  <2>1. PICK d \in s : \A x \in s : x <= d
    BY GreatestOf
  <2>2. \A x \in s : d >= x
    BY <2>1
  <2>3. QED
    BY <2>2
<1>2. Max(s) \in s /\ \A x \in s : Max(s) >= x
  BY <1>1, Zenon DEF Max
<1>3. QED
  BY <1>2

\* The sets of places in a group are finite sets of numbers.
LEMMA SixPlaces == IsFiniteSet(1..6) /\ \A s \in SUBSET (1..6) : s \in SUBSET Nat /\ IsFiniteSet(s)
<1>1. 1 \in Int /\ 6 \in Int
  OBVIOUS
<1>2. IsFiniteSet(1..6)
  BY <1>1, FS_Interval
<1>3. \A x \in 1..6 : x \in Nat
  OBVIOUS
<1>4. \A s \in SUBSET (1..6) : IsFiniteSet(s)
  BY <1>2, FS_Subset
<1>5. QED
  BY <1>2, <1>3, <1>4

\* The number of a set of places, from that without the last of them.
LEMMA MadeStep ==
  ASSUME NEW f \in [1..6 -> {0, 1}], NEW s \in SUBSET (1..6), s # {}
  PROVE  Max(s) \in 1..6 /\ Made6(f, s) = 2 * Made6(f, s \ {Max(s)}) + f[Max(s)]
<1>1. s \in SUBSET Nat /\ IsFiniteSet(s)
  BY SixPlaces
<1> DEFINE x == Max(s)
           r == s \ {x}
<1>2. x \in s /\ \A y \in s : y <= x
  BY <1>1, MaxIsIn
<1>3. \A y \in 1..6 : f[y] \in Int
  OBVIOUS
<1> HIDE DEF x
<1>4. x \in 1..6 /\ \A y \in 1..6 : (y \in r <=> y \in s /\ y # x)
  BY <1>2
<1> HIDE DEF r
<1>40. x = 1 \/ x = 2 \/ x = 3 \/ x = 4 \/ x = 5 \/ x = 6
  BY <1>4
<1>5. CASE x = 1
  <2>1. 1 \in s /\ 2 \notin s /\ 3 \notin s /\ 4 \notin s /\ 5 \notin s /\ 6 \notin s
    BY <1>2, <1>5
  <2>2. 1 \notin r /\ 2 \notin r /\ 3 \notin r /\ 4 \notin r /\ 5 \notin r /\ 6 \notin r
    BY <1>4, <1>5, <2>1
  <2>3. Made6(f, s) = f[1] /\ Made6(f, r) = 0
    BY <2>1, <2>2 DEF Made1, Made2, Made3, Made4, Made5, Made6
  <2>4. QED
    BY <1>3, <1>4, <1>5, <2>3 DEF x, r
<1>6. CASE x = 2
  <2>1. 2 \in s /\ 3 \notin s /\ 4 \notin s /\ 5 \notin s /\ 6 \notin s
    BY <1>2, <1>6
  <2>2. (1 \in r <=> 1 \in s) /\ 2 \notin r /\ 3 \notin r /\ 4 \notin r /\ 5 \notin r /\ 6 \notin r
    BY <1>4, <1>6, <2>1
  <2>3. Made6(f, s) = 2 * Made1(f, s) + f[2] /\ Made6(f, r) = Made1(f, r)
    BY <2>1, <2>2 DEF Made2, Made3, Made4, Made5, Made6
  <2>4. Made1(f, r) = Made1(f, s)
    BY <2>2 DEF Made1
  <2>5. QED
    BY <1>4, <1>6, <2>3, <2>4 DEF x, r
<1>7. CASE x = 3
  <2>1. 3 \in s /\ 4 \notin s /\ 5 \notin s /\ 6 \notin s
    BY <1>2, <1>7
  <2>2. (1 \in r <=> 1 \in s) /\ (2 \in r <=> 2 \in s) /\ 3 \notin r /\ 4 \notin r /\ 5 \notin r /\ 6 \notin r
    BY <1>4, <1>7, <2>1
  <2>3. Made6(f, s) = 2 * Made2(f, s) + f[3] /\ Made6(f, r) = Made2(f, r)
    BY <2>1, <2>2 DEF Made3, Made4, Made5, Made6
  <2>4. Made2(f, r) = Made2(f, s)
    BY <2>2 DEF Made1, Made2
  <2>5. QED
    BY <1>4, <1>7, <2>3, <2>4 DEF x, r
<1>8. CASE x = 4
  <2>1. 4 \in s /\ 5 \notin s /\ 6 \notin s
    BY <1>2, <1>8
  <2>2. /\ (1 \in r <=> 1 \in s) /\ (2 \in r <=> 2 \in s) /\ (3 \in r <=> 3 \in s)
        /\ 4 \notin r /\ 5 \notin r /\ 6 \notin r
    BY <1>4, <1>8, <2>1
  <2>3. Made6(f, s) = 2 * Made3(f, s) + f[4] /\ Made6(f, r) = Made3(f, r)
    BY <2>1, <2>2 DEF Made4, Made5, Made6
  <2>4. Made3(f, r) = Made3(f, s)
    BY <2>2 DEF Made1, Made2, Made3
  <2>5. QED
    BY <1>4, <1>8, <2>3, <2>4 DEF x, r
<1>9. CASE x = 5
  <2>1. 5 \in s /\ 6 \notin s
    BY <1>2, <1>9
  <2>2. /\ (1 \in r <=> 1 \in s) /\ (2 \in r <=> 2 \in s) /\ (3 \in r <=> 3 \in s) /\ (4 \in r <=> 4 \in s)
        /\ 5 \notin r /\ 6 \notin r
    BY <1>4, <1>9, <2>1
  <2>3. Made6(f, s) = 2 * Made4(f, s) + f[5] /\ Made6(f, r) = Made4(f, r)
    BY <2>1, <2>2 DEF Made5, Made6
  <2>4. Made4(f, r) = Made4(f, s)
    BY <2>2 DEF Made1, Made2, Made3, Made4
  <2>5. QED
    BY <1>4, <1>9, <2>3, <2>4 DEF x, r
<1>10. CASE x = 6
  <2>1. 6 \in s
    BY <1>2, <1>10
  <2>2. /\ (1 \in r <=> 1 \in s) /\ (2 \in r <=> 2 \in s) /\ (3 \in r <=> 3 \in s) /\ (4 \in r <=> 4 \in s)
        /\ (5 \in r <=> 5 \in s) /\ 6 \notin r
    BY <1>4, <1>10, <2>1
  <2>3. Made6(f, s) = 2 * Made5(f, s) + f[6] /\ Made6(f, r) = Made5(f, r)
    BY <2>1, <2>2 DEF Made6
  <2>4. Made5(f, r) = Made5(f, s)
    BY <2>2 DEF Made1, Made2, Made3, Made4, Made5
  <2>5. QED
    BY <1>4, <1>10, <2>3, <2>4 DEF x, r
<1>11. QED
  BY <1>40, <1>5, <1>6, <1>7, <1>8, <1>9, <1>10

\* The byte of six bits.
LEMMA PackedIs ==
  ASSUME NEW f \in [1..6 -> {0, 1}]
  PROVE  Packed(f) = 32 * f[1] + 16 * f[2] + 8 * f[3] + 4 * f[4] + 2 * f[5] + f[6] + 63
<1> DEFINE S == 1..6
           Unfolded(h) == [s \in SUBSET S |-> IF s = {} THEN 0 ELSE 2 * h[s \ {Max(s)}] + f[Max(s)]]
           made == [s \in SUBSET S |-> Made6(f, s)]
           iter == CHOOSE h : h = Unfolded(h)
<1>1. DOMAIN f = S
  OBVIOUS
<1>2. Packed(f) = iter[S] + 63
  <2>1. Packed(f) = (CHOOSE h : h = [s \in SUBSET (DOMAIN f) |->
                       IF s = {} THEN 0 ELSE 2 * h[s \ {Max(s)}] + f[Max(s)]])[DOMAIN f] + 63
    BY Zenon DEF Packed, FoldLeft, MapThenFoldSet
  <2>2. QED
    BY <1>1, <2>1, Zenon
<1>3. made = Unfolded(made)
  <2> SUFFICES ASSUME NEW s \in SUBSET S
               PROVE  made[s] = IF s = {} THEN 0 ELSE 2 * made[s \ {Max(s)}] + f[Max(s)]
    BY Zenon
  <2>1. CASE s = {}
    <3>1. Made6(f, {}) = 0
      BY DEF Made1, Made2, Made3, Made4, Made5, Made6
    <3>2. QED
      BY <2>1, <3>1
  <2>2. CASE s # {}
    <3>1. Made6(f, s) = 2 * Made6(f, s \ {Max(s)}) + f[Max(s)]
      BY <2>2, MadeStep
    <3>2. s \ {Max(s)} \in SUBSET S
      OBVIOUS
    <3>3. made[s] = Made6(f, s) /\ made[s \ {Max(s)}] = Made6(f, s \ {Max(s)})
      BY <3>2, Zenon
    <3>4. QED
      BY <2>2, <3>1, <3>3, Zenon
  <2>3. QED
    BY <2>1, <2>2
<1> HIDE DEF made
<1>4. iter = Unfolded(iter)
  <2> HIDE DEF Unfolded
  <2>1. QED
    BY <1>3, Zenon
<1> HIDE DEF iter
<1> DEFINE G == {s \in SUBSET S : iter[s] = made[s]}
<1>5. \A s \in SUBSET S : (\A r \in SUBSET s : r # s => r \in G) => s \in G
  <2> SUFFICES ASSUME NEW s \in SUBSET S, \A r \in SUBSET s : r # s => r \in G
               PROVE  iter[s] = made[s]
    OBVIOUS
  <2>1. /\ iter[s] = IF s = {} THEN 0 ELSE 2 * iter[s \ {Max(s)}] + f[Max(s)]
        /\ made[s] = IF s = {} THEN 0 ELSE 2 * made[s \ {Max(s)}] + f[Max(s)]
    BY <1>3, <1>4, Zenon
  <2>2. s # {} => iter[s \ {Max(s)}] = made[s \ {Max(s)}]
    <3>1. s # {} => Max(s) \in s
      <4>1. s \in SUBSET Nat /\ IsFiniteSet(s)
        BY SixPlaces
      <4>2. QED
        BY <4>1, MaxIsIn
    <3>2. s # {} => s \ {Max(s)} \in SUBSET s /\ s \ {Max(s)} # s
      BY <3>1
    <3>3. QED
      BY <3>2
  <2>3. QED
    BY <2>1, <2>2, Zenon
<1>6. G \in SUBSET (SUBSET S) /\ IsFiniteSet(S)
  BY SixPlaces
<1>7. G = SUBSET S
  <2> HIDE DEF G, S
  <2>1. QED
    BY <1>5, <1>6, SubsetInduction
<1>8. iter[S] = Made6(f, S)
  <2>1. S \in G
    BY <1>7
  <2>2. QED
    BY <2>1 DEF made
<1>9. 1 \in S /\ 2 \in S /\ 3 \in S /\ 4 \in S /\ 5 \in S /\ 6 \in S
  OBVIOUS
<1>10. \A y \in S : f[y] \in Int
  OBVIOUS
<1> HIDE DEF S
<1>11. Made6(f, S) = 2 * (2 * (2 * (2 * (2 * f[1] + f[2]) + f[3]) + f[4]) + f[5]) + f[6]
  BY <1>9 DEF Made1, Made2, Made3, Made4, Made5, Made6
<1>12. /\ f[1] \in Int /\ f[2] \in Int /\ f[3] \in Int /\ f[4] \in Int /\ f[5] \in Int /\ f[6] \in Int
  BY <1>9, <1>10
<1>13. QED
  BY <1>2, <1>8, <1>11, <1>12

\* A byte unpacked.
LEMMA UnpackedIs ==
  ASSUME NEW f \in [1..6 -> {0, 1}]
  PROVE  Packed(f) \in 63..126 /\ BitsOf(Packed(f)) = f
<1>1. Packed(f) = 32 * f[1] + 16 * f[2] + 8 * f[3] + 4 * f[4] + 2 * f[5] + f[6] + 63
  BY PackedIs
<1>2. \A k \in 1..6 : f[k] \in {0, 1}
  OBVIOUS
<1> DEFINE a == f[1]
           b == f[2]
           c == f[3]
           d == f[4]
           e == f[5]
           h == f[6]
           byte == Packed(f)
           v == 32 * a + 16 * b + 8 * c + 4 * d + 2 * e + h
<1>3. a \in {0, 1} /\ b \in {0, 1} /\ c \in {0, 1} /\ d \in {0, 1} /\ e \in {0, 1} /\ h \in {0, 1}
  BY <1>2
<1>4. byte = v + 63
  BY <1>1
<1> HIDE DEF a, b, c, d, e, h, byte
<1>5. byte \in 63..126 /\ byte - 63 = v /\ v \in Int
  BY <1>3, <1>4
<1>6. /\ (v \div 32) % 2 = a /\ (v \div 16) % 2 = b /\ (v \div 8) % 2 = c
      /\ (v \div 4) % 2 = d /\ (v \div 2) % 2 = e /\ (v \div 1) % 2 = h
  BY <1>3
<1> DEFINE u == BitsOf(byte)
<1>7. u = [k \in 1..6 |-> (v \div 2^(6 - k)) % 2]
  BY <1>5 DEF BitsOf
<1> HIDE DEF v
<1>8. u[1] = (v \div 2^5) % 2 /\ u[2] = (v \div 2^4) % 2 /\ u[3] = (v \div 2^3) % 2
  <2>1. 6 - 1 = 5 /\ 6 - 2 = 4 /\ 6 - 3 = 3 /\ 1 \in 1..6 /\ 2 \in 1..6 /\ 3 \in 1..6
    OBVIOUS
  <2>2. u[1] = (v \div 2^(6 - 1)) % 2 /\ u[2] = (v \div 2^(6 - 2)) % 2 /\ u[3] = (v \div 2^(6 - 3)) % 2
    BY <1>7, <2>1, Zenon
  <2>3. QED
    BY <2>1, <2>2, Zenon
<1>9. u[4] = (v \div 2^2) % 2 /\ u[5] = (v \div 2^1) % 2 /\ u[6] = (v \div 2^0) % 2
  <2>1. 6 - 4 = 2 /\ 6 - 5 = 1 /\ 6 - 6 = 0 /\ 4 \in 1..6 /\ 5 \in 1..6 /\ 6 \in 1..6
    OBVIOUS
  <2>2. u[4] = (v \div 2^(6 - 4)) % 2 /\ u[5] = (v \div 2^(6 - 5)) % 2 /\ u[6] = (v \div 2^(6 - 6)) % 2
    BY <1>7, <2>1, Zenon
  <2>3. QED
    BY <2>1, <2>2, Zenon
<1>10. u[1] = a /\ u[2] = b /\ u[3] = c /\ u[4] = d /\ u[5] = e /\ u[6] = h
  BY <1>6, <1>8, <1>9, SmallPowers, Zenon
<1>11. \A k \in 1..6 : u[k] = f[k]
  <2>1. \A k \in 1..6 : k = 1 \/ k = 2 \/ k = 3 \/ k = 4 \/ k = 5 \/ k = 6
    OBVIOUS
  <2>2. QED
    BY <1>10, <2>1 DEF a, b, c, d, e, h
<1>12. u = f
  <2>1. DOMAIN u = 1..6 /\ u = [k \in 1..6 |-> u[k]]
    BY <1>7
  <2> HIDE DEF u
  <2>2. QED
    BY <1>11, <2>1
<1>13. QED
  BY <1>5, <1>12 DEF byte

\* The slots of a text: column by column, every slot has a place of its own.
LEMMA ColumnTwice ==
  ASSUME NEW i \in Nat, NEW j \in Nat, j >= 1
  PROVE  2 * ColumnIndex(i, j) = j * (j - 1) + 2 * i /\ ColumnIndex(i, j) \in Nat
<1> DEFINE h == j - 1
           half == (h * (h + 1)) \div 2
           full == h * (h + 1)
<1>1. h \in Nat /\ h + 1 = j
  OBVIOUS
<1>2. 2 * half = full
  <2> HIDE DEF h
  <2>1. QED
    BY <1>1, Halves
<1>3. full \in Nat /\ half \in Int
  <2> HIDE DEF h
  <2>1. QED
    BY <1>1
<1>4. full = j * (j - 1)
  BY <1>1
<1>5. ColumnIndex(i, j) = half + i
  BY <1>1, <1>4 DEF ColumnIndex
<1> HIDE DEF full, half
<1>6. 2 * (half + i) = full + 2 * i /\ half + i \in Nat
  BY <1>2, <1>3
<1>7. QED
  BY <1>4, <1>5, <1>6

\* Columns come one after the other.
LEMMA ColumnsGrow ==
  ASSUME NEW j \in Nat, NEW b \in Nat, j < b
  PROVE  j * (j - 1) + 2 * j <= b * (b - 1)
<1> DEFINE d == b - j - 1
           e == b + j
<1>1. d \in Nat /\ e \in Nat
  OBVIOUS
<1>2. d * e >= 0
  BY <1>1
<1>3. b * (b - 1) - (j * (j - 1) + 2 * j) = d * e
  OBVIOUS
<1>4. d * e \in Int /\ b * (b - 1) \in Int /\ j * (j - 1) \in Int
  BY <1>1
<1> DEFINE bb == b * (b - 1)
           jj == j * (j - 1)
           de == d * e
<1>5. de >= 0 /\ bb - (jj + 2 * j) = de /\ de \in Int /\ bb \in Int /\ jj \in Int
  BY <1>2, <1>3, <1>4
<1> HIDE DEF bb, jj, de
<1>6. jj + 2 * j <= bb
  BY <1>5
<1>7. QED
  BY <1>6 DEF bb, jj

\* Different slots have different places in the text.
LEMMA ColumnsApart ==
  ASSUME NEW m \in Nat, NEW p \in Slots(m), NEW q \in Slots(m),
         ColumnIndex(p[1], p[2]) = ColumnIndex(q[1], q[2])
  PROVE  p = q
<1> DEFINE i == p[1]
           j == p[2]
           a == q[1]
           b == q[2]
           jj == j * (j - 1)
           bb == b * (b - 1)
<1>1. /\ i \in Nat /\ j \in Nat /\ i < j /\ j < m /\ p = <<i, j>>
      /\ a \in Nat /\ b \in Nat /\ a < b /\ b < m /\ q = <<a, b>>
  BY DEF Slots, Vertices
<1> HIDE DEF i, j, a, b
<1>2. 2 * ColumnIndex(i, j) = jj + 2 * i /\ 2 * ColumnIndex(a, b) = bb + 2 * a
  <2>1. j >= 1 /\ b >= 1
    BY <1>1
  <2>2. QED
    BY <1>1, <2>1, ColumnTwice
<1>3. jj + 2 * i = bb + 2 * a
  BY <1>2 DEF i, j, a, b
<1>4. jj \in Int /\ bb \in Int
  BY <1>1
<1>5. (j < b => jj + 2 * j <= bb) /\ (b < j => bb + 2 * b <= jj)
  BY <1>1, ColumnsGrow
<1>6. j = b => jj = bb
  OBVIOUS
<1> HIDE DEF jj, bb
<1>7. j = b
  BY <1>1, <1>3, <1>4, <1>5
<1>8. i = a
  BY <1>1, <1>3, <1>4, <1>6, <1>7
<1>9. QED
  BY <1>1, <1>7, <1>8

\* The place of a slot is within the bits of the text.
LEMMA ColumnInside ==
  ASSUME NEW m \in Nat, NEW p \in Slots(m)
  PROVE  ColumnIndex(p[1], p[2]) \in 0..(TotalBits(m) - 1)
<1> DEFINE i == p[1]
           j == p[2]
           jj == j * (j - 1)
           mm == m * (m - 1)
           x == ColumnIndex(i, j)
<1>1. i \in Nat /\ j \in Nat /\ i < j /\ j < m
  BY DEF Slots, Vertices
<1> HIDE DEF i, j
<1>2. 2 * x = jj + 2 * i /\ x \in Nat
  <2>1. j >= 1
    BY <1>1
  <2>2. QED
    BY <1>1, <2>1, ColumnTwice
<1>3. jj + 2 * j <= mm
  BY <1>1, ColumnsGrow
<1>4. jj \in Int /\ mm \in Int
  BY <1>1
<1>5. TotalBits(m) = mm \div 2
  BY <1>1 DEF TotalBits
<1> HIDE DEF jj, mm, x
<1>6. x \in 0..((mm \div 2) - 1)
  BY <1>1, <1>2, <1>3, <1>4
<1>7. QED
  BY <1>5, <1>6 DEF i, j, x

\* The groups hold all the bits.
LEMMA GroupsAre ==
  ASSUME NEW m \in Nat
  PROVE  /\ TotalBits(m) \in Nat /\ Groups(m) \in Nat /\ TotalBits(m) <= 6 * Groups(m)
         /\ m >= 2 => Groups(m) >= 1
<1> DEFINE mm == m * (m - 1)
           t == TotalBits(m)
<1>1. m >= 2 => mm \in Int /\ mm >= 2
  <2> SUFFICES ASSUME m >= 2
               PROVE  mm \in Int /\ mm >= 2
    OBVIOUS
  <2>1. mm = 2 + (m - 2) * (m + 1)
    OBVIOUS
  <2>2. m - 2 >= 0 /\ m + 1 >= 0
    OBVIOUS
  <2>3. (m - 2) * (m + 1) >= 0
    BY <2>2
  <2>4. QED
    BY <2>1, <2>3
<1>2. t = IF m < 2 THEN 0 ELSE mm \div 2
  BY DEF TotalBits
<1> HIDE DEF mm, t
<1>3. t \in Nat /\ (m >= 2 => t >= 1)
  BY <1>1, <1>2
<1>4. Groups(m) = (t + 5) \div 6
  BY DEF Groups, t
<1>5. QED
  BY <1>3, <1>4 DEF t

\* The bits of a text, in groups of six.
Group(g, p) == [k \in 1..6 |-> TextBits(g)[6 * (p - 1) + k - 1]]

\* The bit at a slot's place is set just when the slot is an edge.
LEMMA TextBitsAre ==
  ASSUME NEW m \in Nat, NEW g, g.n = m
  PROVE  /\ \A p \in 1..Groups(m) : Group(g, p) \in [1..6 -> {0, 1}]
         /\ \A q \in Slots(m) : TextBits(g)[ColumnIndex(q[1], q[2])] = 1 <=> Edge(g, q[1], q[2])
<1> DEFINE set == {ColumnIndex(p[1], p[2]) : p \in {q \in Slots(m) : Edge(g, q[1], q[2])}}
           l == Groups(m)
           bits == TextBits(g)
<1>1. bits = [x \in 0..(6 * l - 1) |-> IF x \in set THEN 1 ELSE 0]
  BY DEF TextBits
<1>2. l \in Nat /\ TotalBits(m) \in Nat /\ TotalBits(m) <= 6 * l
  BY GroupsAre
<1> HIDE DEF bits, l
<1>3. \A x \in 0..(6 * l - 1) : bits[x] \in {0, 1} /\ (bits[x] = 1 <=> x \in set)
  BY <1>1
<1>4. ASSUME NEW p \in 1..l
      PROVE  Group(g, p) \in [1..6 -> {0, 1}]
  <2>1. \A k \in 1..6 : 6 * (p - 1) + k - 1 \in 0..(6 * l - 1)
    BY <1>2
  <2>2. \A k \in 1..6 : bits[6 * (p - 1) + k - 1] \in {0, 1}
    BY <1>3, <2>1
  <2>3. QED
    BY <2>2 DEF Group, bits
<1>5. ASSUME NEW q \in Slots(m)
      PROVE  bits[ColumnIndex(q[1], q[2])] = 1 <=> Edge(g, q[1], q[2])
  <2> DEFINE x == ColumnIndex(q[1], q[2])
  <2>1. x \in 0..(TotalBits(m) - 1)
    BY ColumnInside
  <2>2. x \in set <=> Edge(g, q[1], q[2])
    <3>1. \A p \in Slots(m) : ColumnIndex(p[1], p[2]) = x => p = q
      BY ColumnsApart
    <3>2. QED
      BY <3>1
  <2> HIDE DEF x, set
  <2>3. x \in 0..(6 * l - 1)
    BY <1>2, <2>1
  <2>4. QED
    BY <1>3, <2>2, <2>3 DEF x
<1>6. QED
  BY <1>4, <1>5 DEF bits, l

\* The text of a graph: a byte for the size and one for each group.
LEMMA EncodeIs ==
  ASSUME NEW m \in Nat, m <= MaxText, NEW g, g.n = m, NEW text, text = Encode(g)
  PROVE  /\ text \in Seq(63..126) /\ Len(text) = Groups(m) + 1 /\ text[1] = m + 63
         /\ \A p \in 1..Groups(m) : text[p + 1] = Packed(Group(g, p))
<1> DEFINE l == Groups(m)
           rest == [p \in 1..l |-> Packed(Group(g, p))]
<1>1. text = <<m + 63>> \o rest
  BY Zenon DEF Encode, Group
<1>2. l \in Nat /\ m + 63 \in 63..126
  BY GroupsAre DEF MaxText
<1> HIDE DEF l
<1>3. \A p \in 1..l : Packed(Group(g, p)) \in 63..126
  BY TextBitsAre, UnpackedIs DEF l
<1>4. rest \in [1..l -> 63..126]
  BY <1>3
<1>5. rest \in Seq(63..126) /\ Len(rest) = l /\ \A p \in 1..l : rest[p] = Packed(Group(g, p))
  BY <1>2, <1>4
<1> HIDE DEF rest
<1> DEFINE first == <<m + 63>>
<1>6. first \in Seq(63..126) /\ Len(first) = 1 /\ first[1] = m + 63
  BY <1>2
<1> HIDE DEF first
<1>7. /\ text \in Seq(63..126) /\ Len(text) = 1 + l
      /\ \A i \in 1..(1 + l) : text[i] = IF i <= 1 THEN first[i] ELSE rest[i - 1]
  <2>1. text = first \o rest
    BY <1>1 DEF first
  <2>2. \A s, t \in Seq(63..126) :
           /\ s \o t \in Seq(63..126) /\ Len(s \o t) = Len(s) + Len(t)
           /\ \A i \in 1..(Len(s) + Len(t)) :
                 (s \o t)[i] = IF i <= Len(s) THEN s[i] ELSE t[i - Len(s)]
    BY ConcatProperties
  <2>3. /\ first \o rest \in Seq(63..126) /\ Len(first \o rest) = 1 + l
        /\ \A i \in 1..(1 + l) :
              (first \o rest)[i] = IF i <= 1 THEN first[i] ELSE rest[i - 1]
    <3>1. /\ first \o rest \in Seq(63..126) /\ Len(first \o rest) = Len(first) + Len(rest)
          /\ \A i \in 1..(Len(first) + Len(rest)) :
                (first \o rest)[i] = IF i <= Len(first) THEN first[i] ELSE rest[i - Len(first)]
      BY <1>5, <1>6, <2>2, Zenon
    <3>2. Len(first) = 1 /\ Len(rest) = l
      BY <1>5, <1>6
    <3>3. QED
      BY <3>1, <3>2, Zenon
  <2>4. QED
    BY <2>1, <2>3
<1>8. text[1] = m + 63
  BY <1>2, <1>6, <1>7
<1>9. \A p \in 1..l : text[p + 1] = rest[p]
  BY <1>2, <1>7
<1>10. QED
  BY <1>2, <1>5, <1>7, <1>8, <1>9 DEF l

\* What the decoder makes of the bytes behind the first.
Unpacked(rest) == FlattenSeq([p \in DOMAIN rest |-> BitsOf(rest[p])])

\* An error is no graph.
LEMMA FailureIs ==
  /\ \A why : IsFailed(Failed(why))
  /\ \A m, bits : ~IsFailed([n |-> m, bits |-> bits])
BY DEF IsFailed, Failed

\* A text of the right length is taken apart into the bits of its slots.
LEMMA DecodeTakes ==
  ASSUME NEW text \in Seq(Nat), text # <<>>, Range(text) \subseteq 63..126,
         NEW m \in Nat, m <= MaxText, text[1] = m + 63, Len(text) = Groups(m) + 1
  PROVE  Decode(text) =
           Packing(m, {q \in Slots(m) : Unpacked(Tail(text))[ColumnIndex(q[1], q[2]) + 1] = 1})
<1> DEFINE rest == Tail(text)
           bits == Unpacked(rest)
           good == GraphWith(m, LAMBDA i, j : bits[ColumnIndex(i, j) + 1] = 1)
           size == text[1] - 63
<1>1. size = m /\ Groups(m) \in Nat
  BY GroupsAre
<1>2. Len(rest) = Groups(m)
  BY <1>1, HeadTailProperties
<1>3. good = Packing(m, {q \in Slots(m) : bits[ColumnIndex(q[1], q[2]) + 1] = 1})
  BY DEF GraphWith, Packing
<1> DEFINE outcome == CASE size > MaxText -> Failed("too large")
                       [] size <= MaxText /\ Len(rest) < Groups(size) -> Failed("too short")
                       [] size <= MaxText /\ Len(rest) > Groups(size) -> Failed("extra bytes")
                       [] OTHER -> GraphWith(size, LAMBDA i, j : bits[ColumnIndex(i, j) + 1] = 1)
<1>4. Decode(text) = CASE text = <<>> -> Failed("empty")
                       [] text # <<>> /\ ~(Range(text) \subseteq 63..126) -> Failed("invalid char")
                       [] OTHER -> outcome
  BY Zenon DEF Decode, Unpacked
<1> HIDE DEF outcome
<1>5. Decode(text) = outcome
  BY <1>4
<1> HIDE DEF rest, bits
<1>6. outcome = good
  <2> HIDE DEF size
  <2>1. ~(m > MaxText) /\ ~(Len(rest) < Groups(m)) /\ ~(Len(rest) > Groups(m))
    BY <1>1, <1>2 DEF MaxText
  <2>2. QED
    BY <1>1, <2>1 DEF outcome
<1>7. QED
  BY <1>3, <1>5, <1>6 DEF bits, rest

\* A text with a byte that is no character of it, or of another length than its
\* first byte asks for, is refused.
LEMMA DecodeRefuses ==
  ASSUME NEW text \in Seq(Nat), text # <<>>,
         \/ ~(Range(text) \subseteq 63..126)
         \/ \E m \in Nat : m <= MaxText /\ text[1] = m + 63 /\ Len(text) # Groups(m) + 1
  PROVE  IsFailed(Decode(text))
<1> DEFINE rest == Tail(text)
           bits == Unpacked(rest)
           size == text[1] - 63
           outcome == CASE size > MaxText -> Failed("too large")
                       [] size <= MaxText /\ Len(rest) < Groups(size) -> Failed("too short")
                       [] size <= MaxText /\ Len(rest) > Groups(size) -> Failed("extra bytes")
                       [] OTHER -> GraphWith(size, LAMBDA i, j : bits[ColumnIndex(i, j) + 1] = 1)
<1>1. Decode(text) = CASE text = <<>> -> Failed("empty")
                       [] text # <<>> /\ ~(Range(text) \subseteq 63..126) -> Failed("invalid char")
                       [] OTHER -> outcome
  BY Zenon DEF Decode, Unpacked
<1>2. CASE ~(Range(text) \subseteq 63..126)
  <2> HIDE DEF outcome
  <2>1. Decode(text) = Failed("invalid char")
    BY <1>1, <1>2
  <2>2. QED
    BY <2>1, FailureIs
<1>3. CASE Range(text) \subseteq 63..126
  <2>1. PICK m \in Nat : m <= MaxText /\ text[1] = m + 63 /\ Len(text) # Groups(m) + 1
    BY <1>3
  <2>2. Decode(text) = outcome
    <3> HIDE DEF outcome
    <3>1. QED
      BY <1>1, <1>3
  <2>3. size = m /\ Groups(m) \in Nat /\ m <= MaxText
    BY <2>1, GroupsAre
  <2>4. Len(rest) \in Nat /\ Len(rest) # Groups(m)
    <3>1. Len(rest) = Len(text) - 1
      BY HeadTailProperties
    <3>2. Len(text) \in Nat /\ Len(text) # 0
      OBVIOUS
    <3> HIDE DEF rest
    <3>3. QED
      BY <2>1, <2>3, <3>1, <3>2
  <2> HIDE DEF rest, bits, size, outcome
  <2>5. outcome = Failed("too short") \/ outcome = Failed("extra bytes")
    <3>1. ~(m > MaxText)
      BY <2>3 DEF MaxText
    <3>2. CASE Len(rest) < Groups(m)
      <4>1. ~(Len(rest) > Groups(m))
        BY <2>3, <2>4, <3>2
      <4>2. outcome = Failed("too short")
        BY <2>3, <3>1, <3>2, <4>1 DEF outcome
      <4>3. QED
        BY <4>2
    <3>3. CASE Len(rest) > Groups(m)
      <4>1. ~(Len(rest) < Groups(m))
        BY <2>3, <2>4, <3>3
      <4>2. outcome = Failed("extra bytes")
        BY <2>3, <3>1, <3>3, <4>1 DEF outcome
      <4>3. QED
        BY <4>2
    <3>4. \A x, y \in Nat : x # y => x < y \/ x > y
      OBVIOUS
    <3>5. Len(rest) < Groups(m) \/ Len(rest) > Groups(m)
      BY <2>3, <2>4, <3>4
    <3>6. QED
      BY <3>2, <3>3, <3>5, Zenon
  <2>6. QED
    BY <2>2, <2>5, FailureIs
<1>4. QED
  BY <1>2, <1>3

\* The text of a graph decodes to the graph.
LEMMA DecodeEncodes ==
  ASSUME NEW m \in Nat, m <= MaxText, NEW g, g.n = m, Proper(g)
  PROVE  Decode(Encode(g)) = g
<1> DEFINE text == Encode(g)
           rest == Tail(text)
           l == Groups(m)
           bits == Unpacked(rest)
           pieces == [p \in DOMAIN rest |-> BitsOf(rest[p])]
           groups == [p \in 1..l |-> Group(g, p)]
<1>1. /\ text \in Seq(63..126) /\ Len(text) = l + 1 /\ text[1] = m + 63
      /\ \A p \in 1..l : text[p + 1] = Packed(Group(g, p))
  BY EncodeIs
<1> HIDE DEF text
<1>2. l \in Nat /\ TotalBits(m) \in Nat /\ TotalBits(m) <= 6 * l
  BY GroupsAre
<1> HIDE DEF l
<1>3. text \in Seq(Nat) /\ text # <<>> /\ Range(text) \subseteq 63..126
  <2>1. 63..126 \subseteq Nat
    OBVIOUS
  <2>2. text \in Seq(Nat)
    BY <1>1, <2>1, SeqMonotonic
  <2>3. \A i \in 1..Len(text) : text[i] \in 63..126
    BY <1>1, ElementOfSeq
  <2>4. DOMAIN text = 1..Len(text)
    BY <1>1
  <2>5. Len(text) # 0
    BY <1>1, <1>2
  <2>6. text # <<>>
    BY <2>5
  <2>7. QED
    BY <2>2, <2>3, <2>4, <2>6 DEF Range
<1>4. Decode(text) = Packing(m, {q \in Slots(m) : bits[ColumnIndex(q[1], q[2]) + 1] = 1})
  BY <1>1, <1>3, DecodeTakes DEF l
<1>5. rest \in Seq(Nat) /\ Len(rest) = l /\ \A p \in 1..l : rest[p] = Packed(Group(g, p))
  <2>1. /\ rest \in Seq(Nat) /\ Len(rest) = Len(text) - 1
        /\ \A p \in 1..Len(rest) : rest[p] = text[p + 1]
    BY <1>3, HeadTailProperties
  <2> HIDE DEF rest
  <2>2. Len(rest) = l
    BY <1>1, <1>2, <2>1
  <2>3. QED
    BY <1>1, <2>1, <2>2
<1> HIDE DEF rest
<1>6. \A p \in 1..l : Group(g, p) \in [1..6 -> {0, 1}]
  BY TextBitsAre DEF l
<1>7. pieces = groups
  <2>1. DOMAIN rest = 1..l
    BY <1>5
  <2>2. \A p \in 1..l : BitsOf(rest[p]) = Group(g, p)
    BY <1>5, <1>6, UnpackedIs
  <2>3. QED
    BY <2>1, <2>2
<1>8. groups \in [1..l -> Seq({0, 1})] /\ \A p \in 1..l : Len(groups[p]) = 6
  <2>1. ASSUME NEW T, NEW f \in [1..6 -> T]
        PROVE  f \in Seq(T) /\ Len(f) = 6
    <3>1. \A k \in Nat : \A h \in [1..k -> T] : h \in Seq(T) /\ Len(h) = k
      OBVIOUS
    <3>2. QED
      BY <3>1, 6 \in Nat, Zenon
  <2>2. QED
    BY <1>6, <2>1
<1>9. \A p \in 1..l : groups[p] = Group(g, p)
  OBVIOUS
<1>10. bits = FlattenSeq(groups)
  BY <1>7 DEF Unpacked
<1> HIDE DEF groups, bits
<1>11. \A p \in 1..l, k \in 1..6 : bits[Spot(6, p, k)] = Group(g, p)[k]
  <2>1. 6 \in Nat \ {0}
    OBVIOUS
  <2>2. \A p \in 1..l, k \in 1..6 : FlattenSeq(groups)[Spot(6, p, k)] = groups[p][k]
    <3> DEFINE w == 6
               T == {0, 1}
    <3>1. w \in Nat \ {0} /\ l \in Nat /\ groups \in [1..l -> Seq(T)] /\ \A p \in 1..l : Len(groups[p]) = w
      BY <1>2, <1>8, <2>1
    <3> HIDE DEF w, T
    <3>2. Flattened(T, w, l, groups, FlattenSeq(groups))
      BY <3>1, FlattenIs DEF Pieces
    <3>3. \A p \in 1..l, k \in 1..w : FlattenSeq(groups)[Spot(w, p, k)] = groups[p][k]
      BY <3>2, Zenon DEF Flattened
    <3>4. QED
      BY <3>3 DEF w
  <2>3. QED
    BY <1>9, <1>10, <2>2
<1>12. ASSUME NEW x \in 1..(6 * l)
       PROVE  bits[x] = TextBits(g)[x - 1]
  <2> DEFINE p == ((x - 1) \div 6) + 1
             k == x - 6 * (p - 1)
  <2>1. p \in 1..l /\ k \in 1..6 /\ x = 6 * (p - 1) + k
    BY <1>2
  <2> HIDE DEF p, k
  <2>2. Spot(6, p, k) = x
    BY <2>1 DEF Spot
  <2>3. bits[x] = Group(g, p)[k]
    BY <1>11, <2>1, <2>2
  <2>4. Group(g, p)[k] = TextBits(g)[6 * (p - 1) + k - 1]
    BY <2>1 DEF Group
  <2>5. 6 * (p - 1) + k - 1 = x - 1
    BY <2>1
  <2>6. QED
    BY <2>3, <2>4, <2>5
<1>13. \A q \in Slots(m) : bits[ColumnIndex(q[1], q[2]) + 1] = 1 <=> Edge(g, q[1], q[2])
  <2> SUFFICES ASSUME NEW q \in Slots(m)
               PROVE  bits[ColumnIndex(q[1], q[2]) + 1] = 1 <=> Edge(g, q[1], q[2])
    OBVIOUS
  <2> DEFINE x == ColumnIndex(q[1], q[2])
  <2>1. x \in 0..(TotalBits(m) - 1)
    BY ColumnInside
  <2>2. TextBits(g)[x] = 1 <=> Edge(g, q[1], q[2])
    BY TextBitsAre
  <2> HIDE DEF x
  <2>3. x + 1 \in 1..(6 * l) /\ (x + 1) - 1 = x
    BY <1>2, <2>1
  <2>4. bits[x + 1] = TextBits(g)[(x + 1) - 1]
    BY <1>12, <2>3
  <2>5. QED
    BY <2>2, <2>3, <2>4 DEF x
<1>14. {q \in Slots(m) : bits[ColumnIndex(q[1], q[2]) + 1] = 1} = {q \in Slots(m) : Edge(g, q[1], q[2])}
  BY <1>13
<1>15. Decode(text) = g
  BY <1>4, <1>14 DEF Proper
<1>16. QED
  BY <1>15 DEF text

\* The text of a graph decodes to the graph; without its last byte, with one byte
\* more, or with a byte that is no character of it, it is refused.
THEOREM TextForAll ==
  ASSUME NEW m \in Nat, m <= MaxText, NEW E \in SUBSET Slots(m), NEW g, g = Packing(m, E)
  PROVE  /\ Decode(Encode(g)) = g
         /\ IsFailed(Decode(Front(Encode(g)))) /\ IsFailed(Decode(Append(Encode(g), 63)))
         /\ \A i \in DOMAIN Encode(g) : IsFailed(Decode([Encode(g) EXCEPT ![i] = 62]))
<1> DEFINE text == Encode(g)
           l == Groups(m)
<1>1. Proper(g) /\ g.n = m
  BY PackedProper
<1>2. text \in Seq(63..126) /\ Len(text) = l + 1 /\ text[1] = m + 63
  BY <1>1, EncodeIs
<1>3. Decode(text) = g
  BY <1>1, DecodeEncodes
<1>4. l \in Nat
  BY GroupsAre
<1> HIDE DEF text
<1>5. text \in Seq(Nat) /\ Len(text) \in Nat /\ DOMAIN text = 1..Len(text)
  <2>1. 63..126 \subseteq Nat
    OBVIOUS
  <2>2. text \in Seq(Nat)
    BY <1>2, <2>1, SeqMonotonic
  <2>3. QED
    BY <2>2, LenProperties
<1>6. IsFailed(Decode(Front(text)))
  <2> DEFINE cut == Front(text)
  <2>1. cut = SubSeq(text, 1, Len(text) - 1)
    BY DEF Front
  <2>2. Len(text) - 1 = l
    BY <1>2, <1>4
  <2> HIDE DEF l
  <2>3. cut \in Seq(Nat) /\ Len(cut) = l /\ \A i \in 1..l : cut[i] = text[i]
    <3>1. cut = SubSeq(text, 1, l)
      BY <2>1, <2>2
    <3>2. \A i \in 1..l : text[i] \in Nat
      BY <1>2, <1>4, <1>5
    <3> HIDE DEF cut
    <3>3. SubSeq(text, 1, l) \in Seq(Nat) /\ Len(SubSeq(text, 1, l)) = l
          /\ \A i \in 1..l : SubSeq(text, 1, l)[i] = text[i]
      BY <1>2, <1>4, <1>5
    <3>4. QED
      BY <3>1, <3>3
  <2> HIDE DEF cut
  <2>4. CASE l = 0
    <3>1. cut = <<>>
      BY <2>3, <2>4
    <3>2. Decode(<<>>) = Failed("empty")
      BY DEF Decode
    <3>3. QED
      BY <3>1, <3>2, FailureIs DEF cut
  <2>5. CASE l # 0
    <3>1. cut # <<>> /\ cut[1] = m + 63 /\ Len(cut) # l + 1
      BY <1>2, <1>4, <2>3, <2>5
    <3>2. QED
      BY <2>3, <3>1, DecodeRefuses DEF cut, l
  <2>6. QED
    BY <2>4, <2>5
<1>7. IsFailed(Decode(Append(text, 63)))
  <2> DEFINE more == Append(text, 63)
  <2> HIDE DEF l
  <2>1. more \in Seq(Nat) /\ Len(more) = (l + 1) + 1 /\ more[1] = text[1]
    BY <1>2, <1>4, <1>5
  <2> HIDE DEF more
  <2>2. more # <<>> /\ Len(more) # l + 1
    BY <1>4, <2>1
  <2>3. QED
    BY <1>2, <2>1, <2>2, DecodeRefuses DEF more, l
<1>8. ASSUME NEW i \in DOMAIN text
      PROVE  IsFailed(Decode([text EXCEPT ![i] = 62]))
  <2> DEFINE bad == [text EXCEPT ![i] = 62]
  <2>1. i \in 1..Len(text)
    BY <1>5
  <2>2. bad \in Seq(Nat) /\ Len(bad) = Len(text) /\ bad[i] = 62
    BY <1>5, <2>1, ExceptSeq
  <2> HIDE DEF bad
  <2>3. DOMAIN bad = 1..Len(bad)
    BY <2>2
  <2>4. 62 \in Range(bad)
    BY <2>1, <2>2, <2>3 DEF Range
  <2>5. ~(Range(bad) \subseteq 63..126)
    BY <2>4
  <2>6. bad # <<>>
    BY <2>1, <2>2
  <2>7. QED
    BY <2>2, <2>5, <2>6, DecodeRefuses DEF bad
<1>9. QED
  BY <1>3, <1>6, <1>7, <1>8 DEF text

\* The content identifier of the canonical form names a graph up to its labelling:
\* two graphs have one CID just when one is the other with its vertices permuted
\* (canonical_form and compute_cid; the hash is taken to be injective).
THEOREM CidNamesGraphs ==
  ASSUME NEW m \in Nat, m <= MaxText, NEW E \in SUBSET Slots(m), NEW g, g = Packing(m, E),
         NEW F \in SUBSET Slots(m), NEW h, h = Packing(m, F)
  PROVE  CanonicalCid(g) = CanonicalCid(h) <=> \E perm \in Labellings(m) : h = PermuteVertices(g, perm)
<1>1. Proper(g) /\ g.n = m /\ Proper(h) /\ h.n = m
  BY PackedProper
<1>2. ASSUME NEW perm \in Labellings(m), h = PermuteVertices(g, perm)
      PROVE  CanonicalCid(g) = CanonicalCid(h)
  <2>1. CanonicalForm(h) = CanonicalForm(g)
    BY <1>2, CanonicalForAll
  <2>2. QED
    BY <2>1 DEF CanonicalCid
<1>3. ASSUME CanonicalCid(g) = CanonicalCid(h)
      PROVE  \E perm \in Labellings(m) : h = PermuteVertices(g, perm)
  <2> DEFINE a == Nauty(g).lab
             b == Nauty(h).lab
             cg == Relabelled(g, a)
             ch == Relabelled(h, b)
  <2>1. a \in Labellings(m) /\ b \in Labellings(m)
    BY <1>1, NautyIs
  <2>2. CanonicalForm(g).graph = cg /\ CanonicalForm(h).graph = ch
    BY <1>1, CanonicalIs
  <2> HIDE DEF a, b
  <2>3. Proper(cg) /\ Proper(ch) /\ cg.n = m /\ ch.n = m
    BY <1>1, <2>1, RelabelledIs, RelabelledProper
  <2>4. Encode(cg) = Encode(ch)
    BY <1>3, <2>2 DEF CanonicalCid, ComputeCid
  <2>5. Relabelled(ch, Inverted(b)) = h
    BY <1>1, <2>1, RelabelledBack
  <2> HIDE DEF cg, ch
  <2>6. cg = ch
    BY <2>3, <2>4, DecodeEncodes
  <2> DEFINE c == Inverted(b)
             lab == After2(a, c)
             perm == Inverted(lab)
  <2>7. c \in Labellings(m)
    BY <2>1, InvertedBack
  <2>8. lab \in Labellings(m) /\ Relabelled(Relabelled(g, a), c) = Relabelled(g, lab)
    BY <1>1, <2>1, <2>7, ComposedIs, RelabelledTwice
  <2>9. h = Relabelled(g, lab)
    BY <2>5, <2>6, <2>8 DEF cg
  <2> HIDE DEF lab
  <2>10. perm \in Labellings(m) /\ \A v \in Vertices(m) : perm[lab[v]] = v /\ lab[perm[v]] = v
    BY <2>8, InvertedBack
  <2> HIDE DEF perm
  <2>11. PermuteVertices(g, perm) = Relabelled(g, lab)
    BY <1>1, <2>8, <2>10, PermutedIs
  <2>12. QED
    BY <2>9, <2>10, <2>11
<1>4. QED
  BY <1>2, <1>3

\* The walk's graphs survive their transport.
LEMMA WalkIsFaithful == WalkInv => TextFaithful
<1> SUFFICES ASSUME WalkInv
             PROVE  TextFaithful
  OBVIOUS
<1> DEFINE json == ToJson(graph)
           text == json.graph6
<1>1. n \in Nat /\ n <= MaxText /\ graph.n = n /\ \E E \in SUBSET Slots(n) : graph = Packing(n, E)
  BY WalkGraph
<1>2. json = [n |-> n, graph6 |-> Encode(graph)] /\ text = Encode(graph)
  BY <1>1 DEF ToJson
<1>3. /\ Decode(text) = graph
      /\ IsFailed(Decode(Front(text))) /\ IsFailed(Decode(Append(text, 63)))
      /\ \A i \in DOMAIN text : IsFailed(Decode([text EXCEPT ![i] = 62]))
  BY <1>1, <1>2, TextForAll
<1>4. ~IsFailed(graph)
  <2>1. PICK bits : graph = [n |-> n, bits |-> bits]
    BY DEF graph, GraphWith
  <2>2. QED
    BY <2>1, FailureIs
<1>5. FromJson(json) = graph
  <2>1. json.n = n /\ graph.n = n /\ Decode(json.graph6) = graph
    BY <1>1, <1>2, <1>3
  <2> HIDE DEF json
  <2>2. QED
    BY <2>1 DEF FromJson
<1>6. ASSUME NEW m \in Sizes \ {n}
      PROVE  IsFailed(FromJson([json EXCEPT !.n = m]))
  <2> DEFINE other == [json EXCEPT !.n = m]
  <2>1. other.n = m /\ other.graph6 = text
    BY <1>2
  <2> HIDE DEF other
  <2>2. FromJson(other) = Failed("too short")
    BY <1>1, <1>3, <1>4, <2>1 DEF FromJson
  <2>3. QED
    BY <2>2, FailureIs DEF other
<1>7. QED
  BY <1>3, <1>5, <1>6, Zenon DEF TextFaithful

-----------------------------------------------------------------------------
(***************************************************************************)
(* The order of scores is the order of their bytes                         *)
(***************************************************************************)

\* a and b agree in their first z elements, and go on with c and d.
Behind(a, b, c, d, z) ==
  /\ a \in Seq(Int) /\ b \in Seq(Int) /\ c \in Seq(Int) /\ d \in Seq(Int) /\ z \in Nat
  /\ Len(c) = Len(d) /\ Len(a) = z + Len(c) /\ Len(b) = z + Len(d)
  /\ \A j \in 1..z : a[j] = b[j]
  /\ \A j \in 1..Len(c) : a[z + j] = c[j] /\ b[z + j] = d[j]

\* Sequences that agree up to a place are ordered as what is behind it.
LEMMA LexBehind ==
  ASSUME NEW a, NEW b, NEW c, NEW d, NEW z, Behind(a, b, c, d, z)
  PROVE  (LexLess(a, b) <=> LexLess(c, d)) /\ (a = b <=> c = d)
<1>0. /\ a \in Seq(Int) /\ b \in Seq(Int) /\ c \in Seq(Int) /\ d \in Seq(Int) /\ z \in Nat
      /\ Len(c) = Len(d) /\ Len(a) = z + Len(c) /\ Len(b) = z + Len(d)
      /\ \A j \in 1..z : a[j] = b[j]
      /\ \A j \in 1..Len(c) : a[z + j] = c[j] /\ b[z + j] = d[j]
  BY DEF Behind
<1>30. \A q \in Nat, e \in Nat : \A j \in 1..(q + e) : j > q => j - q \in 1..e /\ q + (j - q) = j
  OBVIOUS
<1> USE <1>0
<1> DEFINE l == Len(c)
<1>1. l \in Nat /\ Len(d) = l /\ Len(a) = z + l /\ Len(b) = z + l
  BY LenProperties
<1>2. \A i \in 1..(z + l) : i > z => i - z \in 1..l /\ a[i] = c[i - z] /\ b[i] = d[i - z]
  <2> SUFFICES ASSUME NEW i \in 1..(z + l), i > z
               PROVE  i - z \in 1..l /\ a[i] = c[i - z] /\ b[i] = d[i - z]
    OBVIOUS
  <2>1. i - z \in 1..l /\ z + (i - z) = i
    <3> HIDE DEF l
    <3>1. l \in Nat /\ z \in Nat /\ i \in 1..(z + l) /\ i > z
      BY <1>1
    <3>2. QED
      BY <1>30, <3>1
  <2>2. a[z + (i - z)] = c[i - z] /\ b[z + (i - z)] = d[i - z]
    BY <2>1
  <2>3. QED
    BY <2>1, <2>2
<1>3. (\A i \in 1..(z + l) : a[i] \in Int /\ b[i] \in Int) /\ (\A i \in 1..l : c[i] \in Int /\ d[i] \in Int)
  BY <1>1, ElementOfSeq
<1>4. LexLess(a, b) <=> \E i \in 1..(z + l) : a[i] < b[i] /\ \A j \in 1..(i - 1) : a[j] = b[j]
  BY <1>1, LexAtFirst
<1>5. LexLess(c, d) <=> \E i \in 1..l : c[i] < d[i] /\ \A j \in 1..(i - 1) : c[j] = d[j]
  BY <1>1, LexAtFirst
<1>50. \A j \in 1..l : z + j \in 1..(z + l) /\ a[z + j] = c[j] /\ b[z + j] = d[j]
  BY <1>1
<1> HIDE DEF l
<1>6. ASSUME NEW i \in 1..(z + l), a[i] < b[i], \A j \in 1..(i - 1) : a[j] = b[j]
      PROVE  LexLess(c, d)
  <2>1. i > z
    <3> SUFFICES ASSUME ~(i > z)
                 PROVE  FALSE
      OBVIOUS
    <3>1. i \in 1..z
      OBVIOUS
    <3>2. a[i] = b[i]
      BY <3>1
    <3>3. a[i] \in Int
      BY <1>3
    <3>4. QED
      BY <1>6, <3>2, <3>3
  <2>2. i - z \in 1..l /\ c[i - z] < d[i - z]
    BY <1>2, <1>6, <2>1
  <2>3. \A j \in 1..((i - z) - 1) : c[j] = d[j]
    <3> SUFFICES ASSUME NEW j \in 1..((i - z) - 1)
                 PROVE  c[j] = d[j]
      OBVIOUS
    <3>1. j \in 1..l /\ z + j \in 1..(i - 1)
      BY <2>2, <1>1
    <3>2. a[z + j] = b[z + j]
      BY <1>6, <3>1
    <3>3. QED
      BY <1>50, <3>1, <3>2
  <2>4. QED
    BY <1>5, <2>2, <2>3
<1>7. ASSUME NEW i \in 1..l, c[i] < d[i], \A j \in 1..(i - 1) : c[j] = d[j]
      PROVE  LexLess(a, b)
  <2>1. z + i \in 1..(z + l) /\ a[z + i] < b[z + i]
    BY <1>50, <1>7
  <2>2. \A j \in 1..((z + i) - 1) : a[j] = b[j]
    <3> SUFFICES ASSUME NEW j \in 1..((z + i) - 1)
                 PROVE  a[j] = b[j]
      OBVIOUS
    <3>1. CASE j <= z
      <4>1. j \in 1..z
        BY <3>1
      <4>2. QED
        BY <4>1
    <3>2. CASE j > z
      <4>1. j \in 1..(z + l) /\ j - z \in 1..(i - 1)
        BY <3>2, <1>1
      <4>2. c[j - z] = d[j - z]
        BY <1>7, <4>1
      <4>3. QED
        BY <1>2, <3>2, <4>1, <4>2
    <3>3. QED
      BY <3>1, <3>2
  <2>3. QED
    BY <1>4, <2>1, <2>2
<1>8. LexLess(a, b) <=> LexLess(c, d)
  BY <1>4, <1>5, <1>6, <1>7
<1>9. ASSUME a = b
      PROVE  c = d
  <2>1. \A j \in 1..l : c[j] = d[j]
    BY <1>50, <1>9
  <2>2. Len(c) = l /\ Len(d) = l
    BY <1>1 DEF l
  <2>3. QED
    BY <2>1, <2>2, SeqEqual
<1>10. ASSUME c = d
       PROVE  a = b
  <2>1. \A j \in 1..(z + l) : a[j] = b[j]
    <3> SUFFICES ASSUME NEW j \in 1..(z + l)
                 PROVE  a[j] = b[j]
      OBVIOUS
    <3>1. CASE j <= z
      <4>1. j \in 1..z
        BY <3>1
      <4>2. QED
        BY <4>1
    <3>2. CASE j > z
      BY <1>2, <1>10, <3>2
    <3>3. QED
      BY <3>1, <3>2
  <2>2. QED
    BY <1>1, <2>1, SeqEqual
<1>11. QED
  BY <1>8, <1>9, <1>10

\* Sequences in two parts, the first of one length: the first part decides, and
\* the second only when the first is equal.
LEMMA LexInParts ==
  ASSUME NEW a \in Seq(Int), NEW b \in Seq(Int), Len(a) = Len(b), NEW c \in Seq(Int), NEW d \in Seq(Int)
  PROVE  LexLess(a \o c, b \o d) <=> LexLess(a, b) \/ (a = b /\ LexLess(c, d))
<1> DEFINE x == a \o c
           y == b \o d
           l == Len(a)
           lc == Len(c)
           ld == Len(d)
<1>1. l \in Nat /\ lc \in Nat /\ ld \in Nat /\ Len(b) = l
  BY LenProperties
<1>2. /\ x \in Seq(Int) /\ Len(x) = l + lc /\ \A i \in 1..(l + lc) : x[i] = IF i <= l THEN a[i] ELSE c[i - l]
      /\ y \in Seq(Int) /\ Len(y) = l + ld /\ \A i \in 1..(l + ld) : y[i] = IF i <= l THEN b[i] ELSE d[i - l]
  <2>1. x \in Seq(Int) /\ Len(x) = Len(a) + Len(c)
        /\ \A i \in 1..(Len(a) + Len(c)) : x[i] = IF i <= Len(a) THEN a[i] ELSE c[i - Len(a)]
    BY ConcatProperties
  <2>2. y \in Seq(Int) /\ Len(y) = Len(b) + Len(d)
        /\ \A i \in 1..(Len(b) + Len(d)) : y[i] = IF i <= Len(b) THEN b[i] ELSE d[i - Len(b)]
    BY ConcatProperties
  <2>3. Len(a) = l /\ Len(b) = l /\ Len(c) = lc /\ Len(d) = ld
    BY <1>1
  <2> HIDE DEF x, y, l, lc, ld
  <2>4. QED
    BY <2>1, <2>2, <2>3, Zenon
<1>3. \A i \in 1..l : a[i] \in Int /\ b[i] \in Int
  BY <1>1, ElementOfSeq
<1>4. LexLess(a, b) <=> \E i \in 1..l : a[i] < b[i] /\ \A j \in 1..(i - 1) : a[j] = b[j]
  <2>1. LexLess(a, b) <=> \E i \in 1..Len(b) : a[i] < b[i] /\ \A j \in 1..(i - 1) : a[j] = b[j]
    BY LexAtFirst
  <2> HIDE DEF x, y
  <2>2. QED
    BY <1>1, <2>1, Zenon
<1>5. LexLess(x, y) <=> \E i \in 1..(l + ld) :
                          /\ i > l + lc \/ x[i] < y[i]
                          /\ \A j \in 1..(i - 1) : j <= l + lc /\ x[j] = y[j]
  BY <1>2 DEF LexLess
<1>6. LexLess(c, d) <=> \E i \in 1..ld :
                          /\ i > lc \/ c[i] < d[i]
                          /\ \A j \in 1..(i - 1) : j <= lc /\ c[j] = d[j]
  BY DEF LexLess
<1>7. a = b <=> \A i \in 1..l : a[i] = b[i]
  BY <1>1, SeqEqual
<1> HIDE DEF x, y, l, lc, ld
<1>70. \A q \in Nat, e \in Nat : \A j \in 1..q : j \in 1..(q + e) /\ j <= q
  OBVIOUS
<1>71. \A q \in Nat, e \in Nat : \A j \in 1..e : q + j \in 1..(q + e) /\ ~(q + j <= q) /\ (q + j) - q = j
  OBVIOUS
<1>8. \A i \in 1..l : x[i] = a[i] /\ y[i] = b[i]
  BY <1>1, <1>2, <1>70
<1>9. (\A i \in 1..lc : x[l + i] = c[i]) /\ (\A i \in 1..ld : y[l + i] = d[i])
  BY <1>1, <1>2, <1>71
<1>10. ASSUME NEW i \in 1..(l + ld), i > l + lc \/ x[i] < y[i], \A j \in 1..(i - 1) : j <= l + lc /\ x[j] = y[j]
       PROVE  LexLess(a, b) \/ (a = b /\ LexLess(c, d))
  <2>1. CASE i <= l
    <3>1. i \in 1..l /\ ~(i > l + lc)
      BY <1>1, <2>1
    <3>2. a[i] < b[i]
      BY <1>8, <1>10, <3>1
    <3>3. \A j \in 1..(i - 1) : a[j] = b[j]
      <4>1. \A j \in 1..(i - 1) : j \in 1..l
        BY <1>1, <3>1
      <4>2. QED
        BY <1>8, <1>10, <4>1
    <3>4. QED
      BY <1>4, <3>1, <3>2, <3>3
  <2>2. CASE i > l
    <3>1. \A j \in 1..l : a[j] = b[j]
      <4>1. \A j \in 1..l : j \in 1..(i - 1)
        BY <1>1, <2>2
      <4>2. QED
        BY <1>8, <1>10, <4>1
    <3> DEFINE k == i - l
    <3>2. k \in 1..ld /\ l + k = i
      BY <1>1, <2>2
    <3> HIDE DEF k
    <3>3. \A j \in 1..(k - 1) : j <= lc /\ c[j] = d[j]
      <4> SUFFICES ASSUME NEW j \in 1..(k - 1)
                   PROVE  j <= lc /\ c[j] = d[j]
        OBVIOUS
      <4>1. l + j \in 1..(i - 1) /\ j \in 1..ld
        BY <1>1, <3>2
      <4>2. l + j <= l + lc /\ x[l + j] = y[l + j]
        BY <1>10, <4>1
      <4>3. j \in 1..lc
        BY <1>1, <4>1, <4>2
      <4>4. QED
        BY <1>9, <4>1, <4>2, <4>3
    <3>4. k > lc \/ c[k] < d[k]
      <4> SUFFICES ASSUME ~(k > lc)
                   PROVE  c[k] < d[k]
        OBVIOUS
      <4>1. k \in 1..lc /\ ~(i > l + lc)
        BY <1>1, <3>2
      <4>2. x[i] < y[i]
        BY <1>10, <4>1
      <4>3. QED
        BY <1>9, <3>2, <4>1, <4>2
    <3>5. QED
      BY <1>6, <1>7, <3>1, <3>2, <3>3, <3>4
  <2>3. QED
    BY <1>1, <2>1, <2>2
<1>11. ASSUME NEW i \in 1..l, a[i] < b[i], \A j \in 1..(i - 1) : a[j] = b[j]
       PROVE  LexLess(x, y)
  <2>1. i \in 1..(l + ld) /\ x[i] < y[i]
    BY <1>1, <1>8, <1>11
  <2>2. \A j \in 1..(i - 1) : j <= l + lc /\ x[j] = y[j]
    <3>1. \A j \in 1..(i - 1) : j \in 1..l /\ j <= l + lc
      BY <1>1
    <3>2. QED
      BY <1>8, <1>11, <3>1
  <2>3. QED
    BY <1>5, <2>1, <2>2
<1>12. ASSUME a = b, NEW i \in 1..ld, i > lc \/ c[i] < d[i], \A j \in 1..(i - 1) : j <= lc /\ c[j] = d[j]
       PROVE  LexLess(x, y)
  <2> DEFINE k == l + i
  <2>1. k \in 1..(l + ld) /\ k - l = i
    BY <1>1
  <2>2. k > l + lc \/ x[k] < y[k]
    <3> SUFFICES ASSUME ~(k > l + lc)
                 PROVE  x[k] < y[k]
      OBVIOUS
    <3>1. ~(i > lc) /\ i \in 1..lc
      BY <1>1
    <3>2. c[i] < d[i]
      BY <1>12, <3>1
    <3>3. QED
      BY <1>9, <3>1, <3>2
  <2>3. \A j \in 1..(k - 1) : j <= l + lc /\ x[j] = y[j]
    <3> SUFFICES ASSUME NEW j \in 1..(k - 1)
                 PROVE  j <= l + lc /\ x[j] = y[j]
      OBVIOUS
    <3>1. CASE j <= l
      <4>1. j \in 1..l /\ j <= l + lc
        BY <1>1, <3>1
      <4>2. QED
        BY <1>8, <1>12, <4>1
    <3>2. CASE j > l
      <4> DEFINE h == j - l
      <4>1. h \in 1..(i - 1) /\ l + h = j
        BY <1>1, <3>2
      <4> HIDE DEF h
      <4>2. h <= lc /\ c[h] = d[h]
        BY <1>12, <4>1
      <4>3. h \in 1..lc /\ h \in 1..ld /\ j <= l + lc
        BY <1>1, <4>1, <4>2
      <4>4. x[l + h] = c[h] /\ y[l + h] = d[h]
        BY <1>9, <4>3
      <4>5. QED
        BY <4>1, <4>2, <4>3, <4>4
    <3>3. QED
      BY <1>1, <3>1, <3>2
  <2> HIDE DEF k
  <2>4. QED
    BY <1>5, <2>1, <2>2, <2>3
<1>13. LexLess(x, y) <=> LexLess(a, b) \/ (a = b /\ LexLess(c, d))
  BY <1>4, <1>5, <1>6, <1>10, <1>11, <1>12
<1>14. QED
  BY <1>13 DEF x, y

\* The order of two pairs.
LEMMA LexOfPairs ==
  ASSUME NEW x \in Int, NEW y \in Int, NEW u \in Int, NEW v \in Int
  PROVE  /\ LexLess(<<x, y>>, <<u, v>>) <=> x < u \/ (x = u /\ y < v)
         /\ <<x, y>> \in Seq(Int) /\ Len(<<x, y>>) = 2
<1> DEFINE a == <<x, y>>
           b == <<u, v>>
<1>1. a \in Seq(Int) /\ b \in Seq(Int) /\ Len(a) = 2 /\ Len(b) = 2 /\ a[1] = x /\ a[2] = y /\ b[1] = u /\ b[2] = v
  OBVIOUS
<1> HIDE DEF a, b
<1>2. LexLess(a, b) <=> \E i \in 1..2 : a[i] < b[i] /\ \A j \in 1..(i - 1) : a[j] = b[j]
  BY <1>1, LexAtFirst
<1>3. \A i \in 1..2 : i = 1 \/ i = 2
  OBVIOUS
<1>4. (\A j \in 1..(1 - 1) : a[j] = b[j]) /\ ((\A j \in 1..(2 - 1) : a[j] = b[j]) <=> a[1] = b[1])
  OBVIOUS
<1>5. LexLess(a, b) <=> x < u \/ (x = u /\ y < v)
  <2>1. LexLess(a, b) <=> \/ a[1] < b[1] /\ \A j \in 1..(1 - 1) : a[j] = b[j]
                          \/ a[2] < b[2] /\ \A j \in 1..(2 - 1) : a[j] = b[j]
    <3>1. 1 \in 1..2 /\ 2 \in 1..2
      OBVIOUS
    <3>2. QED
      BY <1>2, <1>3, <3>1
  <2>2. QED
    BY <1>1, <1>4, <2>1
<1>6. QED
  BY <1>1, <1>5 DEF a, b

\* Two sequences in two parts each, of the same lengths, are equal when both parts are.
LEMMA EqualInParts ==
  ASSUME NEW a \in Seq(Int), NEW b \in Seq(Int), Len(a) = Len(b),
         NEW c \in Seq(Int), NEW d \in Seq(Int), Len(c) = Len(d)
  PROVE  /\ a \o c = b \o d <=> a = b /\ c = d
         /\ a \o c \in Seq(Int) /\ Len(a \o c) = Len(a) + Len(c)
<1> DEFINE x == a \o c
           y == b \o d
           l == Len(a)
           e == Len(c)
<1>1. l \in Nat /\ e \in Nat /\ Len(b) = l /\ Len(d) = e
  BY LenProperties
<1>2. x \in Seq(Int) /\ Len(x) = Len(a) + Len(c)
      /\ \A i \in 1..(Len(a) + Len(c)) : x[i] = IF i <= Len(a) THEN a[i] ELSE c[i - Len(a)]
  BY ConcatProperties
<1>3. y \in Seq(Int) /\ Len(y) = Len(b) + Len(d)
      /\ \A i \in 1..(Len(b) + Len(d)) : y[i] = IF i <= Len(b) THEN b[i] ELSE d[i - Len(b)]
  BY ConcatProperties
<1>4. Len(a) = l /\ Len(c) = e
  OBVIOUS
<1> HIDE DEF x, y, l, e
<1>5. (\A i \in 1..(l + e) : x[i] = IF i <= l THEN a[i] ELSE c[i - l])
      /\ (\A i \in 1..(l + e) : y[i] = IF i <= l THEN b[i] ELSE d[i - l])
  BY <1>1, <1>2, <1>3, <1>4, Zenon
<1>6. \A p \in Nat, q \in Nat : \A j \in 1..p : j \in 1..(p + q) /\ j <= p
  OBVIOUS
<1>7. \A p \in Nat, q \in Nat : \A j \in 1..q : p + j \in 1..(p + q) /\ ~(p + j <= p) /\ (p + j) - p = j
  OBVIOUS
<1>8. \A i \in 1..l : x[i] = a[i] /\ y[i] = b[i]
  BY <1>1, <1>5, <1>6
<1>9. \A i \in 1..e : x[l + i] = c[i] /\ y[l + i] = d[i]
  <2> SUFFICES ASSUME NEW i \in 1..e
               PROVE  x[l + i] = c[i] /\ y[l + i] = d[i]
    OBVIOUS
  <2>1. l + i \in 1..(l + e) /\ ~(l + i <= l) /\ (l + i) - l = i
    BY <1>1, <1>7
  <2>2. QED
    BY <1>5, <2>1
<1>10. x = y => a = b /\ c = d
  <2> SUFFICES ASSUME x = y
               PROVE  a = b /\ c = d
    OBVIOUS
  <2>1. \A i \in 1..l : a[i] = b[i]
    BY <1>8
  <2>2. \A i \in 1..e : c[i] = d[i]
    BY <1>9
  <2>3. a = b
    BY <1>1, <1>4, <2>1, SeqEqual
  <2>4. c = d
    BY <1>1, <1>4, <2>2, SeqEqual
  <2>5. QED
    BY <2>3, <2>4
<1>11. QED
  BY <1>2, <1>10 DEF x, y, l, e

\* A score a graph may have, by tiers up to maxK.
ScoreUpTo(s, maxK) ==
  /\ DOMAIN s.hist \subseteq 3..maxK
  /\ \A k \in DOMAIN s.hist : s.hist[k].red \in Int /\ s.hist[k].blue \in Int
  /\ s.gap \in Int /\ s.aut \in Int /\ s.cid \in Seq(Int)

\* The keys of the tiers from a highest one down.
Keys(s, high, M) == [x \in 1..M |-> TierKey(s.hist, high + 1 - x)]

\* The keys are pieces of two numbers each, and so flattened.
LEMMA KeysAre ==
  ASSUME NEW maxK \in Nat, NEW s, ScoreUpTo(s, maxK), NEW high \in Int, NEW M \in Nat
  PROVE  /\ Pieces(Int, 2, M, Keys(s, high, M))
         /\ Flattened(Int, 2, M, Keys(s, high, M), FlattenSeq(Keys(s, high, M)))
<1>1. \A k \in Int : TierKey(s.hist, k) \in Seq(Int) /\ Len(TierKey(s.hist, k)) = 2
  <2> SUFFICES ASSUME NEW k \in Int
               PROVE  TierKey(s.hist, k) \in Seq(Int) /\ Len(TierKey(s.hist, k)) = 2
    OBVIOUS
  <2>1. \A x \in Int, y \in Int : <<x, y>> \in Seq(Int) /\ Len(<<x, y>>) = 2
    OBVIOUS
  <2>2. k \in DOMAIN s.hist => s.hist[k].red \in Int /\ s.hist[k].blue \in Int
    BY DEF ScoreUpTo
  <2>3. QED
    BY <2>1, <2>2 DEF TierKey
<1>2. \A x \in 1..M : high + 1 - x \in Int
  OBVIOUS
<1>3. Pieces(Int, 2, M, Keys(s, high, M))
  BY <1>1, <1>2 DEF Pieces, Keys
<1>4. QED
  BY <1>3, FlattenIs

\* The tiers above both histograms' highest are the same in both, so that leaving
\* them out, as Ord does, orders two scores as the full bytes do.
LEMMA TiersAlike ==
  ASSUME NEW maxK \in Nat, NEW a, ScoreUpTo(a, maxK), NEW b, ScoreUpTo(b, maxK),
         NEW top \in Int, 2 <= top, top <= maxK,
         \A k \in DOMAIN a.hist \cup DOMAIN b.hist : k <= top
  PROVE  LET A == FlattenSeq(Keys(a, maxK, maxK - 2))
             B == FlattenSeq(Keys(b, maxK, maxK - 2))
             C == FlattenSeq(Keys(a, top, top - 2))
             D == FlattenSeq(Keys(b, top, top - 2))
         IN  /\ LexLess(A, B) <=> LexLess(C, D)
             /\ A = B <=> C = D
             /\ A \in Seq(Int) /\ B \in Seq(Int) /\ Len(A) = Len(B)
<1> DEFINE M == maxK - 2
           low == top - 2
           gone == maxK - top
           A == FlattenSeq(Keys(a, maxK, M))
           B == FlattenSeq(Keys(b, maxK, M))
           C == FlattenSeq(Keys(a, top, low))
           D == FlattenSeq(Keys(b, top, low))
<1>1. M \in Nat /\ low \in Nat /\ gone \in Nat /\ M = gone + low /\ maxK = gone + top
  OBVIOUS
<1> HIDE DEF M, low, gone
<1>2. /\ Flattened(Int, 2, M, Keys(a, maxK, M), A) /\ Flattened(Int, 2, M, Keys(b, maxK, M), B)
      /\ Flattened(Int, 2, low, Keys(a, top, low), C) /\ Flattened(Int, 2, low, Keys(b, top, low), D)
  BY <1>1, KeysAre
<1>3. \A i \in Nat : Whole(2, i) = 2 * i
  BY DEF Whole
<1>4. /\ A \in Seq(Int) /\ B \in Seq(Int) /\ C \in Seq(Int) /\ D \in Seq(Int)
      /\ Len(A) = 2 * M /\ Len(B) = 2 * M /\ Len(C) = 2 * low /\ Len(D) = 2 * low
  BY <1>1, <1>2, <1>3 DEF Flattened
<1>5. /\ \A p \in 1..M, k \in 1..2 : A[Spot(2, p, k)] = TierKey(a.hist, maxK + 1 - p)[k]
      /\ \A p \in 1..M, k \in 1..2 : B[Spot(2, p, k)] = TierKey(b.hist, maxK + 1 - p)[k]
      /\ \A p \in 1..low, k \in 1..2 : C[Spot(2, p, k)] = TierKey(a.hist, top + 1 - p)[k]
      /\ \A p \in 1..low, k \in 1..2 : D[Spot(2, p, k)] = TierKey(b.hist, top + 1 - p)[k]
  BY <1>2 DEF Flattened, Keys
<1> HIDE DEF A, B, C, D
<1>6. \A i \in Nat : \A j \in 1..(2 * i) : \E p \in 1..i, k \in 1..2 : j = Spot(2, p, k)
  <2> SUFFICES ASSUME NEW i \in Nat, NEW j \in 1..(2 * i)
               PROVE  \E p \in 1..i, k \in 1..2 : j = Spot(2, p, k)
    OBVIOUS
  <2>1. j \in 1..Whole(2, i)
    BY DEF Whole
  <2>2. 2 \in Nat \ {0}
    OBVIOUS
  <2>3. Piece(2, j) \in 1..i /\ Place(2, j) \in 1..2
    BY <2>1, <2>2, PieceIs
  <2>4. j = Spot(2, Piece(2, j), Place(2, j))
    <3> DEFINE d == (j - 1) \div 2
    <3>1. d \in Int
      OBVIOUS
    <3>2. Piece(2, j) = d + 1 /\ Place(2, j) = j - 2 * d
      BY DEF Piece, Place
    <3> HIDE DEF d
    <3>3. QED
      BY <3>1, <3>2 DEF Spot
  <2>5. QED
    BY <2>3, <2>4
<1>7. \A j \in 1..(2 * gone) : A[j] = B[j]
  <2> SUFFICES ASSUME NEW j \in 1..(2 * gone)
               PROVE  A[j] = B[j]
    OBVIOUS
  <2>1. PICK p \in 1..gone, k \in 1..2 : j = Spot(2, p, k)
    BY <1>1, <1>6
  <2>2. p \in 1..M /\ maxK + 1 - p > top
    BY <1>1
  <2>3. maxK + 1 - p \notin DOMAIN a.hist /\ maxK + 1 - p \notin DOMAIN b.hist
    <3> DEFINE t == maxK + 1 - p
    <3>1. t \in Int
      BY <2>2
    <3>2. t > top
      BY <2>2
    <3> HIDE DEF t
    <3>3. t \notin DOMAIN a.hist /\ t \notin DOMAIN b.hist
      BY <3>1, <3>2
    <3>4. QED
      BY <3>3 DEF t
  <2>4. TierKey(a.hist, maxK + 1 - p) = TierKey(b.hist, maxK + 1 - p)
    BY <2>3 DEF TierKey
  <2>5. QED
    BY <1>5, <2>1, <2>2, <2>4
<1>8. \A j \in 1..(2 * low) : A[2 * gone + j] = C[j] /\ B[2 * gone + j] = D[j]
  <2> SUFFICES ASSUME NEW j \in 1..(2 * low)
               PROVE  A[2 * gone + j] = C[j] /\ B[2 * gone + j] = D[j]
    OBVIOUS
  <2>1. PICK p \in 1..low, k \in 1..2 : j = Spot(2, p, k)
    BY <1>1, <1>6
  <2> DEFINE q == gone + p
  <2>2. q \in 1..M /\ maxK + 1 - q = top + 1 - p
    BY <1>1
  <2>3. 2 * gone + j = Spot(2, q, k)
    BY <1>1, <2>1 DEF Spot
  <2> HIDE DEF q
  <2>4. /\ A[Spot(2, q, k)] = TierKey(a.hist, maxK + 1 - q)[k]
        /\ B[Spot(2, q, k)] = TierKey(b.hist, maxK + 1 - q)[k]
        /\ C[Spot(2, p, k)] = TierKey(a.hist, top + 1 - p)[k]
        /\ D[Spot(2, p, k)] = TierKey(b.hist, top + 1 - p)[k]
    BY <1>5, <2>2
  <2>5. QED
    BY <2>1, <2>2, <2>3, <2>4
<1>9. 2 * gone \in Nat /\ 2 * M = 2 * gone + 2 * low
  BY <1>1
<1>10. (LexLess(A, B) <=> LexLess(C, D)) /\ (A = B <=> C = D)
  <2> DEFINE z == 2 * gone
             e == 2 * low
  <2>1. z \in Nat /\ Len(C) = e /\ Len(D) = e /\ Len(A) = z + e /\ Len(B) = z + e
    BY <1>4, <1>9
  <2>2. (\A j \in 1..z : A[j] = B[j]) /\ \A j \in 1..e : A[z + j] = C[j] /\ B[z + j] = D[j]
    BY <1>7, <1>8
  <2> HIDE DEF z, e
  <2>3. Len(C) = Len(D) /\ Len(A) = z + Len(C) /\ Len(B) = z + Len(D)
    BY <2>1
  <2>4. \A j \in 1..Len(C) : A[z + j] = C[j] /\ B[z + j] = D[j]
    BY <2>1, <2>2
  <2>5. A \in Seq(Int) /\ B \in Seq(Int) /\ C \in Seq(Int) /\ D \in Seq(Int)
    BY <1>4
  <2>6. z \in Nat
    BY <2>1
  <2>7. \A j \in 1..z : A[j] = B[j]
    BY <2>2
  <2>8. Behind(A, B, C, D, z)
    BY <2>3, <2>4, <2>5, <2>6, <2>7 DEF Behind
  <2>9. QED
    BY <2>8, LexBehind, Zenon
<1>11. QED
  BY <1>4, <1>10 DEF A, B, C, D, M, low

\* The order of scores and the order of their bytes are one.
LEMMA ScoresRanked ==
  ASSUME NEW maxK \in Nat, NEW a, ScoreUpTo(a, maxK), NEW b, ScoreUpTo(b, maxK)
  PROVE  ScoreLess(a, b) <=> LexLess(ScoreBytes(a, maxK), ScoreBytes(b, maxK))
<1> DEFINE T == {2} \cup DOMAIN a.hist \cup DOMAIN b.hist
           top == Max(T)
           A == FlattenSeq(Keys(a, maxK, maxK - 2))
           B == FlattenSeq(Keys(b, maxK, maxK - 2))
           C == FlattenSeq(Keys(a, top, top - 2))
           D == FlattenSeq(Keys(b, top, top - 2))
           P == <<a.gap, -a.aut>>
           Q == <<b.gap, -b.aut>>
<1>1. ASSUME maxK >= 2
      PROVE  top \in Int /\ 2 <= top /\ top <= maxK /\ \A k \in DOMAIN a.hist \cup DOMAIN b.hist : k <= top
  <2>1. T \subseteq 2..maxK /\ 2 \in T
    BY <1>1 DEF ScoreUpTo
  <2>2. IsFiniteSet(T)
    <3>1. 2 \in Int
      OBVIOUS
    <3>2. IsFiniteSet(2..maxK)
      BY <3>1, FS_Interval
    <3>3. QED
      BY <2>1, <3>2, FS_Subset
  <2> HIDE DEF T
  <2>3. T \in SUBSET Nat /\ T # {}
    BY <2>1
  <2>4. top \in T /\ \A x \in T : x <= top
    BY <2>2, <2>3, MaxIsIn
  <2> HIDE DEF top
  <2>5. top \in Int /\ 2 <= top /\ top <= maxK
    BY <2>1, <2>4
  <2>6. \A k \in DOMAIN a.hist \cup DOMAIN b.hist : k \in T
    BY DEF T
  <2>7. QED
    BY <2>4, <2>5, <2>6
<1>2. ScoreLess(a, b) <=> \/ LexLess(C, D)
                          \/ /\ C = D
                             /\ \/ a.gap < b.gap
                                \/ a.gap = b.gap /\ a.aut > b.aut
                                \/ a.gap = b.gap /\ a.aut = b.aut /\ LexLess(a.cid, b.cid)
  BY Zenon DEF ScoreLess, Keys
<1>3. ScoreBytes(a, maxK) = (A \o P) \o a.cid /\ ScoreBytes(b, maxK) = (B \o Q) \o b.cid
  BY Zenon DEF ScoreBytes, Keys
<1> HIDE DEF top
<1>4. /\ LexLess(A, B) <=> LexLess(C, D)
      /\ A = B <=> C = D
      /\ A \in Seq(Int) /\ B \in Seq(Int) /\ Len(A) = Len(B)
  <2>1. CASE maxK >= 2
    <3> HIDE DEF T
    <3>1. QED
      BY <1>1, <2>1, TiersAlike
  <2>2. CASE ~(maxK >= 2)
    <3>1. 3..maxK = {}
      BY <2>2
    <3>2. DOMAIN a.hist \subseteq 3..maxK /\ DOMAIN b.hist \subseteq 3..maxK
      BY DEF ScoreUpTo
    <3>3. T \subseteq 2..2 /\ 2 \in T
      BY <3>1, <3>2
    <3> HIDE DEF T
    <3>4. T \in SUBSET Nat /\ T # {} /\ T = {2}
      <4>1. 2..2 = {2} /\ {2} \in SUBSET Nat
        OBVIOUS
      <4>2. T = {2}
        BY <3>3, <4>1, Zenon
      <4>3. QED
        BY <4>1, <4>2
    <3>5. top = 2
      <4>1. IsFiniteSet(T)
        BY <3>4, FS_Singleton
      <4>2. Max(T) \in T
        BY <3>4, <4>1, MaxIsIn
      <4>3. QED
        BY <3>4, <4>2 DEF top
    <3>6. /\ Keys(a, maxK, maxK - 2) = Keys(a, top, 0) /\ Keys(b, maxK, maxK - 2) = Keys(a, top, 0)
          /\ Keys(a, top, top - 2) = Keys(a, top, 0) /\ Keys(b, top, top - 2) = Keys(a, top, 0)
      <4>1. 1..(maxK - 2) = {} /\ 1..(top - 2) = {} /\ 1..0 = {}
        BY <2>2, <3>5
      <4>2. QED
        BY <4>1 DEF Keys
    <3>7. FlattenSeq(Keys(a, top, 0)) \in Seq(Int)
      <4>1. top \in Int /\ 0 \in Nat
        BY <3>5
      <4>2. QED
        BY <4>1, KeysAre DEF Flattened
    <3>8. QED
      BY <3>6, <3>7
  <2>3. QED
    BY <2>1, <2>2
<1> HIDE DEF T
<1>5. a.gap \in Int /\ a.aut \in Int /\ b.gap \in Int /\ b.aut \in Int /\ -a.aut \in Int /\ -b.aut \in Int
      /\ a.cid \in Seq(Int) /\ b.cid \in Seq(Int)
  BY DEF ScoreUpTo
<1>6. /\ LexLess(P, Q) <=> a.gap < b.gap \/ (a.gap = b.gap /\ -a.aut < -b.aut)
      /\ P \in Seq(Int) /\ Len(P) = 2 /\ Q \in Seq(Int) /\ Len(Q) = 2
  BY <1>5, LexOfPairs
<1>7. (-a.aut < -b.aut <=> a.aut > b.aut) /\ (-a.aut = -b.aut <=> a.aut = b.aut)
  BY <1>5
<1>8. P = Q <=> a.gap = b.gap /\ -a.aut = -b.aut
  OBVIOUS
<1> HIDE DEF A, B, C, D, P, Q
<1>9. /\ A \o P = B \o Q <=> A = B /\ P = Q
      /\ A \o P \in Seq(Int) /\ B \o Q \in Seq(Int) /\ Len(A \o P) = Len(B \o Q)
  <2>0. Len(P) = Len(Q)
    BY <1>6
  <2>1. /\ A \o P = B \o Q <=> A = B /\ P = Q
        /\ A \o P \in Seq(Int) /\ Len(A \o P) = Len(A) + Len(P)
    BY <1>4, <1>6, <2>0, EqualInParts
  <2>2. B \o Q \in Seq(Int) /\ Len(B \o Q) = Len(B) + Len(Q)
    BY <1>4, <1>6, EqualInParts
  <2>3. QED
    BY <1>4, <1>6, <2>1, <2>2
<1>10. LexLess(A \o P, B \o Q) <=> LexLess(A, B) \/ (A = B /\ LexLess(P, Q))
  BY <1>4, <1>6, LexInParts
<1>11. LexLess((A \o P) \o a.cid, (B \o Q) \o b.cid)
         <=> LexLess(A \o P, B \o Q) \/ (A \o P = B \o Q /\ LexLess(a.cid, b.cid))
  <2> DEFINE x == A \o P
             y == B \o Q
             c == a.cid
             d == b.cid
  <2>1. x \in Seq(Int) /\ y \in Seq(Int) /\ Len(x) = Len(y) /\ c \in Seq(Int) /\ d \in Seq(Int)
    BY <1>5, <1>9
  <2> HIDE DEF x, y, c, d
  <2>2. LexLess(x \o c, y \o d) <=> LexLess(x, y) \/ (x = y /\ LexLess(c, d))
    BY <2>1, LexInParts
  <2>3. QED
    BY <2>2 DEF x, y, c, d
<1>12. LexLess(ScoreBytes(a, maxK), ScoreBytes(b, maxK))
         <=> \/ LexLess(C, D) \/ (C = D /\ LexLess(P, Q))
             \/ (C = D /\ P = Q /\ LexLess(a.cid, b.cid))
  BY <1>3, <1>4, <1>9, <1>10, <1>11, Zenon
<1>13. QED
  BY <1>2, <1>6, <1>7, <1>8, <1>12, Zenon

\* The numbers of cliques of a graph and of its complement are numbers.
LEMMA CountsAreNumbers ==
  ASSUME NEW m \in Nat, m < WordBits, NEW g, g.n = m, NEW k \in Nat
  PROVE  CountCliques(FromAdj(g), k) \in Nat /\ CountCliques(FromAdj(Complement(g)), k) \in Nat
<1> DEFINE V == Vertices(m)
           a == FromAdj(g)
           b == FromAdj(Complement(g))
<1>1. MasksOn(a, V) /\ b = Others(a, V)
  BY MasksOfBoth
<1> HIDE DEF V, a, b
<1>2. MasksOn(b, V) /\ IsFiniteSet(V)
  BY <1>1, OthersMasks DEF MasksOn
<1>3. CountCliques(a, k) = Cardinality(CliquesIn(a, V, k)) /\ CountCliques(b, k) = Cardinality(CliquesIn(b, V, k))
  BY <1>1, <1>2, CountExact
<1>4. QED
  BY <1>2, <1>3, CliquesFinite DEF a, b

\* The score of a graph has tiers up to maxK, and its numbers are numbers.
LEMMA ScoreOfIs ==
  ASSUME NEW m \in Nat, m < WordBits, m <= MaxText, NEW g, g.n = m, NEW maxK \in Nat
  PROVE  ScoreUpTo(ScoreOf(g, maxK), maxK)
<1> DEFINE s == ScoreOf(g, maxK)
           red(t) == CountCliques(FromAdj(g), t)
           blue(t) == CountCliques(FromAdj(Complement(g)), t)
           tiers == [k \in 3..maxK |-> [red |-> red(k), blue |-> blue(k)]]
           filled == {k \in 3..maxK : tiers[k].red > 0 \/ tiers[k].blue > 0}
           hist == Histogram(g, maxK)
           tri == IF 3 \in DOMAIN hist THEN hist[3] ELSE [red |-> 0, blue |-> 0]
           form == CanonicalForm(g)
<1>1. \A t \in 3..maxK : red(t) \in Nat /\ blue(t) \in Nat
  <2>1. \A t \in 3..maxK : t \in Nat
    OBVIOUS
  <2>2. QED
    BY <2>1, CountsAreNumbers
<1>2. hist = [k \in {x \in 3..maxK : \E y \in filled : x <= y} |-> tiers[k]]
  BY DEF Histogram
<1> HIDE DEF red, blue, filled, hist
<1>3. DOMAIN hist \subseteq 3..maxK /\ \A k \in DOMAIN hist : hist[k].red \in Nat /\ hist[k].blue \in Nat
  <2>1. \A k \in 3..maxK : tiers[k].red \in Nat /\ tiers[k].blue \in Nat
    BY <1>1
  <2> HIDE DEF tiers
  <2>2. QED
    BY <1>2, <2>1
<1>4. tri.red \in Nat /\ tri.blue \in Nat
  BY <1>3
<1> HIDE DEF tri, form
<1>5. /\ s.hist = hist /\ s.gap = GoodmanGap(m, tri.red, tri.blue)
      /\ s.aut = form.aut /\ s.cid = Encode(form.graph)
  <2>1. s = [hist |-> hist, gap |-> GoodmanGap(g.n, tri.red, tri.blue), aut |-> form.aut,
             cid |-> ComputeCid(form.graph)]
    BY Zenon DEF ScoreOf, tri, hist, form
  <2>2. QED
    BY <2>1 DEF ComputeCid
<1> HIDE DEF s
<1>6. s.gap \in Int
  <2>1. GoodmanMinimum(m) \in Int
    <3> DEFINE x == (m * (m - 1) * (m - 2)) \div 6
               y == m * (((m - 1) * (m - 1)) \div 4)
    <3>1. x \in Int /\ y \in Int
      <4>1. m * (m - 1) * (m - 2) \in Int /\ (m - 1) * (m - 1) \in Int
        OBVIOUS
      <4>2. \A i \in Int : i \div 6 \in Int /\ i \div 4 \in Int /\ m * i \in Int
        OBVIOUS
      <4>3. QED
        BY <4>1, <4>2
    <3>2. GoodmanMinimum(m) = IF m < 3 THEN 0 ELSE x - y \div 2
      BY DEF GoodmanMinimum
    <3> HIDE DEF x, y
    <3>3. x - y \div 2 \in Int
      BY <3>1
    <3>4. QED
      BY <3>2, <3>3
  <2>2. QED
    BY <1>4, <1>5, <2>1 DEF GoodmanGap
<1>7. s.aut \in Int
  <2>1. form.aut = Cardinality({lab \in Labellings(m) : Relabelled(g, lab) = g})
    BY NautyIs, CanonicalIs DEF form
  <2>2. IsFiniteSet({lab \in Labellings(m) : Relabelled(g, lab) = g})
    BY LabellingsFinite, FS_Subset
  <2>3. QED
    BY <1>5, <2>1, <2>2, FS_CardinalityType
<1>8. s.cid \in Seq(Int)
  <2>1. form.graph.n = m
    <3>1. Nauty(g).lab \in Labellings(m) /\ form.graph = Relabelled(g, Nauty(g).lab)
      BY NautyIs, CanonicalIs DEF form
    <3> DEFINE lab == Nauty(g).lab
    <3> HIDE DEF lab
    <3>2. lab \in Labellings(m) /\ form.graph = Relabelled(g, lab)
      BY <3>1 DEF lab
    <3>3. Relabelled(g, lab).n = m
      BY DEF Relabelled, GraphWith
    <3>4. QED
      BY <3>2, <3>3
  <2>2. Encode(form.graph) \in Seq(63..126)
    BY <2>1, EncodeIs
  <2>3. 63..126 \subseteq Int
    OBVIOUS
  <2>4. QED
    BY <1>5, <2>2, <2>3, SeqMonotonic
<1>9. ScoreUpTo(s, maxK)
  BY <1>3, <1>5, <1>6, <1>7, <1>8 DEF ScoreUpTo
<1>10. QED
  BY <1>9 DEF s

\* The server's order of two graphs, by their score bytes, is the workers', by Ord,
\* for every two graphs a text and a word hold and every max_k (score.rs).
THEOREM RankedForAll ==
  ASSUME NEW g, g.n \in Nat, g.n <= MaxText, g.n < WordBits,
         NEW h, h.n \in Nat, h.n <= MaxText, h.n < WordBits, NEW maxK \in Nat
  PROVE  ScoreLess(ScoreOf(g, maxK), ScoreOf(h, maxK))
           <=> LexLess(ScoreBytes(ScoreOf(g, maxK), maxK), ScoreBytes(ScoreOf(h, maxK), maxK))
<1>1. ScoreUpTo(ScoreOf(g, maxK), maxK) /\ ScoreUpTo(ScoreOf(h, maxK), maxK)
  BY ScoreOfIs
<1>2. QED
  BY <1>1, ScoresRanked

-----------------------------------------------------------------------------
(***************************************************************************)
(* Goodman's bound: no graph has too few one-coloured triangles            *)
(***************************************************************************)

\* The subsets of t of the vertices below m.
Subsets(m, t) == {S \in SUBSET Vertices(m) : Cardinality(S) = t}

\* There are finitely many subsets of each size.
LEMMA SubsetsFinite ==
  ASSUME NEW m \in Nat, NEW t
  PROVE  IsFiniteSet(Subsets(m, t)) /\ Cardinality(Subsets(m, t)) \in Nat
         /\ \A S \in Subsets(m, t) : IsFiniteSet(S) /\ S \subseteq Vertices(m)
<1>1. IsFiniteSet(Vertices(m))
  BY VerticesAre
<1>2. IsFiniteSet(SUBSET Vertices(m))
  BY <1>1, FS_SUBSET
<1>3. IsFiniteSet(Subsets(m, t))
  BY <1>2, FS_Subset DEF Subsets
<1>4. \A S \in Subsets(m, t) : IsFiniteSet(S) /\ S \subseteq Vertices(m)
  BY <1>1, FS_Subset DEF Subsets
<1>5. QED
  BY <1>3, <1>4, FS_CardinalityType

\* With one more vertex: the subsets without it, and those it is put to.
LEMMA SubsetsGrow ==
  ASSUME NEW m \in Nat, NEW t \in Nat
  PROVE  Cardinality(Subsets(m + 1, t + 1)) = Cardinality(Subsets(m, t + 1)) + Cardinality(Subsets(m, t))
<1> DEFINE V == Vertices(m)
           old == Subsets(m, t + 1)
           new == {S \cup {m} : S \in Subsets(m, t)}
           put == [S \in Subsets(m, t) |-> S \cup {m}]
<1>1. m \notin V /\ Vertices(m + 1) = V \cup {m} /\ IsFiniteSet(V)
  BY VerticesAre DEF Vertices
<1>2. IsFiniteSet(old) /\ IsFiniteSet(Subsets(m, t)) /\ (\A S \in Subsets(m, t) : IsFiniteSet(S) /\ S \subseteq V)
  BY SubsetsFinite
<1>3. /\ \A S \in old : S \subseteq V /\ Cardinality(S) = t + 1
      /\ \A S \in Subsets(m, t) : Cardinality(S) = t
  BY DEF Subsets
<1>4. \A S : S \in Subsets(m + 1, t + 1) <=> S \subseteq V \cup {m} /\ Cardinality(S) = t + 1
  BY <1>1 DEF Subsets
<1>5. \A S : S \in Subsets(m, t) <=> S \subseteq V /\ Cardinality(S) = t
  BY DEF Subsets
<1>6. \A S : S \in old <=> S \subseteq V /\ Cardinality(S) = t + 1
  BY DEF Subsets
<1> HIDE DEF V, old
<1>7. Subsets(m + 1, t + 1) = old \cup new
  <2>1. ASSUME NEW S \in Subsets(m + 1, t + 1), m \in S
        PROVE  S \in new
    <3> DEFINE r == S \ {m}
    <3>1. S \subseteq V \cup {m} /\ Cardinality(S) = t + 1
      BY <1>4
    <3>2. IsFiniteSet(V \cup {m})
      BY <1>1, FS_AddElement
    <3>3. IsFiniteSet(S)
      BY <3>1, <3>2, FS_Subset
    <3>4. IsFiniteSet(r) /\ m \notin r /\ S = r \cup {m} /\ r \subseteq V
      BY <2>1, <3>1, <3>3, FS_RemoveElement
    <3> HIDE DEF r
    <3>5. Cardinality(S) = Cardinality(r) + 1 /\ Cardinality(r) \in Nat
      BY <3>4, FS_AddElement, FS_CardinalityType
    <3>6. Cardinality(r) = t
      BY <3>1, <3>5
    <3>7. QED
      BY <1>5, <3>4, <3>6
  <2>2. ASSUME NEW S \in Subsets(m + 1, t + 1), m \notin S
        PROVE  S \in old
    BY <1>4, <1>6, <2>2
  <2>3. ASSUME NEW S \in old
        PROVE  S \in Subsets(m + 1, t + 1)
    BY <1>3, <1>4
  <2>4. ASSUME NEW r \in Subsets(m, t)
        PROVE  r \cup {m} \in Subsets(m + 1, t + 1)
    <3>1. m \notin r /\ IsFiniteSet(r)
      BY <1>1, <1>2
    <3>2. Cardinality(r \cup {m}) = t + 1
      BY <1>3, <3>1, FS_AddElement
    <3>3. QED
      BY <1>2, <1>4, <3>2
  <2>5. QED
    BY <2>1, <2>2, <2>3, <2>4
<1>8. IsFiniteSet(new) /\ Cardinality(new) = Cardinality(Subsets(m, t))
  <2>1. put \in [Subsets(m, t) -> new]
    OBVIOUS
  <2>2. \A x, y \in Subsets(m, t) : put[x] = put[y] => x = y
    <3> SUFFICES ASSUME NEW x \in Subsets(m, t), NEW y \in Subsets(m, t), x \cup {m} = y \cup {m}
                 PROVE  x = y
      OBVIOUS
    <3>1. m \notin x /\ m \notin y
      BY <1>1, <1>2
    <3>2. QED
      BY <3>1
  <2>3. \A y \in new : \E x \in Subsets(m, t) : put[x] = y
    OBVIOUS
  <2> HIDE DEF new, put
  <2>4. QED
    BY <1>2, <2>1, <2>2, <2>3, SameSize
<1>9. old \cap new = {}
  BY <1>1, <1>3
<1> HIDE DEF new
<1>10. Cardinality(old \cup new) = Cardinality(old) + Cardinality(new) - 0
  BY <1>2, <1>8, <1>9, FS_Union, FS_EmptySet
<1>11. Cardinality(old) \in Nat /\ Cardinality(Subsets(m, t)) \in Nat
  BY <1>2, FS_CardinalityType
<1> HIDE DEF put
<1>12. Cardinality(Subsets(m + 1, t + 1)) = Cardinality(old) + Cardinality(Subsets(m, t))
  <2>1. Cardinality(Subsets(m + 1, t + 1)) = Cardinality(old \cup new)
    BY <1>7, Zenon
  <2>2. Cardinality(old \cup new) = Cardinality(old) + Cardinality(Subsets(m, t)) - 0
    BY <1>8, <1>10, Zenon
  <2>3. \A x \in Nat, y \in Nat : x + y - 0 = x + y
    OBVIOUS
  <2>4. QED
    BY <1>11, <2>1, <2>2, <2>3, Zenon
<1>13. QED
  BY <1>12 DEF old

\* How many vertices, pairs and triples there are.
LEMMA TriplesAre ==
  ASSUME NEW m \in Nat
  PROVE  /\ Cardinality(Subsets(m, 3)) \in Nat
         /\ 6 * Cardinality(Subsets(m, 3)) = m * (m - 1) * (m - 2)
<1> DEFINE c(i, t) == Cardinality(Subsets(i, t))
<1>0. \A i \in Nat : c(i, 0) = 1 /\ c(i, 1) \in Nat /\ c(i, 2) \in Nat /\ c(i, 3) \in Nat
  <2> SUFFICES ASSUME NEW i \in Nat
               PROVE  c(i, 0) = 1 /\ c(i, 1) \in Nat /\ c(i, 2) \in Nat /\ c(i, 3) \in Nat
    OBVIOUS
  <2>1. IsFiniteSet(Vertices(i))
    BY VerticesAre
  <2>2. \A S \in SUBSET Vertices(i) : Cardinality(S) = 0 <=> S = {}
    BY <2>1, FS_Subset, FS_EmptySet
  <2>3. Subsets(i, 0) = {{}}
    BY <2>2 DEF Subsets
  <2>4. QED
    BY <2>3, SubsetsFinite, FS_Singleton
<1>1. c(0, 1) = 0 /\ c(0, 2) = 0 /\ c(0, 3) = 0
  <2>1. Vertices(0) = {}
    BY DEF Vertices
  <2>2. Subsets(0, 1) = {} /\ Subsets(0, 2) = {} /\ Subsets(0, 3) = {}
    BY <2>1, FS_EmptySet DEF Subsets
  <2>3. QED
    BY <2>2, FS_EmptySet
<1>2. \A i \in Nat : /\ c(i + 1, 1) = c(i, 1) + c(i, 0)
                     /\ c(i + 1, 2) = c(i, 2) + c(i, 1)
                     /\ c(i + 1, 3) = c(i, 3) + c(i, 2)
  <2>1. 0 \in Nat /\ 1 \in Nat /\ 2 \in Nat /\ 0 + 1 = 1 /\ 1 + 1 = 2 /\ 2 + 1 = 3
    OBVIOUS
  <2>2. \A i \in Nat : \A t \in Nat : c(i + 1, t + 1) = c(i, t + 1) + c(i, t)
    BY SubsetsGrow
  <2> HIDE DEF c
  <2>3. QED
    BY <2>1, <2>2
<1> DEFINE G == {i \in Nat : c(i, 1) = i /\ 2 * c(i, 2) = i * (i - 1) /\ 6 * c(i, 3) = i * (i - 1) * (i - 2)}
<1> HIDE DEF c
<1>3. 0 \in G
  BY <1>1
<1>4. \A i \in G : i + 1 \in G
  <2> SUFFICES ASSUME NEW i \in G
               PROVE  i + 1 \in G
    OBVIOUS
  <2> DEFINE x == i * (i - 1)
             y == x * (i - 2)
  <2>1. i \in Nat /\ c(i, 1) = i /\ 2 * c(i, 2) = x /\ 6 * c(i, 3) = y
    OBVIOUS
  <2>2. (i + 1) * ((i + 1) - 1) = x + 2 * i /\ x \in Int
    BY <2>1
  <2>3. (i + 1) * ((i + 1) - 1) * ((i + 1) - 2) = y + 3 * x /\ y \in Int
    <3>1. (i + 1) * ((i + 1) - 1) * ((i + 1) - 2) = (i + 1) * i * (i - 1)
      BY <2>1
    <3>2. (i + 1) * i * (i - 1) = (i + 1) * x
      BY <2>1
    <3>3. (i + 1) * x = x * (i - 2) + 3 * x
      <4> HIDE DEF x
      <4>1. QED
        BY <2>1, <2>2
    <3>4. QED
      BY <2>1, <2>2, <3>1, <3>2, <3>3
  <2>4. c(i + 1, 1) = i + 1 /\ c(i + 1, 2) = c(i, 2) + c(i, 1) /\ c(i + 1, 3) = c(i, 3) + c(i, 2)
    BY <1>0, <1>2, <2>1
  <2>5. c(i, 2) \in Nat /\ c(i, 3) \in Nat
    BY <1>0, <2>1
  <2> HIDE DEF x, y, G
  <2>6. 2 * c(i + 1, 2) = x + 2 * i /\ 6 * c(i + 1, 3) = y + 3 * x
    <3>1. \A e \in Int, f \in Int, d \in Int : e = f + d => 2 * e = 2 * f + 2 * d /\ 6 * e = 6 * f + 6 * d
      OBVIOUS
    <3>2. c(i + 1, 2) \in Int /\ c(i + 1, 3) \in Int /\ c(i, 1) \in Int /\ i \in Int
      BY <1>0, <2>1
    <3>3. 2 * c(i + 1, 2) = 2 * c(i, 2) + 2 * c(i, 1) /\ 6 * c(i + 1, 3) = 6 * c(i, 3) + 6 * c(i, 2)
      BY <2>4, <2>5, <3>1, <3>2
    <3>4. 6 * c(i, 2) = 3 * x
      BY <2>1, <2>5
    <3>5. QED
      BY <2>1, <3>3, <3>4
  <2>7. i + 1 \in Nat /\ c(i + 1, 1) = i + 1 /\ 2 * c(i + 1, 2) = (i + 1) * ((i + 1) - 1)
        /\ 6 * c(i + 1, 3) = (i + 1) * ((i + 1) - 1) * ((i + 1) - 2)
    BY <2>1, <2>2, <2>3, <2>4, <2>6
  <2>8. QED
    BY <2>7 DEF G
<1>5. G = Nat
  <2> HIDE DEF G
  <2>1. G \in SUBSET Nat
    BY DEF G
  <2>2. QED
    BY <1>3, <1>4, <2>1, NatInductive
<1>6. 6 * c(m, 3) = m * (m - 1) * (m - 2) /\ c(m, 3) \in Nat
  BY <1>0, <1>5
<1>7. QED
  BY <1>6 DEF c

\* A union of finite sets of at most q elements.
LEMMA BoundedPieces ==
  ASSUME NEW V, IsFiniteSet(V), NEW A, NEW q \in Nat,
         \A v \in V : IsFiniteSet(A[v]) /\ Cardinality(A[v]) <= q
  PROVE  LET U == UNION {A[v] : v \in V}
         IN  IsFiniteSet(U) /\ Cardinality(U) <= q * Cardinality(V)
<1> DEFINE Un(s) == UNION {A[v] : v \in s}
           Holds(s) == IsFiniteSet(Un(s)) /\ Cardinality(Un(s)) <= q * Cardinality(s)
           G == {s \in SUBSET V : Holds(s)}
<1>1. ASSUME NEW s \in SUBSET V, \A r \in SUBSET s : r # s => r \in G
      PROVE  s \in G
  <2>1. CASE s = {}
    <3>1. Un(s) = {}
      BY <2>1
    <3>2. IsFiniteSet(Un(s)) /\ Cardinality(Un(s)) = 0 /\ Cardinality(s) = 0
      BY <2>1, <3>1, FS_EmptySet
    <3>3. q * 0 = 0
      OBVIOUS
    <3>4. QED
      BY <3>2, <3>3
  <2>2. CASE s # {}
    <3>1. PICK v \in s : TRUE
      BY <2>2
    <3> DEFINE r == s \ {v}
    <3>2. r \in SUBSET s /\ r # s /\ s = r \cup {v} /\ v \notin r /\ v \in V
      BY <3>1
    <3>3. IsFiniteSet(s) /\ IsFiniteSet(r)
      BY <3>2, FS_Subset
    <3>4. Cardinality(s) = Cardinality(r) + 1 /\ Cardinality(r) \in Nat
      <4> HIDE DEF r
      <4>1. QED
        BY <3>2, <3>3, FS_AddElement, FS_CardinalityType
    <3>5. IsFiniteSet(Un(r)) /\ Cardinality(Un(r)) <= q * Cardinality(r)
      BY <1>1, <3>2
    <3>6. Un(s) = Un(r) \cup A[v]
      BY <3>2
    <3>7. IsFiniteSet(A[v]) /\ Cardinality(A[v]) <= q
      BY <3>2
    <3> HIDE DEF Un, r
    <3>8. /\ IsFiniteSet(Un(s)) /\ Cardinality(Un(s)) = Cardinality(Un(r)) + Cardinality(A[v]) - Cardinality(Un(r) \cap A[v])
          /\ Cardinality(Un(r)) \in Nat /\ Cardinality(A[v]) \in Nat /\ Cardinality(Un(r) \cap A[v]) \in Nat
      <4>1. IsFiniteSet(Un(r) \cap A[v])
        BY <3>5, FS_Subset
      <4>2. QED
        BY <3>5, <3>6, <3>7, <4>1, FS_Union, FS_CardinalityType
    <3>9. q * (Cardinality(r) + 1) = q * Cardinality(r) + q /\ q * Cardinality(r) \in Int
      BY <3>4
    <3>10. Cardinality(Un(s)) <= q * Cardinality(s)
      BY <3>4, <3>5, <3>7, <3>8, <3>9
    <3>11. QED
      BY <3>8, <3>10
  <2>3. QED
    BY <2>1, <2>2
<1>2. G = SUBSET V
  <2> HIDE DEF G
  <2>1. G \in SUBSET (SUBSET V)
    BY DEF G
  <2>2. QED
    BY <1>1, <2>1, SubsetInduction
<1>3. V \in G
  BY <1>2
<1>4. QED
  BY <1>3

\* Two edges out of one vertex, the first in the graph and the second not.
Cherries(nbrs, V) == {e \in V \X V \X V : e[2] \in nbrs[e[1]] /\ e[3] \in Others(nbrs, V)[e[1]]}

Corners(e) == {e[1], e[2], e[3]}

\* Four times a product is at most the square of the sum.
LEMMA ProductBelowSquare ==
  ASSUME NEW x \in Nat, NEW y \in Nat
  PROVE  x * y <= ((x + y) * (x + y)) \div 4
<1>1. \A z \in Int : z * z >= 0
  OBVIOUS
<1>2. (x - y) * (x - y) >= 0
  <2>1. x - y \in Int
    OBVIOUS
  <2>2. QED
    BY <1>1, <2>1
<1> DEFINE p == x * y
           s == (x + y) * (x + y)
           d == (x - y) * (x - y)
<1>3. s = 4 * p + d /\ p \in Nat /\ s \in Nat /\ d \in Nat
  BY <1>2
<1> HIDE DEF p, s, d
<1>4. p <= s \div 4
  BY <1>3
<1>5. QED
  BY <1>4 DEF p, s

\* There are at most n times the square of half the degrees.
LEMMA CherriesFew ==
  ASSUME NEW m \in Nat, NEW nbrs, MasksOn(nbrs, Vertices(m))
  PROVE  LET S == Cherries(nbrs, Vertices(m))
         IN  IsFiniteSet(S) /\ Cardinality(S) <= m * (((m - 1) * (m - 1)) \div 4)
<1> DEFINE V == Vertices(m)
           b == Others(nbrs, V)
           q == ((m - 1) * (m - 1)) \div 4
           A == [v \in V |-> {<<v, p[1], p[2]>> : p \in nbrs[v] \X b[v]}]
           S == Cherries(nbrs, V)
<1>1. IsFiniteSet(V) /\ Cardinality(V) = m
  BY VerticesAre
<1>2. \A v \in V : nbrs[v] \subseteq V /\ v \notin nbrs[v] /\ b[v] = (V \ nbrs[v]) \ {v}
  BY DEF MasksOn, Others
<1>3. q \in Nat
  <2>1. (m - 1) * (m - 1) \in Nat
    <3>1. \A z \in Int : z * z \in Nat
      OBVIOUS
    <3>2. QED
      BY <3>1
  <2>2. \A z \in Nat : z \div 4 \in Nat
    OBVIOUS
  <2>3. QED
    BY <2>1, <2>2
<1> HIDE DEF V, b, q
<1>4. ASSUME NEW v \in V
      PROVE  IsFiniteSet(A[v]) /\ Cardinality(A[v]) <= q
  <2> DEFINE mine == nbrs[v]
             rest == b[v]
             P == mine \X rest
             f == [p \in P |-> <<v, p[1], p[2]>>]
  <2>1. mine \subseteq V /\ rest \subseteq V /\ mine \cap rest = {} /\ V = (mine \cup rest) \cup {v}
        /\ v \notin mine \cup rest
    BY <1>2
  <2>2. A[v] = {<<v, p[1], p[2]>> : p \in P}
    OBVIOUS
  <2> HIDE DEF mine, rest, A
  <2>3. IsFiniteSet(mine) /\ IsFiniteSet(rest)
    BY <1>1, <2>1, FS_Subset
  <2>4. Cardinality(mine) \in Nat /\ Cardinality(rest) \in Nat
    BY <2>3, FS_CardinalityType
  <2>5. IsFiniteSet(mine \cup rest) /\ Cardinality(mine \cup rest) = Cardinality(mine) + Cardinality(rest) - 0
    BY <2>1, <2>3, FS_Union, FS_EmptySet
  <2>6. Cardinality(V) = Cardinality(mine \cup rest) + 1
    BY <2>1, <2>5, FS_AddElement
  <2>7. Cardinality(mine) + Cardinality(rest) = m - 1
    BY <1>1, <2>4, <2>5, <2>6
  <2>8. Cardinality(mine) * Cardinality(rest) <= q
    <3> DEFINE x == Cardinality(mine)
               y == Cardinality(rest)
    <3> HIDE DEF x, y
    <3>1. x \in Nat /\ y \in Nat /\ x + y = m - 1
      BY <2>4, <2>7 DEF x, y
    <3>2. x * y <= ((x + y) * (x + y)) \div 4
      BY <3>1, ProductBelowSquare
    <3>3. x * y <= q
      BY <3>1, <3>2, Zenon DEF q
    <3>4. QED
      BY <3>3 DEF x, y
  <2>9. IsFiniteSet(P) /\ Cardinality(P) = Cardinality(mine) * Cardinality(rest)
    BY <2>3, FS_Product
  <2>10. IsFiniteSet(A[v]) /\ Cardinality(A[v]) = Cardinality(P)
    <3>1. f \in [P -> A[v]]
      BY <2>2
    <3>2. \A x, y \in P : f[x] = f[y] => x = y
      OBVIOUS
    <3>3. \A y \in A[v] : \E x \in P : f[x] = y
      BY <2>2
    <3> HIDE DEF f, P
    <3>4. QED
      BY <2>9, <3>1, <3>2, <3>3, SameSize
  <2>11. QED
    BY <2>8, <2>9, <2>10
<1>5. S = UNION {A[v] : v \in V}
  <2>1. \A v \in V : nbrs[v] \subseteq V /\ b[v] \subseteq V
    BY <1>2
  <2>2. ASSUME NEW e \in S
        PROVE  \E v \in V : e \in A[v]
    <3>1. e \in V \X V \X V /\ e[2] \in nbrs[e[1]] /\ e[3] \in b[e[1]]
      BY DEF Cherries, b
    <3>2. e = <<e[1], e[2], e[3]>> /\ e[1] \in V /\ <<e[2], e[3]>> \in nbrs[e[1]] \X b[e[1]]
      BY <3>1
    <3>3. e \in A[e[1]]
      BY <3>2
    <3>4. QED
      BY <3>2, <3>3
  <2>3. ASSUME NEW v \in V, NEW e \in A[v]
        PROVE  e \in S
    <3>1. PICK p \in nbrs[v] \X b[v] : e = <<v, p[1], p[2]>>
      OBVIOUS
    <3>2. p[1] \in nbrs[v] /\ p[2] \in b[v] /\ p[1] \in V /\ p[2] \in V
      BY <2>1
    <3>3. e \in V \X V \X V /\ e[1] = v /\ e[2] = p[1] /\ e[3] = p[2]
      BY <3>1, <3>2
    <3>4. QED
      BY <3>2, <3>3 DEF Cherries, b
  <2> HIDE DEF A, S
  <2>4. QED
    BY <2>2, <2>3
<1> HIDE DEF A, S
<1>6. IsFiniteSet(S) /\ Cardinality(S) <= q * Cardinality(V)
  BY <1>1, <1>3, <1>4, <1>5, BoundedPieces
<1>7. q * m = m * q
  BY <1>3
<1>8. QED
  BY <1>1, <1>6, <1>7 DEF S, V, q

\* A triple of vertices.
LEMMA TripleIs ==
  ASSUME NEW t, IsFiniteSet(t), Cardinality(t) = 3
  PROVE  \E x, y, z \in t : t = {x, y, z} /\ x # y /\ x # z /\ y # z
<1>1. t # {}
  BY FS_EmptySet
<1>2. PICK x \in t : TRUE
  BY <1>1
<1> DEFINE r == t \ {x}
<1>3. IsFiniteSet(r) /\ Cardinality(r) = 2
  BY <1>2, FS_RemoveElement
<1> HIDE DEF r
<1>4. r # {}
  BY <1>3, FS_EmptySet
<1>5. PICK y \in r : TRUE
  BY <1>4
<1> DEFINE s == r \ {y}
<1>6. IsFiniteSet(s) /\ Cardinality(s) = 1
  BY <1>3, <1>5, FS_RemoveElement
<1> HIDE DEF s
<1>7. PICK z : s = {z}
  BY <1>6, FS_Singleton
<1>8. t = {x} \cup r /\ x \notin r /\ r = {y} \cup s /\ y \notin s
  BY <1>2, <1>5 DEF r, s
<1>9. QED
  BY <1>7, <1>8

\* A triple that is no clique of the graph and none of its complement is that of
\* two cherries.
LEMMA MixedTwice ==
  ASSUME NEW m \in Nat, NEW nbrs, MasksOn(nbrs, Vertices(m)), NEW t \in Subsets(m, 3),
         t \notin CliquesIn(nbrs, Vertices(m), 3),
         t \notin CliquesIn(Others(nbrs, Vertices(m)), Vertices(m), 3)
  PROVE  \E e, f \in Cherries(nbrs, Vertices(m)) : e # f /\ Corners(e) = t /\ Corners(f) = t
<1> DEFINE V == Vertices(m)
           b == Others(nbrs, V)
           S == Cherries(nbrs, V)
<1>1. IsFiniteSet(t) /\ t \subseteq V /\ Cardinality(t) = 3
  BY SubsetsFinite DEF Subsets
<1>2. PICK x, y, z \in t : t = {x, y, z} /\ x # y /\ x # z /\ y # z
  BY <1>1, TripleIs
<1>3. ~IsClique(nbrs, t) /\ ~IsClique(b, t)
  BY <1>1 DEF CliquesIn
<1>4. \A u, v \in V : (u \in nbrs[v] <=> v \in nbrs[u]) /\ (u # v => (u \in b[v] <=> u \notin nbrs[v]))
  BY DEF MasksOn, Others
<1>5. \A u, v, w \in V : v \in nbrs[u] /\ w \in b[u] => <<u, v, w>> \in S
  BY DEF Cherries
<1>6. \A u, v, w : Corners(<<u, v, w>>) = {u, v, w}
  BY DEF Corners
<1> HIDE DEF V, b, S
<1>7. x \in V /\ y \in V /\ z \in V
  BY <1>1
<1>8. ~(y \in nbrs[x] /\ z \in nbrs[x] /\ z \in nbrs[y])
  BY <1>2, <1>3, <1>4, <1>7 DEF IsClique
<1>9. ~(y \in b[x] /\ z \in b[x] /\ z \in b[y])
  BY <1>2, <1>3, <1>4, <1>7 DEF IsClique
<1>10. ASSUME NEW u \in t, NEW v \in t, NEW w \in t, t = {u, v, w}, u # v, u # w, v # w,
              v \in nbrs[u], w \in b[u]
       PROVE  \E e, f \in S : e # f /\ Corners(e) = t /\ Corners(f) = t
  <2>1. u \in V /\ v \in V /\ w \in V
    BY <1>1
  <2>2. <<u, v, w>> \in S /\ Corners(<<u, v, w>>) = t
    BY <1>5, <1>6, <1>10, <2>1
  <2>3. CASE w \in nbrs[v]
    <3>1. v \in nbrs[w] /\ u \in b[w]
      BY <1>4, <1>10, <2>1, <2>3
    <3>2. <<w, v, u>> \in S
      BY <1>5, <2>1, <3>1
    <3>3. {w, v, u} = t /\ <<w, v, u>> # <<u, v, w>>
      BY <1>10
    <3>4. QED
      BY <1>6, <2>2, <3>2, <3>3
  <2>4. CASE w \notin nbrs[v]
    <3>1. u \in nbrs[v] /\ w \in b[v]
      BY <1>4, <1>10, <2>1, <2>4
    <3>2. <<v, u, w>> \in S
      BY <1>5, <2>1, <3>1
    <3>3. {v, u, w} = t /\ <<v, u, w>> # <<u, v, w>>
      BY <1>10
    <3>4. QED
      BY <1>6, <2>2, <3>2, <3>3
  <2>5. QED
    BY <2>3, <2>4
<1>11. \E u, v, w \in t : t = {u, v, w} /\ u # v /\ u # w /\ v # w /\ v \in nbrs[u] /\ w \in b[u]
  <2>1. CASE y \in nbrs[x] /\ z \in b[x]
    BY <1>2, <2>1
  <2>2. CASE z \in nbrs[x] /\ y \in b[x]
    <3>1. t = {x, z, y}
      BY <1>2
    <3>2. QED
      BY <1>2, <2>2, <3>1
  <2>3. CASE y \in nbrs[x] /\ z \in nbrs[x]
    <3>1. x \in nbrs[y] /\ z \in b[y]
      BY <1>2, <1>4, <1>7, <1>8, <2>3
    <3>2. t = {y, x, z}
      BY <1>2
    <3>3. QED
      BY <1>2, <3>1, <3>2
  <2>4. CASE y \in b[x] /\ z \in b[x]
    <3>1. z \in nbrs[y] /\ x \in b[y]
      BY <1>2, <1>4, <1>7, <1>9, <2>4
    <3>2. t = {y, z, x}
      BY <1>2
    <3>3. QED
      BY <1>2, <3>1, <3>2
  <2>5. QED
    BY <1>2, <1>4, <1>7, <2>1, <2>2, <2>3, <2>4
<1>12. \E e, f \in S : e # f /\ Corners(e) = t /\ Corners(f) = t
  BY <1>10, <1>11
<1>13. QED
  BY <1>12 DEF S, V

\* There are at least twice as many cherries as triples that are no clique.
LEMMA MixedFew ==
  ASSUME NEW m \in Nat, NEW nbrs, MasksOn(nbrs, Vertices(m)), NEW N3,
         N3 = {t \in Subsets(m, 3) : /\ t \notin CliquesIn(nbrs, Vertices(m), 3)
                                     /\ t \notin CliquesIn(Others(nbrs, Vertices(m)), Vertices(m), 3)}
  PROVE  2 * Cardinality(N3) <= Cardinality(Cherries(nbrs, Vertices(m)))
<1> DEFINE S == Cherries(nbrs, Vertices(m))
           Of(t) == {e \in S : Corners(e) = t}
           one == [t \in N3 |-> CHOOSE e \in Of(t) : TRUE]
           two == [t \in N3 |-> CHOOSE e \in Of(t) : e # one[t]]
           D == N3 \X {1, 2}
           f == [p \in D |-> IF p[2] = 1 THEN one[p[1]] ELSE two[p[1]]]
<1>1. IsFiniteSet(N3) /\ Cardinality(N3) \in Nat
  <2>1. IsFiniteSet(N3)
    BY SubsetsFinite, FS_Subset
  <2>2. QED
    BY <2>1, FS_CardinalityType
<1>2. IsFiniteSet(S)
  BY CherriesFew
<1>3. \A t \in N3 : \E e, h \in S : e # h /\ Corners(e) = t /\ Corners(h) = t
  BY MixedTwice
<1> HIDE DEF S
<1>4. \A t \in N3 : one[t] \in S /\ two[t] \in S /\ one[t] # two[t] /\ Corners(one[t]) = t /\ Corners(two[t]) = t
  <2> SUFFICES ASSUME NEW t \in N3
               PROVE  one[t] \in S /\ two[t] \in S /\ one[t] # two[t] /\ Corners(one[t]) = t /\ Corners(two[t]) = t
    OBVIOUS
  <2>1. PICK e \in Of(t), h \in Of(t) : e # h
    BY <1>3
  <2>2. one[t] \in Of(t)
    BY <2>1
  <2>3. two[t] = CHOOSE i \in Of(t) : i # one[t]
    OBVIOUS
  <2> HIDE DEF one, two
  <2>4. \E i \in Of(t) : i # one[t]
    BY <2>1
  <2>5. two[t] \in Of(t) /\ two[t] # one[t]
    BY <2>3, <2>4
  <2>6. QED
    BY <2>2, <2>5
<1> HIDE DEF one, two
<1>5. \A p \in D : p[1] \in N3 /\ p[2] \in {1, 2} /\ p = <<p[1], p[2]>>
  OBVIOUS
<1>6. f \in [D -> S]
  BY <1>4
<1>7. \A p, r \in D : f[p] = f[r] => p = r
  <2> SUFFICES ASSUME NEW p \in D, NEW r \in D, f[p] = f[r]
               PROVE  p = r
    OBVIOUS
  <2>1. Corners(f[p]) = p[1] /\ Corners(f[r]) = r[1]
    BY <1>4, <1>5
  <2>2. p[1] = r[1]
    BY <2>1
  <2>3. p[2] = r[2]
    BY <1>4, <1>5, <2>2
  <2>4. QED
    BY <1>5, <2>2, <2>3
<1> HIDE DEF f
<1>8. f \in Injection(D, S)
  BY <1>6, <1>7, Zenon DEF Injection, IsInjective
<1>9. Cardinality(D) = Cardinality(N3) * 2 /\ IsFiniteSet(D)
  <2>1. 1 # 2
    OBVIOUS
  <2>2. IsFiniteSet({1, 2}) /\ Cardinality({1, 2}) = 2
    BY <2>1, PairSize
  <2>3. QED
    BY <1>1, <2>2, FS_Product
<1> HIDE DEF D
<1>10. Cardinality(D) <= Cardinality(S)
  BY <1>2, <1>8, FS_Injection
<1>11. QED
  BY <1>1, <1>9, <1>10 DEF S

\* Goodman's bound: in every graph, the triangles of the graph and those of its
\* complement are together no fewer than goodman_minimum says, so that the gap
\* of goodman.rs never saturates.
THEOREM GoodmanBound ==
  ASSUME NEW m \in Nat, NEW nbrs, MasksOn(nbrs, Vertices(m))
  PROVE  CountCliques(nbrs, 3) + CountCliques(Others(nbrs, Vertices(m)), 3) >= GoodmanMinimum(m)
<1> DEFINE V == Vertices(m)
           b == Others(nbrs, V)
           all == Subsets(m, 3)
           red == CliquesIn(nbrs, V, 3)
           blue == CliquesIn(b, V, 3)
           some == red \cup blue
           none == all \ some
           x == m * (m - 1) * (m - 2)
           y == m * (((m - 1) * (m - 1)) \div 4)
           cherries == Cherries(nbrs, V)
<1>1. MasksOn(b, V) /\ IsFiniteSet(V) /\ 3 \in Nat
  BY OthersMasks DEF MasksOn
<1>2. CountCliques(nbrs, 3) = Cardinality(red) /\ CountCliques(b, 3) = Cardinality(blue)
  BY <1>1, CountExact
<1>3. IsFiniteSet(red) /\ IsFiniteSet(blue) /\ Cardinality(red) \in Nat /\ Cardinality(blue) \in Nat
  BY <1>1, CliquesFinite
<1>4. red \subseteq all /\ blue \subseteq all
  BY DEF CliquesIn, Subsets
<1>5. red \cap blue = {}
  <2> SUFFICES ASSUME NEW t \in red, t \in blue
               PROVE  FALSE
    OBVIOUS
  <2>1. t \subseteq V /\ Cardinality(t) = 3 /\ IsClique(nbrs, t) /\ IsClique(b, t)
    BY DEF CliquesIn
  <2>2. IsFiniteSet(t)
    BY <1>1, <2>1, FS_Subset
  <2>3. PICK u, v, w \in t : t = {u, v, w} /\ u # v /\ u # w /\ v # w
    BY <2>1, <2>2, TripleIs
  <2>4. v \in nbrs[u] /\ v \in b[u] /\ u \in V
    BY <2>1, <2>3 DEF IsClique
  <2>5. QED
    BY <2>4 DEF Others
<1>6. IsFiniteSet(all) /\ Cardinality(all) \in Nat /\ 6 * Cardinality(all) = x
  BY SubsetsFinite, TriplesAre
<1>7. IsFiniteSet(cherries) /\ Cardinality(cherries) <= y
  BY CherriesFew
<1>8. none = {t \in all : t \notin red /\ t \notin blue}
  OBVIOUS
<1>9. 2 * Cardinality(none) <= Cardinality(cherries)
  BY <1>8, MixedFew
<1>10. x \in Int /\ y \in Int
  <2>1. (m - 1) * (m - 1) \in Int
    OBVIOUS
  <2>2. \A z \in Int : z \div 4 \in Int /\ m * z \in Int
    OBVIOUS
  <2>3. m * (m - 1) * (m - 2) \in Int
    OBVIOUS
  <2>4. QED
    BY <2>1, <2>2, <2>3
<1>11. GoodmanMinimum(m) = IF m < 3 THEN 0 ELSE x \div 6 - y \div 2
  BY DEF GoodmanMinimum
<1> HIDE DEF all, red, blue, x, y, cherries
<1>12. IsFiniteSet(some) /\ Cardinality(some) = Cardinality(red) + Cardinality(blue) /\ some \subseteq all
  <2>1. Cardinality(red \cup blue) = Cardinality(red) + Cardinality(blue) - 0 /\ IsFiniteSet(red \cup blue)
    <3>1. /\ IsFiniteSet(red \cup blue)
          /\ Cardinality(red \cup blue) = Cardinality(red) + Cardinality(blue) - Cardinality(red \cap blue)
      BY <1>3, FS_Union, Zenon
    <3>2. Cardinality(red \cap blue) = 0
      BY <1>5, FS_EmptySet, Zenon
    <3>3. QED
      BY <3>1, <3>2, Zenon
  <2>2. QED
    BY <1>3, <1>4, <2>1
<1> HIDE DEF some
<1>13. Cardinality(none) = Cardinality(all) - Cardinality(some) /\ Cardinality(none) \in Nat
  <2>1. all \cap some = some
    BY <1>12
  <2>2. IsFiniteSet(none) /\ Cardinality(none) = Cardinality(all) - Cardinality(all \cap some)
    BY <1>6, FS_Difference
  <2>3. QED
    BY <2>1, <2>2, FS_CardinalityType
<1> HIDE DEF none
<1>14. Cardinality(cherries) \in Nat
  BY <1>7, FS_CardinalityType
<1>15. Cardinality(red) + Cardinality(blue) >= x \div 6 - y \div 2
  <2> DEFINE c == Cardinality(all)
             d == Cardinality(none)
             e == Cardinality(cherries)
  <2>1. x \div 6 = c
    <3>1. \A i \in Nat, j \in Int : j = 6 * i => j \div 6 = i
      OBVIOUS
    <3>2. QED
      BY <1>6, <1>10, <3>1
  <2>2. d <= y \div 2
    <3>1. \A i \in Nat, j \in Int : 2 * i <= j => i <= j \div 2
      OBVIOUS
    <3>2. 2 * d <= y
      BY <1>7, <1>9, <1>10, <1>13, <1>14
    <3>3. QED
      BY <1>10, <1>13, <3>1, <3>2
  <2>3. y \div 2 \in Int
    BY <1>10
  <2> HIDE DEF c, d, e
  <2>4. c \in Nat /\ d \in Nat /\ d = c - (Cardinality(red) + Cardinality(blue))
    BY <1>6, <1>12, <1>13 DEF c, d
  <2>5. QED
    BY <1>3, <2>1, <2>2, <2>3, <2>4
<1>16. Cardinality(red) + Cardinality(blue) >= GoodmanMinimum(m)
  BY <1>3, <1>11, <1>15
<1>17. QED
  BY <1>2, <1>16 DEF red, blue

\* Scores of the walk's graphs are ranked alike, and their gaps do not saturate.
LEMMA WalkIsRanked == WalkInv => RankedAlike
<1> SUFFICES ASSUME WalkInv
             PROVE  RankedAlike
  OBVIOUS
<1> DEFINE maxK == Max({target[1], target[2]})
           Other(p) == SetEdge(graph, p[1], p[2], ~Edge(graph, p[1], p[2]))
<1>1. n \in Nat /\ n <= MaxText /\ n < WordBits /\ graph.n = n
  BY WalkGraph
<1>2. maxK \in Nat
  <2> DEFINE s == {target[1], target[2]}
  <2>1. s \in SUBSET Nat /\ s # {}
    BY DEF WalkInv
  <2>2. \E u \in s : \A v \in s : u >= v
    BY <2>1
  <2>3. maxK \in s
    BY <2>2 DEF Max
  <2> HIDE DEF s, maxK
  <2>4. QED
    BY <2>1, <2>3
<1>3. ASSUME NEW p \in Slots(n)
      PROVE  ScoreLess(ScoreOf(graph, maxK), ScoreOf(Other(p), maxK)) <=>
               LexLess(ScoreBytes(ScoreOf(graph, maxK), maxK), ScoreBytes(ScoreOf(Other(p), maxK), maxK))
  <2> DEFINE h == Other(p)
  <2>1. h.n = n
    BY <1>1 DEF SetEdge
  <2> HIDE DEF h, maxK
  <2>2. ScoreLess(ScoreOf(graph, maxK), ScoreOf(h, maxK)) <=>
          LexLess(ScoreBytes(ScoreOf(graph, maxK), maxK), ScoreBytes(ScoreOf(h, maxK), maxK))
    BY <1>1, <1>2, <2>1, RankedForAll
  <2>3. QED
    BY <2>2 DEF h
<1>4. CountCliques(adj, 3) + CountCliques(comp, 3) >= GoodmanMinimum(n)
  BY <1>1, GoodmanBound DEF WalkInv
<1>5. QED
  BY <1>3, <1>4, Zenon DEF RankedAlike

-----------------------------------------------------------------------------
(***************************************************************************)
(* What holds along every walk by single flips                             *)
(***************************************************************************)

\* A graph survives its transport: its text decodes to it, under its own vertex
\* count only, and a text cut short, lengthened or damaged is refused (graph6.rs).
THEOREM TextFaithfulAlways == WalkSpec => []TextFaithful
<1>1. WalkInit => WalkInv
  BY InitWalk
<1>2. WalkInv /\ [WalkNext]_walkVars => WalkInv'
  BY NextWalk
<1>3. WalkInv => TextFaithful
  BY WalkIsFaithful
<1>4. QED
  BY <1>1, <1>2, <1>3, PTL DEF WalkSpec

\* Exchanging any two vertices changes nothing of the canonical form, and the
\* canonical form is the graph relabelled (canonical_form over nauty).
THEOREM CanonicalSharedAlways == WalkSpec => []CanonicalShared
<1>1. WalkInit => WalkInv
  BY InitWalk
<1>2. WalkInv /\ [WalkNext]_walkVars => WalkInv'
  BY NextWalk
<1>3. WalkInv => CanonicalShared
  BY WalkIsCanonical
<1>4. QED
  BY <1>1, <1>2, <1>3, PTL DEF WalkSpec

\* The workers' order of a graph and the graphs one flip away is the server's order
\* of their score bytes, and the gap of no graph saturates (score.rs, goodman.rs).
THEOREM RankedAlikeAlways == WalkSpec => []RankedAlike
<1>1. WalkInit => WalkInv
  BY InitWalk
<1>2. WalkInv /\ [WalkNext]_walkVars => WalkInv'
  BY NextWalk
<1>3. WalkInv => RankedAlike
  BY WalkIsRanked
<1>4. QED
  BY <1>1, <1>2, <1>3, PTL DEF WalkSpec

-----------------------------------------------------------------------------
(***************************************************************************)
(* No search reports a graph twice, under one labelling or another         *)
(***************************************************************************)

\* The place of a slot is within the bits of the packed triangle.
LEMMA BitInside ==
  ASSUME NEW m \in Nat, NEW q \in Slots(m)
  PROVE  BitIndex(m, q[1], q[2]) \in 0..(TotalBits(m) - 1)
<1> DEFINE i == q[1]
           j == q[2]
           b == BitIndex(m, i, j)
           total == TotalBits(m)
           d == m - i
<1>1. i \in Nat /\ j \in Nat /\ i < j /\ j <= m - 1 /\ m >= 2 /\ q \in Vertices(m) \X Vertices(m)
  BY DEF Slots, Vertices
<1>2. 2 * ((i * (i + 1)) \div 2) = i * (i + 1) /\ (i * (i + 1)) \div 2 \in Int
  <2>1. i * (i + 1) \in Int
    BY <1>1
  <2>2. QED
    BY <1>1, <2>1, Halves
<1>3. total \in Int /\ 2 * total = m * (m - 1)
  <2>1. (m - 1) * ((m - 1) + 1) = m * (m - 1) /\ m - 1 \in Nat
    BY <1>1
  <2>2. 2 * (((m - 1) * ((m - 1) + 1)) \div 2) = (m - 1) * ((m - 1) + 1)
    BY <2>1, Halves
  <2>3. total = (m * (m - 1)) \div 2
    BY <1>1 DEF TotalBits
  <2>4. m * (m - 1) \in Int
    OBVIOUS
  <2>5. QED
    BY <2>1, <2>2, <2>3, <2>4
<1>4. b \in Int /\ 2 * b = 2 * (i * m) - i * (i + 1) + 2 * (j - i - 1)
  <2> DEFINE h == (i * (i + 1)) \div 2
             im == i * m
             ii == i * (i + 1)
  <2>1. b = im - h + (j - i - 1)
    BY DEF BitIndex
  <2>2. im \in Int /\ h \in Int /\ 2 * h = ii
    BY <1>1, <1>2
  <2> HIDE DEF h, im, ii, b
  <2>3. b \in Int /\ 2 * b = 2 * im - ii + 2 * (j - i - 1)
    BY <1>1, <2>1, <2>2
  <2>4. QED
    BY <2>3 DEF im, ii
<1> HIDE DEF b, total
<1>5. b >= 0
  <2>1. 2 * (i * m) - i * (i + 1) = i * (2 * m - i - 1)
    BY <1>1
  <2>2. 2 * m - i - 1 \in Nat
    BY <1>1
  <2>3. \A x, y \in Nat : x * y \in Nat
    OBVIOUS
  <2>4. i * (2 * m - i - 1) \in Nat
    BY <1>1, <2>2, <2>3
  <2> HIDE DEF i, j
  <2>5. 2 * b >= 0
    BY <1>1, <1>4, <2>1, <2>4
  <2>6. QED
    BY <1>4, <2>5
<1>6. b <= total - 1
  <2>1. d \in Nat /\ d >= 2 /\ i = m - d
    BY <1>1
  <2>2. 2 * (j - i - 1) <= 2 * (m - i) - 4
    BY <1>1
  <2>3. (d - 1) * (d - 2) \in Nat
    <3>1. d - 1 \in Nat /\ d - 2 \in Nat
      BY <2>1
    <3>2. \A x, y \in Nat : x * y \in Nat
      OBVIOUS
    <3>3. QED
      BY <3>1, <3>2
  <2>4. m * (m - 1) - 2 - (2 * (i * m) - i * (i + 1) + 2 * (m - i) - 4) = (d - 1) * (d - 2)
    BY <1>1
  <2> DEFINE x == m * (m - 1)
             y == 2 * (i * m) - i * (i + 1)
             z == (d - 1) * (d - 2)
  <2>5. x \in Int /\ y \in Int /\ z \in Nat /\ x - 2 - (y + 2 * (m - i) - 4) = z
    BY <1>1, <2>3, <2>4
  <2>6. 2 * b = y + 2 * (j - i - 1) /\ 2 * total = x
    BY <1>3, <1>4
  <2> HIDE DEF x, y, z, i, j, d
  <2>7. 2 * b <= 2 * total - 2
    BY <1>1, <2>2, <2>5, <2>6
  <2>8. QED
    BY <1>3, <1>4, <2>7
<1>7. QED
  BY <1>3, <1>4, <1>5, <1>6 DEF b, total, i, j

\* Every graph made of masks is a graph of the job's size.
LEMMA GraphsAre ==
  /\ \A nbrs : GraphOf(nbrs) \in AllGraphs(N)
  /\ N \in Nat /\ N <= MaxText
<1>1. N \in Nat /\ N <= MaxText
  BY JobAssumption
<1>2. ASSUME NEW nbrs
      PROVE  GraphOf(nbrs) \in AllGraphs(N)
  <2>1. \A q \in Slots(N) : BitIndex(N, q[1], q[2]) \in 0..(TotalBits(N) - 1)
    BY <1>1, BitInside
  <2>2. QED
    BY <2>1 DEF GraphOf, GraphWith, AllGraphs
<1>3. QED
  BY <1>1, <1>2

\* A step that gives g to on_discovery, if it gives anything.
TellsAtMost(g) == Discover(g) \/ UNCHANGED <<known, reported>>

\* Every step of a strategy or of the polish tells of one graph of the job's size,
\* or of none.
LEMMA StepTells ==
  ASSUME JobInv, [Next]_vars
  PROVE  \E g \in AllGraphs(N) : TellsAtMost(g)
<1> DEFINE Told == \E g \in AllGraphs(N) : TellsAtMost(g)
<1>1. job.seed \in AllGraphs(N)
  BY JobsAssumption DEF JobInv
<1>2. \A nbrs : GraphOf(nbrs) \in AllGraphs(N)
  BY GraphsAre
<1>3. UNCHANGED <<known, reported>> => Told
  BY <1>1 DEF TellsAtMost
<1>4. TellsAtMost(job.seed) => Told
  BY <1>1
<1>5. \A nbrs : TellsAtMost(GraphOf(nbrs)) => Told
  BY <1>2
<1> SUFFICES Told
  OBVIOUS
<1> HIDE DEF Told
<1>6. CASE UNCHANGED vars \/ Stopped
  BY <1>3, <1>6 DEF Stopped, vars, jobVars
<1>7. CASE Polishing
  <2>1. CASE PolishStep
    <3>1. PICK move : \E r : IF r THEN Discover(GraphOf(Flip(walk.adj, move.slot))) ELSE UNCHANGED <<known, reported>>
      BY <2>1, Zenon DEF PolishStep
    <3>2. TellsAtMost(GraphOf(Flip(walk.adj, move.slot)))
      BY <3>1 DEF TellsAtMost
    <3>3. QED
      BY <1>5, <3>2
  <2>2. CASE PolishEndWalk
    BY <1>3, <2>2 DEF PolishEndWalk
  <2>3. CASE UNCHANGED <<known, reported>>
    BY <1>3, <2>3
  <2>4. QED
    BY <1>7, <2>1, <2>2, <2>3 DEF Polishing
<1>8. CASE TabuNext
  <2>1. CASE TabuStart
    <3>1. TellsAtMost(job.seed)
      BY <2>1 DEF TabuStart, TellsAtMost
    <3>2. QED
      BY <1>4, <3>1
  <2>2. CASE TabuIterate
    <3>1. ASSUME NEW p, NEW from, NEW delta, TabuMove(p, from, delta)
          PROVE  Told
      <4>1. TellsAtMost(GraphOf(Flip(tabu.adj, p)))
        BY <3>1 DEF TabuMove, TellsAtMost
      <4>2. QED
        BY <1>5, <4>1
    <3>2. QED
      BY <2>2, <3>1, Zenon DEF TabuIterate
  <2>3. CASE TabuFinish
    BY <1>3, <2>3 DEF TabuFinish
  <2>4. QED
    BY <1>8, <2>1, <2>2, <2>3 DEF TabuNext
<1>9. CASE TreeNext
  <2>1. CASE TreeStart
    <3>1. TellsAtMost(job.seed)
      BY <2>1 DEF TreeStart, TellsAtMost
    <3>2. QED
      BY <1>4, <3>1
  <2>2. CASE TreeTry
    <3>1. TellsAtMost(GraphOf(Flip(beam[parent].adj, Head(todo))))
      BY <2>2 DEF TreeTry, TellsAtMost
    <3>2. QED
      BY <1>5, <3>1
  <2>3. CASE TreeDepth \/ TreeParent \/ TreeNextParent \/ TreeSkip \/ TreeNextBeam \/ TreeFinish
    BY <1>3, <2>3 DEF TreeDepth, TreeParent, TreeNextParent, TreeSkip, TreeNextBeam, TreeFinish
  <2>4. QED
    BY <1>9, <2>1, <2>2, <2>3 DEF TreeNext
<1>10. CASE AnnealNext
  <2>1. CASE AnnealStart
    <3>1. TellsAtMost(job.seed)
      BY <2>1 DEF AnnealStart, TellsAtMost
    <3>2. QED
      BY <1>4, <3>1
  <2>2. CASE AnnealIterate
    <3>1. ASSUME NEW p, AnnealAccept(p)
          PROVE  Told
      <4>1. TellsAtMost(GraphOf(Flip(anneal.adj, p)))
        BY <3>1 DEF AnnealAccept, TellsAtMost
      <4>2. QED
        BY <1>5, <4>1
    <3>2. CASE AnnealReject
      BY <1>3, <3>2 DEF AnnealReject
    <3>3. QED
      BY <2>2, <3>1, <3>2, Zenon DEF AnnealIterate
  <2>3. CASE AnnealFinish
    BY <1>3, <2>3 DEF AnnealFinish
  <2>4. QED
    BY <1>10, <2>1, <2>2, <2>3 DEF AnnealNext
<1>11. QED
  BY <1>6, <1>7, <1>8, <1>9, <1>10, Zenon DEF Next, Strategy, Done

\* The table holds the canonical CID of each graph.
LEMMA CidIs ==
  ASSUME NEW g \in AllGraphs(N)
  PROVE  Cid(g) = CanonicalCid(g) /\ g.n = N
<1> DEFINE table == [h \in AllGraphs(N) |-> CanonicalCid(h)]
<1>1. CidTable = table
  BY Zenon DEF CidTable
<1>2. QED
  BY <1>1 DEF Cid, AllGraphs

\* There are as many slots as bits.
LEMMA SlotsCounted ==
  ASSUME NEW m \in Nat
  PROVE  IsFiniteSet(Slots(m)) /\ Cardinality(Slots(m)) = TotalBits(m)
<1> DEFINE s(i) == Cardinality(Slots(i))
<1>1. \A i \in Nat : IsFiniteSet(Slots(i)) /\ s(i) \in Nat
  <2> SUFFICES ASSUME NEW i \in Nat
               PROVE  IsFiniteSet(Slots(i)) /\ s(i) \in Nat
    OBVIOUS
  <2>1. IsFiniteSet(Vertices(i) \X Vertices(i))
    BY VerticesAre, FS_Product
  <2>2. Slots(i) \in SUBSET (Vertices(i) \X Vertices(i))
    BY DEF Slots
  <2>3. QED
    BY <2>1, <2>2, FS_Subset, FS_CardinalityType
<1>2. s(0) = 0
  <2>1. Slots(0) = {}
    BY DEF Slots, Vertices
  <2>2. QED
    BY <2>1, FS_EmptySet
<1>3. \A i \in Nat : s(i + 1) = s(i) + i
  <2> SUFFICES ASSUME NEW i \in Nat
               PROVE  s(i + 1) = s(i) + i
    OBVIOUS
  <2> DEFINE more == {<<v, i>> : v \in Vertices(i)}
             f == [v \in Vertices(i) |-> <<v, i>>]
  <2>1. f \in Bijection(Vertices(i), more)
    <3>1. f \in [Vertices(i) -> more] /\ \A v, w \in Vertices(i) : f[v] = f[w] => v = w
      OBVIOUS
    <3>2. \A e \in more : \E v \in Vertices(i) : f[v] = e
      OBVIOUS
    <3>3. QED
      BY <3>1, <3>2, Zenon DEF Bijection, Injection, Surjection, IsInjective
  <2>2. IsFiniteSet(more) /\ Cardinality(more) = i
    <3>1. ExistsBijection(Vertices(i), more)
      BY <2>1, Zenon DEF ExistsBijection
    <3>2. QED
      BY <3>1, VerticesAre, FS_Bijection
  <2>3. Slots(i + 1) = Slots(i) \cup more
    <3>1. Slots(i + 1) \subseteq Slots(i) \cup more
      BY DEF Slots, Vertices
    <3>2. Slots(i) \cup more \subseteq Slots(i + 1)
      BY DEF Slots, Vertices
    <3>3. QED
      BY <3>1, <3>2
  <2>4. Slots(i) \cap more = {}
    BY DEF Slots, Vertices
  <2> HIDE DEF more, f
  <2>5. Cardinality(Slots(i) \cup more) = Cardinality(Slots(i)) + Cardinality(more) - Cardinality(Slots(i) \cap more)
    BY <1>1, <2>2, FS_Union
  <2>6. Cardinality(Slots(i) \cap more) = 0
    BY <2>4, FS_EmptySet
  <2>7. \A e \in Nat : e + i - 0 = e + i
    OBVIOUS
  <2>8. s(i) \in Nat /\ s(i + 1) = s(i) + i - 0
    BY <1>1, <2>2, <2>3, <2>5, <2>6, Zenon
  <2> HIDE DEF s
  <2>9. QED
    BY <2>7, <2>8
<1> DEFINE G == {i \in Nat : 2 * s(i) = i * (i - 1)}
<1> HIDE DEF s
<1>4. 0 \in G
  BY <1>2
<1>5. \A i \in G : i + 1 \in G
  <2> SUFFICES ASSUME NEW i \in G
               PROVE  i + 1 \in G
    OBVIOUS
  <2> DEFINE x == i * (i - 1)
  <2>1. i \in Nat /\ 2 * s(i) = x /\ s(i) \in Nat /\ s(i + 1) = s(i) + i
    BY <1>1, <1>3
  <2>2. (i + 1) * ((i + 1) - 1) = x + 2 * i /\ x \in Int
    BY <2>1
  <2> HIDE DEF x, G
  <2>3. 2 * s(i + 1) = x + 2 * i
    <3>1. \A e, d \in Nat : d = e + i => 2 * d = 2 * e + 2 * i
      BY <2>1
    <3>2. s(i + 1) \in Nat /\ s(i) \in Nat
      BY <1>1, <2>1
    <3>3. 2 * s(i + 1) = 2 * s(i) + 2 * i
      BY <2>1, <3>1, <3>2
    <3>4. QED
      BY <2>1, <3>3
  <2>4. 2 * s(i + 1) = (i + 1) * ((i + 1) - 1)
    BY <2>2, <2>3, Zenon
  <2>5. i + 1 \in Nat
    BY <2>1
  <2>6. QED
    BY <2>4, <2>5, Zenon DEF G
<1>6. G = Nat
  <2> HIDE DEF G
  <2>1. G \in SUBSET Nat
    BY DEF G
  <2>2. QED
    BY <1>4, <1>5, <2>1, NatInductive
<1>7. 2 * s(m) = m * (m - 1) /\ s(m) \in Nat
  BY <1>1, <1>6
<1>8. s(m) = TotalBits(m)
  <2>1. CASE m < 2
    BY <1>7, <2>1 DEF TotalBits
  <2>2. CASE m >= 2
    <3> DEFINE x == m * (m - 1)
    <3>1. TotalBits(m) = x \div 2 /\ x = 2 * s(m)
      BY <1>7, <2>2 DEF TotalBits
    <3>2. \A q \in Nat : (2 * q) \div 2 = q
      OBVIOUS
    <3>3. QED
      BY <1>7, <3>1, <3>2
  <2>3. QED
    BY <2>1, <2>2
<1>9. QED
  BY <1>1, <1>8 DEF s

\* Each bit of the packed triangle is that of a slot.
LEMMA BitHasSlot ==
  ASSUME NEW m \in Nat, NEW b \in 0..(TotalBits(m) - 1)
  PROVE  \E q \in Slots(m) : BitIndex(m, q[1], q[2]) = b
<1> DEFINE bits == 0..(TotalBits(m) - 1)
           f == [q \in Slots(m) |-> BitIndex(m, q[1], q[2])]
<1>1. f \in [Slots(m) -> bits]
  BY BitInside
<1>2. \A p, q \in Slots(m) : f[p] = f[q] => p = q
  BY BitsApart
<1>3. f \in Injection(Slots(m), bits)
  BY <1>1, <1>2, Zenon DEF Injection, IsInjective
<1>4. TotalBits(m) \in Nat
  BY SlotsCounted, FS_CardinalityType
<1>5. IsFiniteSet(bits) /\ Cardinality(bits) = TotalBits(m)
  BY <1>4, FS_Interval
<1> HIDE DEF f
<1>6. f \in Surjection(Slots(m), bits)
  BY <1>3, <1>5, SlotsCounted, FS_Injection
<1>7. \E q \in Slots(m) : f[q] = b
  BY <1>6, Zenon DEF Surjection
<1>8. QED
  BY <1>7 DEF f

\* Every graph of a size is packed from its slots: no bit is outside the triangle.
LEMMA GraphsPacked ==
  ASSUME NEW m \in Nat, NEW g \in AllGraphs(m)
  PROVE  \E E \in SUBSET Slots(m) : g = Packing(m, E)
<1> DEFINE E == {q \in Slots(m) : BitIndex(m, q[1], q[2]) \in g.bits}
           bits == {BitIndex(m, p[1], p[2]) : p \in E}
<1>1. g = [n |-> m, bits |-> g.bits] /\ g.bits \subseteq 0..(TotalBits(m) - 1)
  BY DEF AllGraphs
<1>2. bits = g.bits
  <2>1. bits \subseteq g.bits
    OBVIOUS
  <2>2. g.bits \subseteq bits
    BY <1>1, BitHasSlot
  <2>3. QED
    BY <2>1, <2>2
<1>3. g = Packing(m, E)
  BY <1>1, <1>2 DEF Packing
<1>4. E \in SUBSET Slots(m)
  OBVIOUS
<1> HIDE DEF E
<1>5. QED
  BY <1>3, <1>4

\* The graphs reported are graphs of the job's size.
GraphsReported == reported \in Seq(AllGraphs(N))

\* Every step keeps to them.
LEMMA GraphsReportedStep ==
  ASSUME JobInv, GraphsReported, [Next]_vars
  PROVE  GraphsReported'
<1>1. PICK g \in AllGraphs(N) : TellsAtMost(g)
  BY StepTells
<1>2. reported' = reported \/ reported' = Append(reported, g)
  BY <1>1 DEF TellsAtMost, Discover
<1>3. reported \in Seq(AllGraphs(N))
  BY DEF GraphsReported
<1>4. reported' \in Seq(AllGraphs(N))
  BY <1>2, <1>3
<1>5. QED
  BY <1>4 DEF GraphsReported

\* As many CIDs as graphs in a list: no two have one CID.
LEMMA CidsApart ==
  ASSUME NEW s, IsList(s), IsFiniteSet(Cids(s)), Cardinality(Cids(s)) = Len(s)
  PROVE  \A i, j \in DOMAIN s : Cid(s[i]) = Cid(s[j]) => i = j
<1> DEFINE f == [i \in DOMAIN s |-> Cid(s[i])]
           T == Cids(s)
<1>1. Len(s) \in Nat /\ DOMAIN s = 1..Len(s)
  BY ListIs
<1>2. f \in Surjection(DOMAIN s, T)
  <2>1. f \in [DOMAIN s -> T] /\ \A t \in T : \E i \in DOMAIN s : f[i] = t
    BY Zenon DEF Cids
  <2>2. QED
    BY <2>1, Zenon DEF Surjection
<1>3. IsFiniteSet(DOMAIN s) /\ Cardinality(DOMAIN s) = Len(s)
  <2>1. \A k \in Nat : IsFiniteSet(1..k) /\ Cardinality(1..k) = k
    BY FS_Interval
  <2>2. QED
    BY <1>1, <2>1
<1> HIDE DEF T
<1>4. IsFiniteSet(T) /\ Cardinality(DOMAIN s) = Cardinality(T)
  BY <1>3 DEF T
<1> HIDE DEF f
<1>5. f \in Injection(DOMAIN s, T)
  BY <1>2, <1>3, <1>4, FS_SurjSameCardinalityImpliesInj, Zenon
<1>6. \A i, j \in DOMAIN s : f[i] = f[j] => i = j
  BY <1>5, Zenon DEF Injection, IsInjective
<1>7. QED
  BY <1>6, Zenon DEF f

\* A graph with its vertices permuted has the same CID.
LEMMA PermutedCid ==
  ASSUME NEW g \in AllGraphs(N), NEW h \in AllGraphs(N), NEW perm \in Labellings(N), h = PermuteVertices(g, perm)
  PROVE  CanonicalCid(g) = CanonicalCid(h)
<1>1. N \in Nat /\ N <= MaxText
  BY GraphsAre
<1>2. PICK E \in SUBSET Slots(N) : g = Packing(N, E)
  BY <1>1, GraphsPacked
<1>3. CanonicalForm(PermuteVertices(g, perm)) = CanonicalForm(g)
  BY <1>1, <1>2, CanonicalForAll
<1>4. QED
  BY <1>3 DEF CanonicalCid

\* No graph given to on_discovery is another one of them with its vertices permuted,
\* nor a graph with its vertices permuted whose CID the job knew: compared by the
\* graphs themselves, not by their CIDs.
NoneTwice ==
  \A i \in DOMAIN reported, perm \in Labellings(N) :
    /\ \A j \in DOMAIN reported : i # j => reported[i] # PermuteVertices(reported[j], perm)
    /\ \A g \in AllGraphs(N) : CanonicalCid(g) \in job.known => reported[i] # PermuteVertices(g, perm)

\* Whatever the strategy, its polish, its restarts and its random choices, no search
\* reports one graph under two labellings, or one that the job knew under another
\* (canonical_form, compute_cid and known_cids together).
THEOREM NoneTwiceAlways == Spec => []NoneTwice
<1>1. Init => GraphsReported
  <2>1. Init => reported = <<>>
    BY Zenon DEF Init
  <2>2. <<>> \in Seq(AllGraphs(N))
    OBVIOUS
  <2>3. QED
    BY <2>1, <2>2 DEF GraphsReported
<1>2. SearchInv /\ GraphsReported /\ [Next]_vars => GraphsReported'
  BY GraphsReportedStep DEF SearchInv
<1>3. HonestInv /\ GraphsReported => NoneTwice
  <2> SUFFICES ASSUME HonestInv, GraphsReported, NEW i \in DOMAIN reported, NEW perm \in Labellings(N)
               PROVE  /\ \A j \in DOMAIN reported : i # j => reported[i] # PermuteVertices(reported[j], perm)
                      /\ \A g \in AllGraphs(N) : CanonicalCid(g) \in job.known => reported[i] # PermuteVertices(g, perm)
    BY Zenon DEF NoneTwice
  <2>1. /\ IsList(reported) /\ IsFiniteSet(Cids(reported)) /\ Cardinality(Cids(reported)) = Len(reported)
        /\ Cids(reported) \cap job.known = {}
    BY DEF HonestInv, ReportInv
  <2>2. \A j \in DOMAIN reported : reported[j] \in AllGraphs(N)
    BY DEF GraphsReported
  <2>3. \A g \in AllGraphs(N) : reported[i] = PermuteVertices(g, perm) => CanonicalCid(g) = Cid(reported[i])
    BY <2>2, CidIs, PermutedCid
  <2>4. ASSUME NEW j \in DOMAIN reported, i # j
        PROVE  reported[i] # PermuteVertices(reported[j], perm)
    <3>1. Cid(reported[i]) # Cid(reported[j])
      BY <2>1, <2>4, CidsApart
    <3>2. Cid(reported[j]) = CanonicalCid(reported[j])
      BY <2>2, CidIs
    <3>3. QED
      BY <2>2, <2>3, <3>1, <3>2
  <2>5. Cid(reported[i]) \notin job.known
    BY <2>1 DEF Cids
  <2>6. QED
    BY <2>3, <2>4, <2>5
<1>4. QED
  BY <1>1, <1>2, <1>3, SearchInvAlways, HonestInvAlways, PTL DEF Spec
=============================================================================
