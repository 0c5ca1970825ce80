------------------------------ MODULE SearchJob ------------------------------
(***************************************************************************)
(* What every search strategy is given and gives back (extremal-worker-api *)
(* strategy.rs, observer.rs): the job, the canonical CIDs it knows, the    *)
(* observer that collects its discoveries and may cancel it, its result.   *)
(* The strategies are modules Tabu, Tree2 and Annealing, the polishing of  *)
(* their finds is module Polish, module Search runs them.                  *)
(***************************************************************************)
EXTENDS Cliques

CONSTANTS
  N,            \* vertices
  K, Ell        \* target_k, target_ell

ASSUME JobAssumption == N \in 2..MaxText /\ N < WordBits /\ K \in Nat /\ Ell \in Nat

VARIABLES
  job,          \* the SearchJob: [strategy, seed, maxIters, known, focused, carry]
  pc,           \* where the strategy is
  known,        \* its known_cids
  reported,     \* the graphs given to on_discovery, in order
  cancelled,    \* is_cancelled()
  iters,        \* iterations used
  bestValid,    \* best_valid
  bestInvalid,  \* best_invalid: [graph, violations]
  result        \* the SearchResult

jobVars == <<job, pc, known, reported, cancelled, iters, bestValid, bestInvalid, result>>
bests == <<bestValid, bestInvalid>>

NoGraph == NewGraph(0)
NoBest == [graph |-> NoGraph, violations |-> 0]
NoResult == [valid |-> FALSE, best |-> NoGraph, used |-> 0, carry |-> {}]

GraphOf(adj) == GraphWith(N, LAMBDA i, j : HasEdge(adj, i, j))

Violations(adj, comp) == CountCliques(adj, K) + CountCliques(comp, Ell)

ViolationsOf(g) == Violations(FromAdj(g), FromAdj(Complement(g)))

Cost(adj, comp, p) ==
  LET delta == ViolationDelta(adj, comp, K, Ell, p[1], p[2]) IN delta[1] + delta[2]

\* The canonical CID of every graph of the job's size (compared with itself, so
\* that TLC works the table out once, instead of at every look).
CidTable == CHOOSE table \in {[g \in AllGraphs(N) |-> CanonicalCid(g)]} : table = table
Cid(g) == CidTable[g]

IsNovel(g) == Cid(g) \notin known

\* A mutant: the known CIDs are only those of the job, not those reported since.
DiscoverAgain(g) ==
  IF Cid(g) \in job.known THEN UNCHANGED <<known, reported>>
  ELSE reported' = Append(reported, g) /\ UNCHANGED known

\* known_cids.insert, and on_discovery when the CID is new.
Discover(g) ==
  IF ~IsNovel(g) THEN UNCHANGED <<known, reported>>
  ELSE known' = known \cup {Cid(g)} /\ reported' = Append(reported, g)

\* The slots a focused strategy flips: the guilty ones, or all if there are none.
FocusedSlots(adj, comp) ==
  LET guilty == GuiltyEdges(adj, comp, K, Ell) IN IF guilty = {} THEN Slots(N) ELSE guilty

\* The first of the slots, in the order of the scan, whose key is least.
FirstLeast(slots, key) ==
  LET keyed == [p \in slots |-> key[p] \o p]
  IN  CHOOSE p \in slots : \A q \in slots \ {p} : LexLess(keyed[p], keyed[q])

\* The slots whose tenure is over at iteration i.
Free(until, slots, i) == {p \in slots : until[p] <= i}

\* A move that is tabu but sets a record wins over a free one only if better.
Chosen(free, records, key) ==
  LET F == FirstLeast(free, key)
      R == FirstLeast(records, key)
  IN  IF free = {} \/ (records # {} /\ LexLess(key[R], key[F])) THEN R ELSE F

\* A mutant: the invalid graph is looked at first.
FinishInvalidFirst(used, carry) ==
  /\ pc' = "done"
  /\ result' = [valid |-> bestValid # NoGraph,
                best |-> IF bestInvalid # NoBest THEN bestInvalid.graph ELSE bestValid,
                used |-> used, carry |-> carry]

\* The end of a search: the last valid graph kept, or else the best invalid one.
Finish(used, carry) ==
  /\ pc' = "done"
  /\ result' = [valid |-> bestValid # NoGraph,
                best |-> IF bestValid # NoGraph THEN bestValid ELSE bestInvalid.graph,
                used |-> used, carry |-> carry]

\* The observer asks the strategy to end, at its next look.  The trait allows it;
\* the observers of the engine keep its default and never do.
Cancel ==
  /\ pc # "done" /\ ~cancelled
  /\ cancelled' = TRUE
=============================================================================
