-------------------------------- MODULE Tree2 --------------------------------
(***************************************************************************)
(* The beam search (tree2.rs), a worker's default strategy: at each depth  *)
(* every graph of the beam is tried with single flips, graphs whose        *)
(* fingerprint was seen are skipped, valid ones are reported and polished, *)
(* and the best candidates make the next beam.  The fingerprints seen are  *)
(* handed on to the next round.                                            *)
(***************************************************************************)
EXTENDS Polish

CONSTANTS
  BeamWidth,      \* beam_width
  MaxDepth,       \* max_depth
  ScoreBias,      \* score_bias_threshold
  Restarts,       \* polish_ils_restarts
  MaxPolish,      \* max_polish_per_depth, 0 for no limit
  MaxCarry,       \* MAX_CARRY_SIZE (50 000 in the code)
  FullEvery,      \* a new beam is recounted at every so many depths (5)
  HashBits        \* bound: low bits of the 64-bit fingerprint that are kept

ASSUME Tree2Assumption ==
  /\ {BeamWidth, MaxDepth, ScoreBias, Restarts, MaxPolish, MaxCarry} \subseteq Nat
  /\ FullEvery \in Nat \ {0} /\ HashBits \in 1..16

VARIABLES
  beam,         \* sequence of [adj, comp, kc, ei]
  seen,         \* fingerprints seen
  depth,        \* depths begun
  slots,        \* depth_edges
  parent,       \* index of the parent being tried
  todo,         \* its slots still to try
  candidates,   \* sequence of [parent, slot, kc, ei]
  polishes      \* polish_calls of the depth

treeVars == <<beam, seen, depth, slots, parent, todo, candidates, polishes>>

\* The exclusive or of two words of HashBits bits.
Xor(a, b) ==
  LET bits == {k \in 0..(HashBits - 1) : (a \div 2^k) % 2 # (b \div 2^k) % 2}
  IN  MapThenSumSet(LAMBDA k : 2^k, bits)

\* The low HashBits bits of fast_fingerprint: FNV-1a over the masks.
Fingerprint(adj) ==
  LET mod == 2^HashBits
      Word(mask) == MapThenSumSet(LAMBDA b : 2^b, mask) % mod
  IN  FoldLeft(LAMBDA h, v : (Xor(h, Word(adj[v - 1])) * 435) % mod,
               8997 % mod, [v \in 1..N |-> v])

EntryOf(adj, comp) ==
  [adj |-> adj, comp |-> comp, kc |-> CountCliques(adj, K), ei |-> CountCliques(comp, Ell)]

Flaws(entry) == entry.kc + entry.ei

TreeInit ==
  /\ beam = <<>> /\ seen = {} /\ depth = 0 /\ slots = {} /\ parent = 0
  /\ todo = <<>> /\ candidates = <<>> /\ polishes = 0

TreeStart ==
  LET entry == EntryOf(FromAdj(job.seed), FromAdj(Complement(job.seed)))
      valid == Flaws(entry) = 0
  IN  /\ job.strategy = "tree2" /\ pc = "start"
      /\ beam' = <<entry>>
      /\ seen' = job.carry \cup {Fingerprint(entry.adj)}
      /\ IF valid THEN Discover(job.seed) ELSE UNCHANGED <<known, reported>>
      /\ bestValid' = IF valid /\ IsNovel(job.seed) THEN job.seed ELSE NoGraph
      /\ bestInvalid' = IF valid THEN NoBest ELSE [graph |-> job.seed, violations |-> Flaws(entry)]
      /\ pc' = "depth"
      /\ UNCHANGED <<job, cancelled, iters, result, depth, slots, parent, todo, candidates,
                     polishes, polishVars>>

DepthEnds == depth = MaxDepth \/ iters >= job.maxIters \/ beam = <<>> \/ cancelled

TreeDepth ==
  /\ job.strategy = "tree2" /\ pc = "depth" /\ ~DepthEnds
  /\ LET least == Min({Flaws(beam[i]) : i \in DOMAIN beam})
         best == beam[Min({i \in DOMAIN beam : Flaws(beam[i]) = least})]
     IN  slots' = IF job.focused /\ least > 0 THEN FocusedSlots(best.adj, best.comp) ELSE Slots(N)
  /\ parent' = 0 /\ todo' = <<>> /\ candidates' = <<>> /\ polishes' = 0
  /\ pc' = "parent"
  /\ UNCHANGED <<job, known, reported, cancelled, iters, bests, result, beam, seen, depth,
                 polishVars>>

\* Finitely many things in the order of their keys.
Ordered(key) ==
  [x \in 1..Cardinality(DOMAIN key) |->
     CHOOSE p \in DOMAIN key : Cardinality({q \in DOMAIN key : LexLess(key[q], key[p])}) = x - 1]

\* The flips a parent may try: a random choice, in random order, of as many as
\* its share of the budget; all in order when they fit or the share is nothing.
Tries(index) ==
  LET count == Cardinality(slots)
      share == (job.maxIters - iters) \div Max({Len(beam) - index, 1})
  IN  IF share > 0 /\ count > share
      THEN {s \in [1..share -> slots] : IsInjective(s)}
      ELSE {Ordered([p \in slots |-> p])}

\* A mutant: one flip over the budget.
OutOfTimeLate == iters > job.maxIters \/ cancelled

OutOfTime == iters >= job.maxIters \/ cancelled

ParentsEnd == parent = Len(beam) \/ OutOfTime

TreeParent ==
  /\ job.strategy = "tree2" /\ pc = "parent" /\ ~ParentsEnd
  /\ todo' \in Tries(parent)
  /\ parent' = parent + 1 /\ pc' = "flip"
  /\ UNCHANGED <<job, known, reported, cancelled, iters, bests, result, beam, seen, depth, slots,
                 candidates, polishes, polishVars>>

\* The parent has no more slots to try, or the search is out of time.
TreeNextParent ==
  /\ job.strategy = "tree2" /\ pc = "flip" /\ phase = "idle"
  /\ todo = <<>> \/ OutOfTime
  /\ pc' = "parent"
  /\ UNCHANGED <<job, known, reported, cancelled, iters, bests, result, treeVars, polishVars>>

\* Flip, look the fingerprint up, flip back.
TreeSkip ==
  /\ job.strategy = "tree2" /\ pc = "flip" /\ phase = "idle" /\ todo # <<>> /\ ~OutOfTime
  /\ Fingerprint(Flip(beam[parent].adj, Head(todo))) \in seen
  /\ todo' = Tail(todo)
  /\ UNCHANGED <<job, pc, known, reported, cancelled, iters, bests, result, beam, seen, depth,
                 slots, parent, candidates, polishes, polishVars>>

TreeTry ==
  /\ job.strategy = "tree2" /\ pc = "flip" /\ phase = "idle" /\ todo # <<>> /\ ~OutOfTime
  /\ LET p == Head(todo)
         from == beam[parent]
         adj == Flip(from.adj, p)
         delta == ViolationDelta(from.adj, from.comp, K, Ell, p[1], p[2])
         kc == Max({0, from.kc + delta[1]})
         ei == Max({0, from.ei + delta[2]})
         g == GraphOf(adj)
         valid == kc + ei = 0 /\ ViolationsOf(g) = 0
         polishing == valid /\ (MaxPolish = 0 \/ polishes < MaxPolish)
     IN  /\ Fingerprint(adj) \notin seen
         /\ seen' = seen \cup {Fingerprint(adj)}
         /\ candidates' = Append(candidates, [parent |-> parent, slot |-> p, kc |-> kc, ei |-> ei])
         /\ IF valid THEN Discover(g) ELSE UNCHANGED <<known, reported>>
         /\ bestValid' = IF valid /\ IsNovel(g) THEN g ELSE bestValid
         /\ polishes' = IF polishing THEN polishes + 1 ELSE polishes
         /\ IF polishing THEN PolishBegin(g, Restarts) ELSE NoPolish
         /\ bestInvalid' =
              IF kc + ei > 0 /\ (bestInvalid = NoBest \/ kc + ei < bestInvalid.violations)
              THEN [graph |-> g, violations |-> kc + ei] ELSE bestInvalid
  /\ todo' = Tail(todo)
  /\ iters' = iters + 1
  /\ UNCHANGED <<job, pc, cancelled, result, beam, depth, slots, parent>>

\* Fewest violations first, then, when they are few, the most balanced; the
\* sort is stable.
SortKey(c, i) ==
  LET violations == c.kc + c.ei
      imbalance == IF c.kc >= c.ei THEN c.kc - c.ei ELSE c.ei - c.kc
  IN  <<violations, IF violations <= ScoreBias THEN imbalance ELSE 0, i>>

Selected(found) ==
  LET order == Ordered([i \in DOMAIN found |-> SortKey(found[i], i)])
  IN  [x \in 1..Min({Len(found), BeamWidth}) |-> found[order[x]]]

\* A beam entry built anew from its parent: counted again at some depths,
\* else with the counts the deltas gave.
Materialized(c) ==
  LET adj == Flip(beam[c.parent].adj, c.slot)
      comp == Flip(beam[c.parent].comp, c.slot)
  IN  IF depth % FullEvery = 0 THEN EntryOf(adj, comp)
      ELSE [adj |-> adj, comp |-> comp, kc |-> c.kc, ei |-> c.ei]

TreeNextBeam ==
  /\ job.strategy = "tree2" /\ pc = "parent" /\ ParentsEnd /\ candidates # <<>>
  /\ LET kept == Selected(candidates) IN beam' = [x \in DOMAIN kept |-> Materialized(kept[x])]
  /\ depth' = depth + 1
  /\ pc' = "depth"
  /\ slots' = {} /\ parent' = 0 /\ todo' = <<>> /\ candidates' = <<>> /\ polishes' = 0
  /\ UNCHANGED <<job, known, reported, cancelled, iters, bests, result, seen, polishVars>>

\* The depths are over, or a depth found nothing unseen; of too many
\* fingerprints any may be forgotten.
TreeFinish ==
  /\ job.strategy = "tree2"
  /\ \/ pc = "depth" /\ DepthEnds
     \/ pc = "parent" /\ ParentsEnd /\ candidates = <<>>
  /\ \E carry \in kSubset(Min({Cardinality(seen), MaxCarry}), seen) : Finish(iters, carry)
  /\ UNCHANGED <<job, known, reported, cancelled, iters, bests, treeVars, polishVars>>

TreeNext == \/ TreeStart \/ TreeDepth \/ TreeParent \/ TreeNextParent
            \/ TreeSkip \/ TreeTry \/ TreeNextBeam \/ TreeFinish
=============================================================================
