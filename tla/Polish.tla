------------------------------- MODULE Polish -------------------------------
(***************************************************************************)
(* The polishing of a valid graph (polish.rs): tabu walks over the valid   *)
(* graphs towards a better score, separated by random perturbations, each  *)
(* novel improvement reported.  A strategy calls it and waits for its      *)
(* answer; it never looks at the cancellation.                             *)
(***************************************************************************)
EXTENDS SearchJob

CONSTANTS
  PolishSteps,    \* max_steps
  PolishTenure,   \* tabu_tenure of the walk
  PolishRecount,  \* recount_interval (100 in the code)
  ReportEvery,    \* a graph that is no record is reported every so many steps (20)
  PerturbFlips    \* perturb_edges

ASSUME PolishAssumption ==
  /\ {PolishSteps, PolishTenure, PerturbFlips} \subseteq Nat
  /\ {PolishRecount, ReportEvery} \subseteq Nat \ {0}

VARIABLES
  phase,        \* "idle", "walk" while polishing, "back" when it has returned
  walk,         \* the walk of polish_valid_graph
  ils,          \* the walks of ils_polish: [from, left, start, best, bestScore]
  polished      \* what it returned, NoGraph for None

polishVars == <<phase, walk, ils, polished>>

\* Four-cliques and triangles, red and blue.
Counts(adj, comp) ==
  [r4 |-> CountCliques(adj, 4), b4 |-> CountCliques(comp, 4),
   r3 |-> CountCliques(adj, 3), b3 |-> CountCliques(comp, 3)]

ScoreTuple(s) ==
  <<Max({s.r4, s.b4}), Min({s.r4, s.b4}), Max({s.r3, s.b3}), Min({s.r3, s.b3})>>

\* A mutant: the change of the triangles is taken for that of the four-cliques.
Drifted(s, d4, d3) ==
  [r4 |-> Max({0, s.r4 + d4[1]}), b4 |-> Max({0, s.b4 + d4[2]}),
   r3 |-> Max({0, s.r3 + d4[1]}), b3 |-> Max({0, s.b3 + d4[2]})]

Shifted(s, d4, d3) ==
  [r4 |-> Max({0, s.r4 + d4[1]}), b4 |-> Max({0, s.b4 + d4[2]}),
   r3 |-> Max({0, s.r3 + d3[1]}), b3 |-> Max({0, s.b3 + d3[2]})]

ScoreValid(g) == ScoreTuple(Counts(FromAdj(g), FromAdj(Complement(g))))

\* A walk that has not stepped yet.
WalkFrom(g) ==
  LET adj == FromAdj(g)
      comp == FromAdj(Complement(g))
      score == Counts(adj, comp)
  IN  [adj |-> adj, comp |-> comp, score |-> score, step |-> 0,
       best |-> g, bestScore |-> ScoreTuple(score), improved |-> FALSE,
       tabu |-> [p \in Slots(N) |-> 0]]

NoWalk == [step |-> 0]
NoIls == [left |-> 0]

\* A mutant: every flip counts as valid-preserving.
AnyMove(adj, comp) == Slots(N)

ValidMoves(adj, comp) == {p \in Slots(N) : Cost(adj, comp, p) = 0}

PolishScore(w) == IF (w.step + 1) % PolishRecount = 0 THEN Counts(w.adj, w.comp) ELSE w.score

\* The move of the next step with the score it leads to, if there is one: the
\* best of those that keep the graph valid and are free or set a record.
NextMove(w) ==
  LET score == PolishScore(w)
      after == [p \in ValidMoves(w.adj, w.comp) |->
                  Shifted(score, ViolationDelta(w.adj, w.comp, 4, 4, p[1], p[2]),
                                 ViolationDelta(w.adj, w.comp, 3, 3, p[1], p[2]))]
      tuple == [p \in DOMAIN after |-> ScoreTuple(after[p])]
      free == Free(w.tabu, DOMAIN after, w.step + 1)
      records == {p \in DOMAIN after : LexLess(tuple[p], w.bestScore)}
  IN  IF free \cup records = {} THEN {}
      ELSE {[slot |-> p, score |-> after[p]] : p \in {Chosen(free, records, tuple)}}

PolishBegin(g, restarts) ==
  /\ phase' = "walk"
  /\ walk' = WalkFrom(g)
  /\ ils' = [from |-> g, left |-> restarts, start |-> g, best |-> NoGraph, bestScore |-> ScoreValid(g)]
  /\ polished' = NoGraph

\* One step of the walk.
PolishStep ==
  /\ phase = "walk" /\ walk.step < PolishSteps
  /\ \E move \in NextMove(walk) :
       LET s == walk.step + 1
           adj == Flip(walk.adj, move.slot)
           record == LexLess(ScoreTuple(move.score), walk.bestScore)
       IN  /\ walk' = [adj |-> adj, comp |-> Flip(walk.comp, move.slot),
                       score |-> move.score, step |-> s,
                       best |-> IF record THEN GraphOf(adj) ELSE walk.best,
                       bestScore |-> IF record THEN ScoreTuple(move.score) ELSE walk.bestScore,
                       improved |-> walk.improved \/ record,
                       tabu |-> [walk.tabu EXCEPT ![move.slot] = s + PolishTenure]]
           /\ IF record \/ s % ReportEvery = 0 THEN Discover(GraphOf(adj))
              ELSE UNCHANGED <<known, reported>>
  /\ UNCHANGED <<phase, ils, polished>>

\* What one random flip that keeps a graph valid may make of it, if it has one.
Nudges(h) ==
  LET moves == ValidMoves(h.adj, h.comp)
  IN  IF moves = {} THEN {h}
      ELSE {[adj |-> Flip(h.adj, p), comp |-> Flip(h.comp, p)] : p \in moves}

\* What f such flips may make of g, from what one less may.
Nudged(g, f, fewer) ==
  IF f = 0 THEN {[adj |-> FromAdj(g), comp |-> FromAdj(Complement(g))]}
  ELSE UNION {Nudges(h) : h \in fewer}

\* The graphs perturb_valid may make: flips that keep the graph valid, as many
\* as asked for or until there is none.
PerturbValid(g, flips) ==
  LET after[f \in 0..flips] == Nudged(g, f, after[f - 1])
  IN  {GraphOf(h.adj) : h \in after[flips]}

\* A mutant: a walk that found a better graph does not use up a restart.
AgainIfBetter(g, best, score) ==
  [ils EXCEPT !.left = IF best = ils.best THEN @ - 1 ELSE @,
              !.start = g, !.best = best, !.bestScore = score]

\* The next of the walks, from g.
Again(g, best, score) ==
  [ils EXCEPT !.left = @ - 1, !.start = g, !.best = best, !.bestScore = score]

\* A walk is over: keep its optimum if it beats all before, then walk on from a
\* perturbation of it, or return.
PolishEndWalk ==
  /\ phase = "walk"
  /\ walk.step = PolishSteps \/ NextMove(walk) = {}
  /\ LET optimum == IF walk.improved THEN walk.best ELSE ils.start
         better == LexLess(ScoreValid(optimum), ils.bestScore)
         best == IF better THEN optimum ELSE ils.best
     IN  IF ils.left = 0
         THEN /\ phase' = "back" /\ polished' = best
              /\ walk' = NoWalk /\ UNCHANGED ils
         ELSE \E g \in PerturbValid(optimum, PerturbFlips) :
              /\ walk' = WalkFrom(g)
              /\ ils' = Again(g, best, IF better THEN ScoreValid(optimum) ELSE ils.bestScore)
              /\ UNCHANGED <<phase, polished>>
  /\ UNCHANGED <<known, reported>>

\* The caller takes the answer.
PolishReturn ==
  /\ phase = "back"
  /\ bestValid' = IF polished # NoGraph THEN polished ELSE bestValid
  /\ phase' = "idle" /\ polished' = NoGraph /\ ils' = NoIls
  /\ UNCHANGED walk

NoPolish == phase' = "idle" /\ UNCHANGED <<walk, ils, polished>>
=============================================================================
