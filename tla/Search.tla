-------------------------------- MODULE Search --------------------------------
(***************************************************************************)
(* A search job run by one of the strategies, with its polishing, while    *)
(* the worker may cancel it at any moment.                                 *)
(***************************************************************************)
EXTENDS Tabu, Tree2, Annealing

CONSTANT Jobs     \* bound: the jobs tried

ASSUME JobsAssumption == \A j \in Jobs :
  /\ j.strategy \in {"tabu", "tree2", "sa"} /\ j.maxIters \in Nat
  /\ j.seed \in AllGraphs(N) /\ IsFiniteSet(j.carry)

vars == <<jobVars, polishVars, tabu, treeVars, anneal>>

Init ==
  /\ job \in Jobs
  /\ known = job.known
  /\ pc = "start" /\ reported = <<>> /\ cancelled = FALSE /\ iters = 0
  /\ bestValid = NoGraph /\ bestInvalid = NoBest /\ result = NoResult
  /\ phase = "idle" /\ walk = NoWalk /\ ils = NoIls /\ polished = NoGraph
  /\ tabu = NoTabu /\ anneal = NoAnneal /\ TreeInit

Strategy ==
  \/ TabuNext /\ UNCHANGED <<treeVars, anneal>>
  \/ TreeNext /\ UNCHANGED <<tabu, anneal>>
  \/ AnnealNext /\ UNCHANGED <<polishVars, tabu, treeVars>>

Polishing ==
  /\ \/ PolishStep /\ UNCHANGED bestValid
     \/ PolishEndWalk /\ UNCHANGED bestValid
     \/ PolishReturn /\ UNCHANGED <<known, reported>>
  /\ UNCHANGED <<job, pc, cancelled, iters, bestInvalid, result, tabu, treeVars, anneal>>

Stopped ==
  /\ Cancel
  /\ UNCHANGED <<job, pc, known, reported, iters, bests, result, polishVars, tabu, treeVars, anneal>>

Done == pc = "done" /\ UNCHANGED vars

Next == Strategy \/ Polishing \/ Stopped \/ Done

Spec == Init /\ [][Next]_vars

-----------------------------------------------------------------------------

IsValid(g) == ViolationsOf(g) = 0

Cids(graphs) == {Cid(graphs[i]) : i \in DOMAIN graphs}

\* Whatever the strategy, and through polishing and perturbation, every graph
\* given to on_discovery is valid, none of them was known to the job, and no
\* two of them are isomorphic: nothing is scored or submitted twice.
ReportsNew ==
  /\ \A i \in DOMAIN reported : IsValid(reported[i])
  /\ Cids(reported) \cap job.known = {}
  /\ Cardinality(Cids(reported)) = Len(reported)

\* The counts a search steers by are those of the graph it stands on, whatever
\* number of flips made it: the tabu trajectory, every entry of the beam, the
\* annealed graph and the score of a polish walk.
CountsTrue ==
  /\ tabu # NoTabu => tabu.violations = Violations(tabu.adj, tabu.comp)
  /\ anneal # NoAnneal => anneal.violations = Violations(anneal.adj, anneal.comp)
  /\ \A i \in DOMAIN beam : beam[i] = EntryOf(FromAdj(GraphOf(beam[i].adj)),
                                              FromAdj(Complement(GraphOf(beam[i].adj))))
  /\ phase = "walk" => walk.score = Counts(walk.adj, walk.comp)

\* A polish walk never leaves the valid graphs, and what polishing returns is
\* valid and scores strictly better than the graph it was given.
PolishGains ==
  /\ phase = "walk" => IsValid(GraphOf(walk.adj)) /\ IsValid(walk.best)
  /\ phase = "walk" /\ ils.best # NoGraph => IsValid(ils.best)
  /\ phase = "back" /\ polished # NoGraph =>
       IsValid(polished) /\ LexLess(ScoreValid(polished), ScoreValid(ils.from))

\* What a search hands back: a graph called valid is valid, and is (up to
\* isomorphism) one it has reported or the job knew, so that the engine loses
\* nothing when its limit of scorings ends before the best graph, which is pushed
\* behind the discoveries; only a beam search that polishes with restarts may
\* hand back a perturbed graph that it never reported.  Without one, a valid
\* graph is handed back only if its CID was already known.
ResultHonest ==
  pc = "done" =>
    /\ result.valid /\ result.best # NoGraph =>
         /\ IsValid(result.best)
         /\ \/ Cid(result.best) \in job.known \cup Cids(reported)
            \/ job.strategy = "tree2" /\ Restarts > 0
    /\ ~result.valid /\ result.best # NoGraph /\ IsValid(result.best) => ~IsNovel(result.best)

\* The beam search keeps to its budget: of flips scored, of beam entries, of
\* polishing runs in a depth, of fingerprints carried to the next round; and no
\* fingerprint is scored twice.
BudgetKept ==
  /\ iters <= job.maxIters
  /\ Len(beam) <= Max({1, BeamWidth})
  /\ MaxPolish > 0 => polishes <= MaxPolish
  /\ Cardinality(result.carry) <= MaxCarry
  /\ job.strategy = "tree2" => iters <= Cardinality(seen \ job.carry)

\* What a search still has ahead of it, the weightiest first: depths, parents,
\* slots, iterations, then the walks and steps of the polish it is in.
Remaining ==
  <<CASE pc = "start" -> 2 [] pc = "done" -> 0 [] OTHER -> 1,
    MaxDepth - depth, IF pc = "depth" THEN 1 ELSE 0, Len(beam) - parent,
    IF pc = "flip" THEN 1 + Len(todo) ELSE 0, job.maxIters - iters,
    CASE phase = "walk" -> 2 [] phase = "back" -> 1 [] phase = "idle" -> 0,
    ils.left, PolishSteps - walk.step, IF cancelled THEN 0 ELSE 1>>

\* Every search ends: each step, polishing and restarts included, leaves less
\* ahead of it, in numbers that cannot fall for ever (and the run's deadlock
\* check: none is stuck before its result).
SearchEnds == [][LexLess(Remaining', Remaining) /\ Remaining' \in Seq(Nat)]_vars
=============================================================================
