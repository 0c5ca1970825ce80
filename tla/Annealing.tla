------------------------------ MODULE Annealing ------------------------------
(***************************************************************************)
(* The simulated annealing of the experiments crate (sa.rs).  The          *)
(* temperature only weighs a coin: a worsening flip may or may not be      *)
(* taken.                                                                  *)
(***************************************************************************)
EXTENDS SearchJob

VARIABLE anneal   \* [adj, comp, violations, best (best_graph), least (best_violations)]

NoAnneal == [adj |-> <<>>]

AnnealStart ==
  LET adj == FromAdj(job.seed)
      comp == FromAdj(Complement(job.seed))
      violations == Violations(adj, comp)
      found == violations = 0 /\ IsNovel(job.seed)
  IN  /\ job.strategy = "sa" /\ pc = "start"
      /\ anneal' = [adj |-> adj, comp |-> comp, violations |-> violations,
                    best |-> IF found THEN job.seed ELSE NoGraph, least |-> violations]
      /\ IF violations = 0 THEN Discover(job.seed) ELSE UNCHANGED <<known, reported>>
      /\ pc' = "loop"
      /\ UNCHANGED <<job, cancelled, iters, bests, result>>

\* A random slot is turned down: only a worsening flip may be.
AnnealReject ==
  /\ \E p \in Slots(N) : Cost(anneal.adj, anneal.comp, p) > 0
  /\ UNCHANGED <<anneal, known, reported>>

AnnealAccept(p) ==
  LET adj == Flip(anneal.adj, p)
      violations == anneal.violations + Cost(anneal.adj, anneal.comp, p)
      record == violations < anneal.least
  IN  /\ anneal' = [adj |-> adj, comp |-> Flip(anneal.comp, p), violations |-> violations,
                    best |-> IF record THEN GraphOf(adj) ELSE anneal.best,
                    least |-> IF record THEN violations ELSE anneal.least]
      /\ IF violations = 0 THEN Discover(GraphOf(adj)) ELSE UNCHANGED <<known, reported>>

AnnealIterate ==
  /\ job.strategy = "sa" /\ pc = "loop" /\ iters < job.maxIters /\ ~cancelled
  /\ AnnealReject \/ \E p \in Slots(N) : AnnealAccept(p)
  /\ iters' = iters + 1
  /\ UNCHANGED <<job, pc, cancelled, bests, result>>

AnnealFinish ==
  /\ job.strategy = "sa" /\ pc = "loop" /\ (iters = job.maxIters \/ cancelled)
  /\ pc' = "done"
  /\ result' = [valid |-> reported # <<>>, best |-> anneal.best, used |-> job.maxIters, carry |-> {}]
  /\ UNCHANGED <<job, known, reported, cancelled, iters, bests, anneal>>

AnnealNext == AnnealStart \/ AnnealIterate \/ AnnealFinish
=============================================================================
