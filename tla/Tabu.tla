-------------------------------- MODULE Tabu --------------------------------
(***************************************************************************)
(* The tabu strategy (tabu.rs): one trajectory, the best flip that is not  *)
(* tabu or that sets a record, valid graphs reported and polished.         *)
(***************************************************************************)
EXTENDS Polish

CONSTANTS
  TabuTenure,     \* tabu_tenure
  RecountEvery    \* recount_interval (500 in the code)

ASSUME TabuAssumption == TabuTenure \in Nat /\ RecountEvery \in Nat \ {0}

VARIABLE tabu     \* [adj, comp, violations, until, bestEver]

NoTabu == [adj |-> <<>>]

TabuStart ==
  LET adj == FromAdj(job.seed)
      comp == FromAdj(Complement(job.seed))
      violations == Violations(adj, comp)
  IN  /\ job.strategy = "tabu" /\ pc = "start"
      /\ tabu' = [adj |-> adj, comp |-> comp, violations |-> violations,
                  until |-> [p \in Slots(N) |-> 0], bestEver |-> violations]
      /\ bestInvalid' = [graph |-> job.seed, violations |-> violations]
      /\ IF violations > 0
         THEN UNCHANGED <<known, reported, bestValid>> /\ NoPolish
         ELSE /\ Discover(job.seed)
              /\ bestValid' = IF IsNovel(job.seed) THEN job.seed ELSE NoGraph
              /\ IF PolishSteps > 0 THEN PolishBegin(job.seed, 0) ELSE NoPolish
      /\ pc' = "loop"
      /\ UNCHANGED <<job, cancelled, iters, result>>

\* Tabu or free, the moves that leave fewer violations than ever before.
Aspiring(delta, from) == {p \in DOMAIN delta : Max({0, from + delta[p][1]}) < tabu.bestEver}

TabuMove(p, from, delta) ==
  LET i == iters + 1
      adj == Flip(tabu.adj, p)
      comp == Flip(tabu.comp, p)
      g == GraphOf(adj)
      predicted == Max({0, from + delta})
      actual == Violations(adj, comp)
  IN  /\ tabu' = [adj |-> adj, comp |-> comp,
                  violations |-> IF predicted = 0 THEN actual ELSE predicted,
                  until |-> [tabu.until EXCEPT ![p] = i + TabuTenure],
                  bestEver |-> Min({tabu.bestEver, predicted})]
      /\ bestInvalid' = IF predicted > 0 /\ predicted < bestInvalid.violations
                        THEN [graph |-> g, violations |-> predicted] ELSE bestInvalid
      /\ IF predicted = 0 /\ actual = 0
         THEN /\ Discover(g)
              /\ bestValid' = IF IsNovel(g) THEN g ELSE bestValid
              /\ IF PolishSteps > 0 THEN PolishBegin(g, 0) ELSE NoPolish
         ELSE UNCHANGED <<known, reported, bestValid>> /\ NoPolish
      /\ iters' = i

TabuIterate ==
  /\ job.strategy = "tabu" /\ pc = "loop" /\ phase = "idle"
  /\ iters < job.maxIters /\ ~cancelled
  /\ LET i == iters + 1
         from == IF i % RecountEvery = 0 THEN Violations(tabu.adj, tabu.comp) ELSE tabu.violations
         slots == IF job.focused /\ from > 0 THEN FocusedSlots(tabu.adj, tabu.comp) ELSE Slots(N)
         delta == [p \in slots |-> <<Cost(tabu.adj, tabu.comp, p)>>]
         free == Free(tabu.until, slots, i)
         records == Aspiring(delta, from)
     IN  IF free \cup records # {}
         THEN LET p == Chosen(free, records, delta) IN TabuMove(p, from, delta[p][1])
         ELSE \E p \in Slots(N) : TabuMove(p, from, Cost(tabu.adj, tabu.comp, p))
  /\ UNCHANGED <<job, pc, cancelled, result>>

\* The result always claims the whole budget.
TabuFinish ==
  /\ job.strategy = "tabu" /\ pc = "loop" /\ phase = "idle"
  /\ iters = job.maxIters \/ cancelled
  /\ Finish(job.maxIters, {})
  /\ UNCHANGED <<job, known, reported, cancelled, iters, bests, tabu, polishVars>>

TabuNext == TabuStart \/ TabuIterate \/ TabuFinish
=============================================================================
