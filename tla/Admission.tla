------------------------------ MODULE Admission ------------------------------
(***************************************************************************)
(* Store::try_admit (extremal-store/src/lib.rs), one SQL statement per     *)
(* step, run by several transactions on the leaderboard of one n.          *)
(*                                                                         *)
(* The transactions run at PostgreSQL's default level, READ COMMITTED:     *)
(* a statement sees the rows committed when it starts and the effects of   *)
(* the earlier statements of its own transaction.  A DELETE takes a row    *)
(* lock that lasts until the transaction ends; whoever wants the same row, *)
(* to delete it or to insert the same key, waits for that end.             *)
(***************************************************************************)
EXTENDS Ranking

CONSTANTS
  Txs,        \* the pooled connections that may run try_admit at the same time
  Overlap     \* which transactions overlap: "none", those of "distinct" graphs, "any"

ASSUME OverlapAssumption == Overlap \in {"none", "distinct", "any"}

None == 0     \* no graph

VARIABLES
  board,      \* committed rows of table leaderboard
  rank,       \* column rank of each committed row, 0 where there is no row
  decided,    \* graphs whose try_admit returned Ok so far (history)
  pc,         \* the next statement of each transaction
  graph,      \* its arguments cid and score_bytes
  worst,      \* its worst_cid
  newRank,    \* its new_rank
  ins,        \* rows it has inserted and not committed
  del,        \* rows it has deleted and not committed: it holds their locks
  todo        \* rows its trim has selected and not reached yet

local == <<graph, worst, newRank, ins, del, todo>>
vars  == <<board, rank, decided, pc, local>>

Stmts == {"check", "count", "worst", "evict", "rank", "insert", "trim",
          "trimming", "commit"}

Active(t) == pc[t] # "idle"

Goto(t, to) == pc' = [pc EXCEPT ![t] = to]

\* What a statement of t sees: the committed rows under t's own changes.
View(t) == (board \cup ins[t]) \ del[t]

\* The other transactions that hold row x, having deleted or inserted it.
Holders(t, x) == {u \in Txs \ {t} : x \in ins[u] \cup del[u]}

\* A mutant of IsTail: ORDER BY score_bytes ASC.
IsHead(V, S, k) ==
  /\ V \subseteq S
  /\ Cardinality(V) = k
  /\ \A x \in V, y \in S \ V : x < y

\* ORDER BY score_bytes DESC LIMIT k: V is the k worst rows of S.
IsTail(V, S, k) ==
  /\ V \subseteq S
  /\ Cardinality(V) = k
  /\ \A x \in V, y \in S \ V : y < x

\* A mutant of Excess: the trim takes one row too many.
ExcessAndOne(S) == IF Cardinality(S) > Capacity THEN Cardinality(S) - Capacity + 1 ELSE 0

\* GREATEST(0, COUNT(*) - capacity)
Excess(S) == IF Cardinality(S) > Capacity THEN Cardinality(S) - Capacity ELSE 0

-----------------------------------------------------------------------------
Init ==
  /\ board = {}
  /\ rank = [x \in Graphs |-> 0]
  /\ decided = {}
  /\ pc = [t \in Txs |-> "idle"]
  /\ graph = [t \in Txs |-> None]
  /\ worst = [t \in Txs |-> None]
  /\ newRank = [t \in Txs |-> 0]
  /\ ins = [t \in Txs |-> {}]
  /\ del = [t \in Txs |-> {}]
  /\ todo = [t \in Txs |-> {}]

\* The environment: which requests arrive while others are being served.
Arrives(g) ==
  /\ Overlap = "none" => \A u \in Txs : ~Active(u)
  /\ Overlap = "distinct" => \A u \in Txs : graph[u] # g

Begin(t, g) ==
  /\ ~Active(t)
  /\ Arrives(g)
  /\ graph' = [graph EXCEPT ![t] = g]
  /\ Goto(t, "check")
  /\ UNCHANGED <<board, rank, decided, worst, newRank, ins, del, todo>>

\* trim_leaderboard when a server starts and finds the board over capacity:
\* the trim statement alone, in a transaction of its own.
BeginTrim(t) ==
  /\ ~Active(t)
  /\ Overlap = "none" => \A u \in Txs : ~Active(u)
  /\ Cardinality(board) > Capacity
  /\ Goto(t, "trim")
  /\ UNCHANGED <<board, rank, decided, local>>

\* A mutant of Close: the locks outlive the transaction.
CloseKeepingLocks(t, gone) ==
  /\ Goto(t, "idle")
  /\ graph' = [graph EXCEPT ![t] = None]
  /\ worst' = [worst EXCEPT ![t] = None]
  /\ newRank' = [newRank EXCEPT ![t] = 0]
  /\ ins' = [ins EXCEPT ![t] = {}]
  /\ UNCHANGED del
  /\ todo' = [u \in Txs |-> IF u = t THEN {} ELSE todo[u] \ gone]

\* The transaction ends: its locks are released, and the rows it removed are
\* gone for every trim that has selected them.
Close(t, gone) ==
  /\ Goto(t, "idle")
  /\ graph' = [graph EXCEPT ![t] = None]
  /\ worst' = [worst EXCEPT ![t] = None]
  /\ newRank' = [newRank EXCEPT ![t] = 0]
  /\ ins' = [ins EXCEPT ![t] = {}]
  /\ del' = [del EXCEPT ![t] = {}]
  /\ todo' = [u \in Txs |-> IF u = t THEN {} ELSE todo[u] \ gone]

\* Ok(None): nothing was written.
ReturnNone(t) ==
  /\ decided' = decided \cup {graph[t]}
  /\ Close(t, {})
  /\ UNCHANGED <<board, rank>>

CheckExisting(t) ==
  /\ pc[t] = "check"
  /\ \/ /\ graph[t] \in View(t)
        /\ ReturnNone(t)
     \/ /\ graph[t] \notin View(t)
        /\ Goto(t, "count")
        /\ UNCHANGED <<board, rank, decided, local>>

\* A mutant of Full: > for >=.
OverFull(S) == Cardinality(S) > Capacity

\* if count >= capacity
Full(S) == Cardinality(S) >= Capacity

CountRows(t) ==
  /\ pc[t] = "count"
  /\ Goto(t, IF Full(View(t)) THEN "worst" ELSE "rank")
  /\ UNCHANGED <<board, rank, decided, local>>

\* A mutant of NotBetter: the comparison is dropped and everything is admitted.
NeverRefused(g, w) == FALSE

\* if score_bytes >= worst_score
NotBetter(g, w) == g >= w

ReadWorst(t) ==
  /\ pc[t] = "worst"
  /\ \/ /\ View(t) = {}                  \* no row at all: nothing to evict
        /\ Goto(t, "rank")
        /\ UNCHANGED <<board, rank, decided, local>>
     \/ \E w \in View(t) :
          /\ IsTail({w}, View(t), 1)
          /\ \/ /\ NotBetter(graph[t], w)
                /\ ReturnNone(t)
             \/ /\ ~NotBetter(graph[t], w)
                /\ worst' = [worst EXCEPT ![t] = w]
                /\ Goto(t, "evict")
                /\ UNCHANGED <<board, rank, decided, graph, newRank, ins, del, todo>>

\* DELETE ... WHERE cid = worst_cid: no row when another transaction removed it.
EvictWorst(t) ==
  /\ pc[t] = "evict"
  /\ Holders(t, worst[t]) = {}
  /\ del' = [del EXCEPT ![t] = @ \cup ({worst[t]} \cap View(t))]
  /\ Goto(t, "rank")
  /\ UNCHANGED <<board, rank, decided, graph, worst, newRank, ins, todo>>

\* better_count + 1
Position(g, S) == Cardinality({x \in S : x < g}) + 1

CountBetter(t) ==
  /\ pc[t] = "rank"
  /\ newRank' = [newRank EXCEPT ![t] = Position(graph[t], View(t))]
  /\ Goto(t, "insert")
  /\ UNCHANGED <<board, rank, decided, graph, worst, ins, del, todo>>

\* ON CONFLICT (n, cid) DO NOTHING, whoever committed the row meanwhile.
InsertRow(t) ==
  /\ pc[t] = "insert"
  /\ Holders(t, graph[t]) = {}
  /\ ins' = [ins EXCEPT ![t] = {graph[t]} \ board]
  /\ Goto(t, "trim")
  /\ UNCHANGED <<board, rank, decided, graph, worst, newRank, del, todo>>

\* The subselect of the trim: the rows beyond capacity, as seen now.
SelectExcess(t) ==
  /\ pc[t] = "trim"
  /\ \E V \in SUBSET View(t) :
       /\ IsTail(V, View(t), Excess(View(t)))
       /\ todo' = [todo EXCEPT ![t] = V]
  /\ Goto(t, "trimming")
  /\ UNCHANGED <<board, rank, decided, graph, worst, newRank, ins, del>>

\* The DELETE around it locks the selected rows one by one, in no fixed order.
TrimRow(t) ==
  /\ pc[t] = "trimming"
  /\ \E x \in todo[t] :
       /\ Holders(t, x) = {}
       /\ del' = [del EXCEPT ![t] = @ \cup {x}]
       /\ todo' = [todo EXCEPT ![t] = @ \ {x}]
  /\ UNCHANGED <<board, rank, decided, pc, graph, worst, newRank, ins>>

TrimDone(t) ==
  /\ pc[t] = "trimming"
  /\ todo[t] = {}
  /\ Goto(t, "commit")
  /\ UNCHANGED <<board, rank, decided, local>>

\* Ok(Some(new_rank))
Commit(t) ==
  /\ pc[t] = "commit"
  /\ board' = View(t)
  /\ rank' = [x \in Graphs |-> IF x \in del[t] THEN 0
                               ELSE IF x \in ins[t] THEN newRank[t] ELSE rank[x]]
  /\ decided' = decided \cup ({graph[t]} \ {None})
  /\ Close(t, del[t])

\* A statement fails, the request's future is dropped by the 30 s timeout, or
\* the server dies: the transaction is rolled back.
Abort(t) ==
  /\ Active(t)
  /\ Close(t, {})
  /\ UNCHANGED <<board, rank, decided>>

-----------------------------------------------------------------------------
(***************************************************************************)
(* Waiting for row locks.                                                  *)
(***************************************************************************)
Wants(t) ==
  CASE pc[t] = "evict"    -> {worst[t]}
    [] pc[t] = "insert"   -> {graph[t]}
    [] pc[t] = "trimming" -> todo[t]
    [] OTHER              -> {}

Blocked(t) == Wants(t) # {} /\ \A x \in Wants(t) : Holders(t, x) # {}

WaitCycle(D) ==
  \A u \in D : Blocked(u) /\ D \cap UNION {Holders(u, x) : x \in Wants(u)} # {}

\* PostgreSQL's deadlock detector cancels a member of a cycle of waiters.
DeadlockVictim(t) ==
  /\ \E D \in SUBSET Txs : t \in D /\ WaitCycle(D)
  /\ Abort(t)

Statement(t) ==
  \/ CheckExisting(t) \/ CountRows(t) \/ ReadWorst(t) \/ EvictWorst(t)
  \/ CountBetter(t) \/ InsertRow(t) \/ SelectExcess(t) \/ TrimRow(t)
  \/ TrimDone(t) \/ Commit(t)

Next ==
  \E t \in Txs :
    \/ \E g \in Graphs : Begin(t, g)
    \/ BeginTrim(t)
    \/ Statement(t)
    \/ Abort(t)

Spec == Init /\ [][Next]_vars

\* PostgreSQL answers every statement, grants a row lock to the first waiter,
\* and breaks deadlocks; nothing obliges a transaction to begin or to fail.
FairSpec ==
  /\ Spec
  /\ \A t \in Txs : SF_vars(Statement(t)) /\ WF_vars(DeadlockVictim(t))

-----------------------------------------------------------------------------
(***************************************************************************)
(* The types, and: outside a transaction nothing is locked or pending.     *)
(***************************************************************************)
TypeOK ==
  /\ board \subseteq Graphs
  /\ rank \in [Graphs -> Nat]
  /\ decided \subseteq Graphs
  /\ pc \in [Txs -> Stmts \cup {"idle"}]
  /\ graph \in [Txs -> Graphs \cup {None}]
  /\ worst \in [Txs -> Graphs \cup {None}]
  /\ newRank \in [Txs -> Nat]
  /\ ins \in [Txs -> SUBSET Graphs]
  /\ del \in [Txs -> SUBSET Graphs]
  /\ todo \in [Txs -> SUBSET Graphs]
  /\ \A t \in Txs : ~Active(t) => ins[t] \cup del[t] \cup todo[t] = {}

(***************************************************************************)
(* Whatever the overlap of transactions on distinct graphs, with stale     *)
(* worst rows, evictions that find nothing and several trims at once: a    *)
(* graph that was evicted, trimmed or refused is never one of the best     *)
(* Capacity.  The board always holds the best Capacity of what it decided. *)
(***************************************************************************)
TopKept == \A g \in decided \ board : Beaten(g, board)

(***************************************************************************)
(* Why TopKept holds.  After(t) is the board if t ended now, Gone(t) what  *)
(* t takes from it.  Whenever t takes anything, Capacity rows better than  *)
(* all it takes would remain, whatever commits meanwhile: of two           *)
(* transactions, the one that takes the better row vouches for the other.  *)
(***************************************************************************)
Mine(t) == {graph[t]} \ {None}
Gone(t) == del[t] \cup todo[t]
After(t) == (board \cup Mine(t)) \ Gone(t)
Safe(t) == {b \in After(t) : \A x \in Gone(t) : b < x}

\* What t has written, by statement.
Written(t) ==
  /\ pc[t] = "idle" => graph[t] = None
  /\ pc[t] \in {"check", "count", "worst", "evict"} => del[t] = {}
  /\ pc[t] # "trimming" => todo[t] = {}
  /\ ins[t] = IF pc[t] \in {"trim", "trimming", "commit"} THEN Mine(t) ELSE {}
  /\ pc[t] \notin {"idle", "trim", "trimming", "commit"} => graph[t] # None

\* Nobody else lists or carries t's graph.
Alone(t) ==
  /\ pc[t] # "check" => graph[t] \notin board
  /\ \A u \in Txs \ {t} : graph[t] # None => graph[u] # graph[t]

\* What t has read of the board is still good enough.
Read(t) ==
  /\ pc[t] = "worst" => Cardinality(board) >= Capacity
  /\ pc[t] = "evict" => /\ worst[t] \in Graphs
                        /\ graph[t] < worst[t]
                        /\ Beaten(worst[t], board \cup Mine(t))
  /\ Gone(t) # {} => Cardinality(Safe(t)) >= Capacity

(***************************************************************************)
(* The inductive invariant of the proofs, when no two transactions that    *)
(* overlap carry the same graph.                                           *)
(***************************************************************************)
IInv ==
  /\ TypeOK
  /\ IsFiniteSet(board)
  /\ TopKept
  /\ \A t \in Txs : Written(t) /\ Alone(t) /\ Read(t)

(***************************************************************************)
(* The inductive invariant of the proofs for any overlap: some row is      *)
(* better than all that t takes, and as good as its graph.                 *)
(***************************************************************************)
Vouched(t) ==
  \E b \in board \cup ins[t] : /\ \A g \in Mine(t) : b <= g
                             /\ \A x \in Gone(t) : b < x

Carries(t) ==
  /\ ins[t] \subseteq Mine(t)
  /\ pc[t] = "idle" => Mine(t) = {}

Careful(t) ==
  /\ pc[t] = "evict" => graph[t] < worst[t]
  /\ pc[t] \in {"check", "count", "worst", "evict"} => Gone(t) \cup ins[t] = {}
  /\ pc[t] \in {"rank", "insert"} => /\ todo[t] = {} /\ ins[t] = {}
                                    /\ \A x \in del[t] : graph[t] < x
  /\ pc[t] \in {"trim", "trimming", "commit"} => Vouched(t)

AnyInv == \A t \in Txs : Carries(t) /\ (Capacity > 0 => Careful(t))

(***************************************************************************)
(* No commit gives ground: a score that Capacity rows beat stays beaten by *)
(* Capacity rows.  It is why a worker may skip a graph on the strength of  *)
(* an old threshold (the gate of extremal-worker-core/src/engine.rs).      *)
(***************************************************************************)
StaysBeaten == [][\A g \in Graphs : Beaten(g, board) => Beaten(g, board')]_vars

(***************************************************************************)
(* What one try_admit does to the board by the time it ends, the only      *)
(* thing Submit and Engine take of it: whatever has overlapped with it,    *)
(* its graph and the rows that were there are still listed or beaten; when *)
(* calls for one graph may overlap, the board may shrink below its         *)
(* capacity, but no row goes without a better one, the record least of     *)
(* all.                                                                    *)
(***************************************************************************)
Ends(t) == (CheckExisting(t) \/ ReadWorst(t) \/ Commit(t)) /\ pc'[t] = "idle"

EndKeeps ==
  [][\A t \in Txs : Ends(t) => Keeps(Overlap = "any", board, Mine(t), board')]_vars

(***************************************************************************)
(* Every transaction ends: its locks are waited for, not for ever, and the *)
(* cycles that the evict and the trim of three transactions can form are   *)
(* broken by the database.                                                 *)
(***************************************************************************)
AllEnd == \A t \in Txs : Active(t) ~> ~Active(t)

(***************************************************************************)
(* try_admit's promise when transactions do not overlap: one step of       *)
(* Leaderboard per decision, nothing for the rest.                         *)
(***************************************************************************)
L == INSTANCE Leaderboard WITH offered <- decided
Abstract == L!Spec

(***************************************************************************)
(* Then the board is the best Capacity of all that was decided, in         *)
(* whatever order it came.                                                 *)
(***************************************************************************)
BestKept == L!KeepsBest

(***************************************************************************)
(* try_admit answers Some(rank) only for a graph that the commit leaves on *)
(* the board (its doc: "the new rank if admitted, or None"), and the rank, *)
(* counted before the insert and the trim, is the row's position there.    *)
(***************************************************************************)
AnswerTrue ==
  [][\A t \in Txs : Commit(t) /\ graph[t] # None =>
       /\ graph[t] \in board'
       /\ newRank[t] = Cardinality({x \in board' : x <= graph[t]})]_vars
=============================================================================
