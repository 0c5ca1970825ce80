-------------------------------- MODULE Submit --------------------------------
(***************************************************************************)
(* POST /api/submit (handlers/submit.rs) and the cached reads of the       *)
(* leaderboard (handlers/leaderboard.rs, cache.rs) of one server: requests *)
(* interleave at every await, and may end at any of them.                  *)
(*                                                                         *)
(* A cached answer is represented by the board, or the two boards, that    *)
(* its queries saw.                                                        *)
(***************************************************************************)
EXTENDS Ranking, Sequences

Kinds == {"threshold", "cids", "graphs"}      \* the maps of LeaderboardCache

CONSTANTS
  Requests,   \* concurrent submit requests
  Readers,    \* concurrent reads
  Asked,      \* the kinds of answers that readers ask for
  Listed,     \* the rows that an earlier run of the server has left
  Found       \* the graphs that requests bring

ASSUME AskedAssumption == Asked \subseteq Kinds
ASSUME ListedAssumption == Listed \subseteq Graphs /\ IsFiniteSet(Listed)
ASSUME FoundAssumption == Found \subseteq Graphs

None == 0     \* no graph

VARIABLES
  board,      \* table leaderboard
  graphs,     \* tables graphs, ...
  scores,     \* ... scores, ...
  submissions,\* ... submissions ...
  receipts,   \* ... and receipts, by graph
  pc,         \* the next step of each request
  graph,      \* its graph
  admitted,   \* whether its try_admit returned a rank
  clashed,    \* two calls of try_admit for one graph have overlapped (history)
  cache,      \* of each kind, <<>> or the boards of the cached answer
  reading,    \* of each reader, "none" or the kind it missed
  seen,       \* the boards its queries have seen
  announced,  \* graphs whose Admission event was broadcast
  dropped     \* graphs whose request was cut off after their admission (history)

tables == <<board, graphs, scores, submissions, receipts>>
reads  == <<reading, seen>>
events == <<announced, dropped>>
vars   == <<tables, pc, graph, admitted, clashed, cache, reads, events>>

Init ==
  /\ board = Listed /\ graphs = Listed /\ scores = Listed /\ submissions = Listed
  /\ receipts = Listed /\ announced = Listed
  /\ pc = [r \in Requests |-> "idle"]
  /\ graph = [r \in Requests |-> None]
  /\ admitted = [r \in Requests |-> FALSE]
  /\ clashed = FALSE
  /\ cache = [k \in Kinds |-> <<>>]
  /\ reading = [d \in Readers |-> "none"]
  /\ seen = [d \in Readers |-> <<>>]
  /\ dropped = {}

-----------------------------------------------------------------------------
(***************************************************************************)
(* submit_graph.                                                           *)
(***************************************************************************)
\* A mutant of Order: the graph is admitted before its score is stored.
OrderAdmitFirst ==
  [idle |-> "graph", graph |-> "admit", admit |-> "admitting", admitting |-> "score",
   score |-> "submission", submission |-> "receipt", receipt |-> "invalidate"]

Order ==
  [idle |-> "graph", graph |-> "score", score |-> "submission", submission |-> "admit",
   admit |-> "admitting", admitting |-> "receipt", receipt |-> "invalidate"]

Step(r, at) == pc[r] = at /\ pc' = [pc EXCEPT ![r] = Order[at]]

\* The handler is over.
End(r) ==
  /\ pc' = [pc EXCEPT ![r] = "idle"]
  /\ graph' = [graph EXCEPT ![r] = None]
  /\ admitted' = [admitted EXCEPT ![r] = FALSE]

\* The request is valid, its identity known, its signature good, its graph scored.
Arrive(r, g) ==
  /\ Step(r, "idle")
  /\ graph' = [graph EXCEPT ![r] = g]
  /\ UNCHANGED <<tables, admitted, clashed, cache, reads, events>>

StoreGraph(r) ==
  /\ Step(r, "graph")
  /\ graphs' = graphs \cup {graph[r]}
  /\ UNCHANGED <<board, scores, submissions, receipts, graph, admitted, clashed, cache, reads, events>>

StoreScore(r) ==
  /\ Step(r, "score")
  /\ scores' = scores \cup {graph[r]}
  /\ UNCHANGED <<board, graphs, submissions, receipts, graph, admitted, clashed, cache, reads, events>>

StoreSubmission(r) ==
  /\ Step(r, "submission")
  /\ submissions' = submissions \cup {graph[r]}
  /\ UNCHANGED <<board, graphs, scores, receipts, graph, admitted, clashed, cache, reads, events>>

\* try_admit begins (module Admission has its statements), and answers Ok(None) at
\* once for a listed graph.
BeginAdmit(r) ==
  /\ pc[r] = "admit"
  /\ \/ /\ graph[r] \in board
        /\ pc' = [pc EXCEPT ![r] = Order["admitting"]]
        /\ UNCHANGED clashed
     \/ /\ graph[r] \notin board
        /\ Step(r, "admit")
        /\ clashed' = (clashed \/ \E q \in Requests : pc[q] = "admitting" /\ graph[q] = graph[r])
  /\ UNCHANGED <<tables, graph, admitted, cache, reads, events>>

\* It ends, having kept what EndKeeps of Admission says of the rows committed by then.
\* Whoever wrote answers Some(rank), though its insert may have found the row there
\* (ON CONFLICT DO NOTHING) or its own trim may have taken it.
CommitAdmit(r) ==
  /\ Step(r, "admitting")
  /\ \E C \in SUBSET (board \cup {graph[r]}), some \in BOOLEAN :
       /\ Keeps(clashed, board, {graph[r]}, C)
       /\ ~some => C = board
       /\ board' = C
       /\ admitted' = [admitted EXCEPT ![r] = some]
  /\ UNCHANGED <<graphs, scores, submissions, receipts, graph, clashed, cache, reads, events>>

StoreReceipt(r) ==
  /\ Step(r, "receipt")
  /\ receipts' = receipts \cup {graph[r]}
  /\ UNCHANGED <<board, graphs, scores, submissions, graph, admitted, clashed, cache, reads, events>>

\* Not admitted: a Submission event, and the answer.
Finish(r) ==
  /\ pc[r] = "invalidate" /\ ~admitted[r]
  /\ End(r)
  /\ UNCHANGED <<tables, clashed, cache, reads, events>>

\* invalidate takes the write locks of its three maps one after the other.
Invalidate(r) ==
  \E step \in {<<"invalidate", "threshold", "invalidate_cids">>,
               <<"invalidate_cids", "cids", "invalidate_graphs">>,
               <<"invalidate_graphs", "graphs", "publish">>} :
    /\ pc[r] = step[1] /\ admitted[r]
    /\ pc' = [pc EXCEPT ![r] = step[3]]
    /\ cache' = [cache EXCEPT ![step[2]] = <<>>]
    /\ UNCHANGED <<tables, graph, admitted, clashed, reads, events>>

\* A mutant of Publish: the event is forgotten.
PublishNothing(r) ==
  /\ pc[r] = "publish"
  /\ End(r)
  /\ UNCHANGED <<tables, clashed, cache, reads, events>>

Publish(r) ==
  /\ pc[r] = "publish"
  /\ End(r)
  /\ announced' = announced \cup {graph[r]}
  /\ UNCHANGED <<tables, clashed, cache, reads, dropped>>

Unannounced == {r \in Requests : admitted[r]}

\* An error answer, the 30 s timeout, or a client that hangs up.  A transaction is
\* rolled back, unless its COMMIT is on its way: such a request is dropped here once
\* that has taken effect.
Drop(r) ==
  /\ pc[r] # "idle"
  /\ End(r)
  /\ dropped' = dropped \cup {graph[q] : q \in {r} \cap Unannounced}
  /\ UNCHANGED <<tables, clashed, cache, reads, announced>>

-----------------------------------------------------------------------------
(***************************************************************************)
(* get_threshold, get_cids without "since", and get_graphs.                *)
(***************************************************************************)
Queries(k) == IF k = "threshold" THEN 2 ELSE 1

Miss(d, k) ==
  /\ reading[d] = "none" /\ cache[k] = <<>>
  /\ reading' = [reading EXCEPT ![d] = k]
  /\ seen' = [seen EXCEPT ![d] = <<>>]
  /\ UNCHANGED <<tables, pc, graph, admitted, clashed, cache, events>>

\* A mutant of Query: the threshold is read before the count.
QueryRowFirst(d) ==
  /\ reading[d] # "none" /\ Len(seen[d]) < Queries(reading[d])
  /\ seen' = [seen EXCEPT ![d] = <<board>> \o @]
  /\ UNCHANGED <<tables, pc, graph, admitted, clashed, cache, reading, events>>

Query(d) ==
  /\ reading[d] # "none" /\ Len(seen[d]) < Queries(reading[d])
  /\ seen' = [seen EXCEPT ![d] = Append(@, board)]
  /\ UNCHANGED <<tables, pc, graph, admitted, clashed, cache, reading, events>>

\* set_threshold, set_cids, set_graphs: whatever has happened since the query.
Fill(d) ==
  /\ reading[d] # "none" /\ Len(seen[d]) = Queries(reading[d])
  /\ cache' = [cache EXCEPT ![reading[d]] = seen[d]]
  /\ reading' = [reading EXCEPT ![d] = "none"]
  /\ seen' = [seen EXCEPT ![d] = <<>>]
  /\ UNCHANGED <<tables, pc, graph, admitted, clashed, events>>

DropRead(d) ==
  /\ reading[d] # "none"
  /\ reading' = [reading EXCEPT ![d] = "none"]
  /\ seen' = [seen EXCEPT ![d] = <<>>]
  /\ UNCHANGED <<tables, pc, graph, admitted, clashed, cache, events>>

\* The TTL of the entry has passed.
Expire(k) ==
  /\ cache[k] # <<>>
  /\ cache' = [cache EXCEPT ![k] = <<>>]
  /\ UNCHANGED <<tables, pc, graph, admitted, clashed, reads, events>>

\* The process restarts: requests and cache are gone, PostgreSQL has ended their
\* transactions, and the tables stay, but for the trim of a board over capacity,
\* whose errors are ignored.
Restart ==
  /\ pc' = [r \in Requests |-> "idle"]
  /\ graph' = [r \in Requests |-> None]
  /\ admitted' = [r \in Requests |-> FALSE]
  /\ cache' = [k \in Kinds |-> <<>>]
  /\ reading' = [d \in Readers |-> "none"]
  /\ seen' = [d \in Readers |-> <<>>]
  /\ dropped' = dropped \cup {graph[r] : r \in Unannounced}
  /\ \/ UNCHANGED board
     \/ \E B \in SUBSET board : IsBest(B, board) /\ board' = B
  /\ UNCHANGED <<graphs, scores, submissions, receipts, clashed, announced>>

Handle(r) ==
  \/ StoreGraph(r) \/ StoreScore(r) \/ StoreSubmission(r)
  \/ BeginAdmit(r) \/ CommitAdmit(r) \/ StoreReceipt(r) \/ Finish(r) \/ Invalidate(r) \/ Publish(r)

Read(d) == Query(d) \/ Fill(d)

Next ==
  \/ \E r \in Requests : (\E g \in Found : Arrive(r, g)) \/ Handle(r) \/ Drop(r)
  \/ \E d \in Readers : (\E k \in Asked : Miss(d, k)) \/ Read(d) \/ DropRead(d)
  \/ \E k \in Kinds : Expire(k)
  \/ Restart

Spec == Init /\ [][Next]_vars

-----------------------------------------------------------------------------
\* The types; a cached answer has the boards of all its queries.
TypeOK ==
  /\ \A t \in {board, graphs, scores, submissions, receipts, announced, dropped} : t \subseteq Graphs
  /\ pc \in [Requests -> DOMAIN Order \cup {"invalidate", "invalidate_cids",
                                            "invalidate_graphs", "publish"}]
  /\ graph \in [Requests -> Graphs \cup {None}]
  /\ admitted \in [Requests -> BOOLEAN]
  /\ clashed \in BOOLEAN
  /\ \A k \in Kinds : /\ cache[k] \in Seq(SUBSET Graphs)
                      /\ Len(cache[k]) \in {0, IF k = "threshold" THEN 2 ELSE 1}
  /\ reading \in [Readers -> Kinds \cup {"none"}]
  /\ \A d \in Readers : seen[d] \in Seq(SUBSET Graphs)

(***************************************************************************)
(* Wherever requests are cut off, a listed graph has its graph6, its score *)
(* and a submission (the joins of the leaderboard pages rely on them), and *)
(* a receipt or an announcement is only ever for a graph with all of them. *)
(***************************************************************************)
RowsBacked == board \cup receipts \cup announced \subseteq graphs \cap scores \cap submissions

(***************************************************************************)
(* C came after B: it has a row as good as each of B's and, unless calls   *)
(* for one graph have overlapped, it is full if B was.                     *)
(***************************************************************************)
IsFull(B) == Cardinality(B) >= Capacity

Stands(clash, B, C) ==
  /\ Capacity > 0 => \A x \in B : \E b \in C : b <= x
  /\ ~clash /\ IsFull(B) => IsFull(C)

(***************************************************************************)
(* The count and the threshold of a cached answer are of different boards. *)
(* Still what its first query saw stands in the second and in the board of *)
(* now: a record that was reported is matched, and a count that says full  *)
(* comes with the threshold of a full board, which is full to this day,    *)
(* until two overlapping calls for one graph have cost it a row.  The      *)
(* worker's gate relies on it.                                             *)
(***************************************************************************)
CachedStands ==
  \A k \in Kinds : \A i, j \in DOMAIN cache[k] :
    /\ Stands(clashed, cache[k][i], board)
    /\ i <= j => Stands(clashed, cache[k][i], cache[k][j])

(***************************************************************************)
(* Every admission is announced, is about to be, or was cut off on its     *)
(* way: a listed graph that no subscriber ever heard of has its reason.    *)
(***************************************************************************)
AdmissionAnnounced ==
  board \subseteq announced \cup dropped \cup {graph[r] : r \in Unannounced}
=============================================================================
