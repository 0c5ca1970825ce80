----------------------------- MODULE SubmitProofs -----------------------------
(***************************************************************************)
(* Proofs about Submit, for any graphs, capacity and number of requests    *)
(* and readers.                                                            *)
(***************************************************************************)
EXTENDS Submit, FiniteSetTheorems, SequenceTheorems, TLAPS

(***************************************************************************)
(* Where requests are, and the boards.                                     *)
(***************************************************************************)
States == DOMAIN Order \cup {"invalidate", "invalidate_cids", "invalidate_graphs", "publish"}

\* A request has written the tables behind it, and is admitted only after
\* try_admit; the board is finite.
RequestInv ==
  /\ board \subseteq Graphs /\ IsFiniteSet(board)
  /\ pc \in [Requests -> States]
  /\ graph \in [Requests -> Graphs \cup {None}]
  /\ admitted \in [Requests -> BOOLEAN]
  /\ clashed \in BOOLEAN
  /\ \A r \in Requests :
       /\ pc[r] # "idle" => graph[r] \in Graphs
       /\ pc[r] \in {"idle", "graph", "score", "submission", "admit", "admitting"} => ~admitted[r]
       /\ pc[r] \notin {"idle", "graph"} => graph[r] \in graphs
       /\ pc[r] \notin {"idle", "graph", "score"} => graph[r] \in scores
       /\ pc[r] \notin {"idle", "graph", "score", "submission"} => graph[r] \in submissions
       /\ pc[r] = "publish" => admitted[r]

LEMMA OrderIs ==
  /\ DOMAIN Order = {"idle", "graph", "score", "submission", "admit", "admitting", "receipt"}
  /\ Order["idle"] = "graph" /\ Order["graph"] = "score" /\ Order["score"] = "submission"
  /\ Order["submission"] = "admit" /\ Order["admit"] = "admitting"
  /\ Order["admitting"] = "receipt"
  /\ Order["receipt"] = "invalidate"
BY DEF Order

\* A step of a request through the sequence.
LEMMA StepIs ==
  ASSUME NEW r \in Requests, RequestInv, NEW at \in DOMAIN Order, Step(r, at)
  PROVE  /\ pc[r] = at /\ pc'[r] = Order[at]
         /\ \A q \in Requests : q # r => pc'[q] = pc[q]
         /\ pc' \in [Requests -> States]
BY OrderIs DEF Step, RequestInv, States

LEMMA InvalidateIs ==
  ASSUME NEW r \in Requests, Invalidate(r)
  PROVE  /\ admitted[r] /\ UNCHANGED <<tables, graph, admitted, clashed, reads, events>>
         /\ pc[r] \in {"invalidate", "invalidate_cids", "invalidate_graphs"}
         /\ \E to \in {"invalidate_cids", "invalidate_graphs", "publish"} :
              pc' = [pc EXCEPT ![r] = to]
         /\ \E k \in Kinds : cache' = [cache EXCEPT ![k] = <<>>]
<1>1. PICK step \in {<<"invalidate", "threshold", "invalidate_cids">>,
                     <<"invalidate_cids", "cids", "invalidate_graphs">>,
                     <<"invalidate_graphs", "graphs", "publish">>} :
        /\ pc[r] = step[1] /\ admitted[r]
        /\ pc' = [pc EXCEPT ![r] = step[3]]
        /\ cache' = [cache EXCEPT ![step[2]] = <<>>]
        /\ UNCHANGED <<tables, graph, admitted, clashed, reads, events>>
  BY DEF Invalidate
<1>2. /\ step[1] \in {"invalidate", "invalidate_cids", "invalidate_graphs"}
      /\ step[2] \in Kinds
      /\ step[3] \in {"invalidate_cids", "invalidate_graphs", "publish"}
  <2>1. CASE step = <<"invalidate", "threshold", "invalidate_cids">>
    BY <2>1 DEF Kinds
  <2>2. CASE step = <<"invalidate_cids", "cids", "invalidate_graphs">>
    BY <2>2 DEF Kinds
  <2>3. CASE step = <<"invalidate_graphs", "graphs", "publish">>
    BY <2>3 DEF Kinds
  <2>4. QED
    BY <2>1, <2>2, <2>3
<1>3. QED
  BY <1>1, <1>2

\* What one call of try_admit keeps, and the trim of a server that starts.
LEMMA KeepsStands ==
  ASSUME IsFiniteSet(board), board \subseteq Graphs, NEW g \in Graphs,
         NEW C, Keeps(clashed, board, {g}, C), clashed \in BOOLEAN
  PROVE  IsFiniteSet(C) /\ C \subseteq Graphs /\ Stands(clashed, board, C)
<1>1. IsFiniteSet(board \cup {g}) /\ C \subseteq board \cup {g}
  BY FS_AddElement DEF Keeps
<1>2. IsFiniteSet(C) /\ Cardinality(C) \in Nat /\ Cardinality(board) \in Nat
  BY <1>1, FS_Subset, FS_CardinalityType
<1>3. \A x \in Graphs : x \in Nat
  BY GraphsAssumption
<1>4. ASSUME NEW x \in Graphs, Beaten(x, C)
      PROVE  IsFull(C) /\ (Capacity > 0 => \E b \in C : b < x)
  <2> DEFINE D == {b \in C : b < x}
  <2>1. D \subseteq C /\ Cardinality(D) >= Capacity
    BY <1>4 DEF Beaten
  <2> HIDE DEF D
  <2>2. IsFiniteSet(D) /\ Cardinality(D) \in Nat /\ Cardinality(D) <= Cardinality(C)
    BY <1>2, <2>1, FS_Subset, FS_CardinalityType
  <2>3. IsFull(C)
    BY <1>2, <2>1, <2>2, CapacityAssumption DEF IsFull
  <2>4. Capacity > 0 => D # {}
    BY <2>1, FS_EmptySet, CapacityAssumption
  <2>5. QED
    BY <2>3, <2>4 DEF D
<1>5. ASSUME Capacity > 0, NEW x \in board
      PROVE  \E b \in C : b <= x
  <2>1. CASE x \in C
    BY <1>3, <2>1
  <2>2. CASE x \notin C
    <3>1. \E b \in C : b < x
      BY <1>4, <1>5, <2>2 DEF Keeps, Outdone
    <3>2. QED
      BY <1>1, <1>3, <3>1
  <2>3. QED
    BY <2>1, <2>2
<1>6. ASSUME ~clashed, IsFull(board)
      PROVE  IsFull(C)
  <2>1. CASE board \subseteq C
    <3>1. Cardinality(board) <= Cardinality(C)
      BY <1>2, <2>1, FS_Subset
    <3>2. QED
      BY <1>2, <1>6, <3>1, CapacityAssumption DEF IsFull
  <2>2. CASE ~(board \subseteq C)
    <3>1. PICK x \in board : x \notin C
      BY <2>2
    <3>2. QED
      BY <1>4, <1>6, <3>1 DEF Keeps
  <2>3. QED
    BY <2>1, <2>2
<1>7. C \subseteq Graphs
  BY <1>1
<1>8. QED
  BY <1>2, <1>5, <1>6, <1>7 DEF Stands

LEMMA TrimStands ==
  ASSUME IsFiniteSet(board), board \subseteq Graphs, NEW B \in SUBSET board, IsBest(B, board)
  PROVE  IsFiniteSet(B) /\ Stands(clashed, board, B)
<1>1. /\ IsFiniteSet(B) /\ Cardinality(B) \in Nat /\ Cardinality(board) \in Nat
      /\ Cardinality(B) = AtMost(Capacity, board)
      /\ \A x \in B, y \in board \ B : x < y
  BY FS_Subset, FS_CardinalityType DEF IsBest
<1>2. board \subseteq Nat
  BY GraphsAssumption
<1>3. IsFull(board) => IsFull(B)
  BY <1>1, CapacityAssumption DEF AtMost, IsFull
<1>4. ASSUME Capacity > 0, NEW x \in board
      PROVE  \E b \in B : b <= x
  <2>1. Cardinality(board) # 0
    BY <1>4, FS_EmptySet
  <2>2. Cardinality(B) # 0
    BY <1>1, <1>4, <2>1, CapacityAssumption DEF AtMost
  <2>3. PICK b \in B : TRUE
    BY <2>2, FS_EmptySet
  <2>4. CASE x \in B
    BY <1>2, <2>4
  <2>5. CASE x \notin B
    BY <1>1, <1>2, <2>3, <2>5
  <2>6. QED
    BY <2>4, <2>5
<1>5. QED
  BY <1>1, <1>3, <1>4 DEF Stands

LEMMA InitRequest == Init => RequestInv
<1> SUFFICES ASSUME Init
             PROVE  RequestInv
  OBVIOUS
<1>1. \A r \in Requests : pc[r] = "idle" /\ ~admitted[r]
  BY DEF Init
<1>2. QED
  BY <1>1, OrderIs, ListedAssumption DEF Init, RequestInv, States

LEMMA RequestStep == RequestInv /\ [Next]_vars => RequestInv'
<1> SUFFICES ASSUME RequestInv, [Next]_vars
             PROVE  RequestInv'
  OBVIOUS
<1> USE DEF RequestInv, tables, reads, events
<1>1. ASSUME NEW r \in Requests, NEW g \in Graphs, Arrive(r, g)
      PROVE  RequestInv'
  BY <1>1, StepIs, OrderIs DEF Arrive
<1>2. ASSUME NEW r \in Requests, StoreGraph(r)
      PROVE  RequestInv'
  BY <1>2, StepIs, OrderIs DEF StoreGraph
<1>3. ASSUME NEW r \in Requests, StoreScore(r)
      PROVE  RequestInv'
  BY <1>3, StepIs, OrderIs DEF StoreScore
<1>4. ASSUME NEW r \in Requests, StoreSubmission(r)
      PROVE  RequestInv'
  BY <1>4, StepIs, OrderIs DEF StoreSubmission
<1>14. ASSUME NEW r \in Requests, BeginAdmit(r)
       PROVE  RequestInv'
  <2>1. /\ pc[r] = "admit" /\ UNCHANGED <<tables, graph, admitted>>
        /\ pc' \in [Requests -> States] /\ pc'[r] \in {"admitting", "receipt"}
        /\ \A q \in Requests : q # r => pc'[q] = pc[q]
    BY <1>14, StepIs, OrderIs DEF BeginAdmit, States
  <2>2. clashed' \in BOOLEAN
    BY <1>14 DEF BeginAdmit
  <2>3. QED
    BY <2>1, <2>2
<1>5. ASSUME NEW r \in Requests, CommitAdmit(r)
      PROVE  RequestInv'
  <2> PICK C \in SUBSET (board \cup {graph[r]}), some \in BOOLEAN :
        /\ Keeps(clashed, board, {graph[r]}, C)
        /\ board' = C
        /\ admitted' = [admitted EXCEPT ![r] = some]
    BY <1>5 DEF CommitAdmit
  <2>1. pc[r] = "admitting" /\ pc'[r] = "receipt" /\ pc' \in [Requests -> States]
        /\ \A q \in Requests : q # r => pc'[q] = pc[q]
    BY <1>5, StepIs, OrderIs DEF CommitAdmit
  <2>2. IsFiniteSet(board') /\ board' \subseteq Graphs
    BY <2>1, KeepsStands
  <2>3. /\ admitted' \in [Requests -> BOOLEAN]
        /\ \A q \in Requests : q # r => admitted'[q] = admitted[q]
        /\ UNCHANGED <<graph, graphs, scores, submissions, clashed>>
    BY <1>5 DEF CommitAdmit
  <2>4. QED
    BY <2>1, <2>2, <2>3
<1>6. ASSUME NEW r \in Requests, StoreReceipt(r)
      PROVE  RequestInv'
  BY <1>6, StepIs, OrderIs DEF StoreReceipt
<1>7. ASSUME NEW r \in Requests, Finish(r) \/ Publish(r) \/ Drop(r)
      PROVE  RequestInv'
  <2>1. /\ UNCHANGED <<tables, clashed>> /\ End(r)
    BY <1>7 DEF Finish, Publish, Drop
  <2>2. /\ pc'[r] = "idle" /\ admitted'[r] = FALSE
        /\ \A q \in Requests : q # r => /\ pc'[q] = pc[q] /\ graph'[q] = graph[q]
                                       /\ admitted'[q] = admitted[q]
        /\ pc' \in [Requests -> States]
        /\ graph' \in [Requests -> Graphs \cup {None}]
        /\ admitted' \in [Requests -> BOOLEAN]
    BY <2>1, OrderIs DEF End, States
  <2>3. QED
    BY <2>1, <2>2
<1>8. ASSUME NEW r \in Requests, Invalidate(r)
      PROVE  RequestInv'
  <2>1. /\ admitted[r] /\ UNCHANGED <<tables, graph, admitted, clashed>>
        /\ pc[r] \in {"invalidate", "invalidate_cids", "invalidate_graphs"}
    BY <1>8, InvalidateIs
  <2>2. PICK to \in {"invalidate_cids", "invalidate_graphs", "publish"} :
          pc' = [pc EXCEPT ![r] = to]
    BY <1>8, InvalidateIs
  <2>3. to \in States /\ pc \in [Requests -> States]
    BY DEF States
  <2> HIDE DEF States
  <2>4. /\ pc' \in [Requests -> States] /\ pc'[r] = to
        /\ \A q \in Requests : q # r => pc'[q] = pc[q]
    BY <2>2, <2>3
  <2>5. QED
    BY <2>1, <2>4
<1>9. ASSUME NEW d \in Readers, (\E k \in Asked : Miss(d, k)) \/ Read(d) \/ DropRead(d)
      PROVE  RequestInv'
  BY <1>9 DEF Miss, Read, Query, Fill, DropRead
<1>10. ASSUME NEW k \in Kinds, Expire(k)
       PROVE  RequestInv'
  BY <1>10 DEF Expire
<1>11. CASE Restart
  <2>1. IsFiniteSet(board') /\ board' \subseteq board
    BY <1>11, FS_Subset DEF Restart
  <2>2. QED
    BY <1>11, <2>1, OrderIs DEF Restart, States
<1>12. CASE UNCHANGED vars
  BY <1>12 DEF vars
<1>13. QED
  BY <1>1, <1>2, <1>3, <1>4, <1>5, <1>6, <1>7, <1>8, <1>9, <1>10, <1>11, <1>12, <1>14,
     FoundAssumption DEF Next, Handle

\* Only try_admit and a restart change the board.
LEMMA BoardStep ==
  ASSUME RequestInv, [Next]_vars
  PROVE  \/ board' = board
         \/ \E r \in Requests : CommitAdmit(r)
         \/ \E B \in SUBSET board : IsBest(B, board) /\ board' = B
<1> USE DEF tables
<1>1. ASSUME NEW r \in Requests, Handle(r) \/ Drop(r) \/ \E g \in Found : Arrive(r, g)
      PROVE  board' = board \/ CommitAdmit(r)
  BY <1>1, InvalidateIs DEF Handle, StoreGraph, StoreScore, StoreSubmission, BeginAdmit,
     StoreReceipt, Finish, Publish, Drop, Arrive
<1>2. ASSUME NEW d \in Readers, (\E k \in Asked : Miss(d, k)) \/ Read(d) \/ DropRead(d)
      PROVE  board' = board
  BY <1>2 DEF Miss, Read, Query, Fill, DropRead
<1>3. ASSUME (\E k \in Kinds : Expire(k)) \/ UNCHANGED vars
      PROVE  board' = board
  BY <1>3 DEF Expire, vars
<1>4. CASE Restart
  BY <1>4 DEF Restart
<1>5. QED
  BY <1>1, <1>2, <1>3, <1>4 DEF Next

\* A clash is never forgotten.
LEMMA ClashStep ==
  ASSUME [Next]_vars, clashed
  PROVE  clashed'
<1>1. ASSUME NEW r \in Requests, Handle(r) \/ Drop(r) \/ \E g \in Found : Arrive(r, g)
      PROVE  clashed'
  BY <1>1, InvalidateIs DEF Handle, StoreGraph, StoreScore, StoreSubmission, BeginAdmit,
     CommitAdmit, StoreReceipt, Finish, Publish, Drop, Arrive
<1>2. ASSUME NEW d \in Readers, (\E k \in Asked : Miss(d, k)) \/ Read(d) \/ DropRead(d)
      PROVE  clashed'
  BY <1>2 DEF Miss, Read, Query, Fill, DropRead
<1>3. ASSUME (\E k \in Kinds : Expire(k)) \/ Restart \/ UNCHANGED vars
      PROVE  clashed'
  BY <1>3 DEF Expire, Restart, vars
<1>4. QED
  BY <1>1, <1>2, <1>3 DEF Next

LEMMA StandsStep ==
  ASSUME RequestInv, [Next]_vars
  PROVE  Stands(clashed, board, board')
<1>1. ASSUME NEW r \in Requests, CommitAdmit(r)
      PROVE  Stands(clashed, board, board')
  <2>1. PICK C : Keeps(clashed, board, {graph[r]}, C) /\ board' = C
    BY <1>1 DEF CommitAdmit
  <2>2. graph[r] \in Graphs
    BY <1>1 DEF CommitAdmit, Step, RequestInv
  <2>3. QED
    BY <2>1, <2>2, KeepsStands DEF RequestInv
<1>2. CASE board' = board
  <2>1. \A x \in board : x <= x
    BY GraphsAssumption DEF RequestInv
  <2>2. QED
    BY <1>2, <2>1 DEF Stands, IsFull
<1>3. ASSUME NEW B \in SUBSET board, IsBest(B, board), board' = B
      PROVE  Stands(clashed, board, board')
  BY <1>3, TrimStands DEF RequestInv
<1>4. QED
  BY <1>1, <1>2, <1>3, BoardStep
-----------------------------------------------------------------------------
(***************************************************************************)
(* Rows and their tables.                                                  *)
(***************************************************************************)
LEMMA RowsStep == RequestInv /\ RowsBacked /\ [Next]_vars => RowsBacked'
<1> SUFFICES ASSUME RequestInv, RowsBacked, [Next]_vars
             PROVE  RowsBacked'
  OBVIOUS
<1> USE DEF RowsBacked, tables, events
<1>1. ASSUME NEW r \in Requests, StoreGraph(r) \/ StoreScore(r) \/ StoreSubmission(r)
      PROVE  RowsBacked'
  BY <1>1 DEF StoreGraph, StoreScore, StoreSubmission
<1>2. ASSUME NEW r \in Requests, CommitAdmit(r)
      PROVE  RowsBacked'
  <2>1. pc[r] = "admitting"
    BY <1>2 DEF CommitAdmit, Step
  <2>2. graph[r] \in graphs \cap scores \cap submissions
    BY <2>1 DEF RequestInv
  <2>3. board' \subseteq board \cup {graph[r]}
    BY <1>2 DEF CommitAdmit
  <2>4. UNCHANGED <<graphs, scores, submissions, receipts, announced>>
    BY <1>2 DEF CommitAdmit
  <2>5. QED
    BY <2>2, <2>3, <2>4
<1>3. ASSUME NEW r \in Requests, StoreReceipt(r)
      PROVE  RowsBacked'
  <2>1. pc[r] = "receipt"
    BY <1>3 DEF StoreReceipt, Step
  <2>2. graph[r] \in graphs \cap scores \cap submissions
    BY <2>1 DEF RequestInv
  <2>3. QED
    BY <1>3, <2>2 DEF StoreReceipt
<1>4. ASSUME NEW r \in Requests, Publish(r)
      PROVE  RowsBacked'
  <2>1. pc[r] = "publish"
    BY <1>4 DEF Publish
  <2>2. graph[r] \in graphs \cap scores \cap submissions
    BY <2>1 DEF RequestInv
  <2>3. QED
    BY <1>4, <2>2 DEF Publish
<1>5. ASSUME NEW r \in Requests,
             BeginAdmit(r) \/ Finish(r) \/ Invalidate(r) \/ Drop(r) \/ \E g \in Found : Arrive(r, g)
      PROVE  RowsBacked'
  <2>1. UNCHANGED <<tables, announced>>
    BY <1>5, InvalidateIs DEF BeginAdmit, Finish, Drop, Arrive
  <2>2. QED
    BY <2>1
<1>6. ASSUME NEW d \in Readers, (\E k \in Asked : Miss(d, k)) \/ Read(d) \/ DropRead(d)
      PROVE  RowsBacked'
  BY <1>6 DEF Miss, Read, Query, Fill, DropRead
<1>7. ASSUME (\E k \in Kinds : Expire(k)) \/ Restart \/ UNCHANGED vars
      PROVE  RowsBacked'
  BY <1>7 DEF Expire, Restart, vars
<1>8. QED
  BY <1>1, <1>2, <1>3, <1>4, <1>5, <1>6, <1>7 DEF Next, Handle

(***************************************************************************)
(* Wherever requests are cut off, a listed graph has its graph6, its score *)
(* and a submission, and so has every graph with a receipt or an           *)
(* announcement (submit.rs, the order of the writes).                      *)
(***************************************************************************)
THEOREM RowsBackedAlways == Spec => []RowsBacked
<1>1. Init => RowsBacked
  BY DEF Init, RowsBacked
<1>2. QED
  BY <1>1, InitRequest, RequestStep, RowsStep, PTL DEF Spec
-----------------------------------------------------------------------------
(***************************************************************************)
(* Announcements.                                                          *)
(***************************************************************************)
LEMMA AnnouncedStep == RequestInv /\ AdmissionAnnounced /\ [Next]_vars => AdmissionAnnounced'
<1> SUFFICES ASSUME RequestInv, AdmissionAnnounced, [Next]_vars
             PROVE  AdmissionAnnounced'
  OBVIOUS
<1> USE DEF AdmissionAnnounced, Unannounced, tables, events
<1>1. CASE UNCHANGED <<board, announced, dropped, graph, admitted>>
  BY <1>1
<1>2. ASSUME NEW r \in Requests, NEW g \in Graphs, Arrive(r, g)
      PROVE  AdmissionAnnounced'
  <2>1. ~admitted[r] /\ UNCHANGED <<board, announced, dropped, admitted>>
        /\ \A q \in Requests : q # r => graph'[q] = graph[q]
    BY <1>2 DEF Arrive, Step, RequestInv
  <2>2. QED
    BY <2>1
<1>3. ASSUME NEW r \in Requests,
             \/ StoreGraph(r) \/ StoreScore(r) \/ StoreSubmission(r) \/ BeginAdmit(r)
             \/ StoreReceipt(r) \/ Invalidate(r)
      PROVE  AdmissionAnnounced'
  <2>1. UNCHANGED <<board, announced, dropped, graph, admitted>>
    BY <1>3, InvalidateIs DEF StoreGraph, StoreScore, StoreSubmission, BeginAdmit, StoreReceipt
  <2>2. QED
    BY <1>1, <2>1
<1>4. ASSUME NEW r \in Requests, CommitAdmit(r)
      PROVE  AdmissionAnnounced'
  <2> PICK C \in SUBSET (board \cup {graph[r]}), some \in BOOLEAN :
        /\ ~some => C = board
        /\ board' = C
        /\ admitted' = [admitted EXCEPT ![r] = some]
    BY <1>4 DEF CommitAdmit
  <2>1. pc[r] = "admitting" /\ ~admitted[r] /\ UNCHANGED <<announced, dropped, graph>>
    BY <1>4 DEF CommitAdmit, Step, RequestInv
  <2>2. /\ \A q \in Requests : q # r => admitted'[q] = admitted[q]
        /\ admitted'[r] = some
    BY DEF RequestInv
  <2>3. ASSUME NEW b \in board'
        PROVE  b \in announced \cup dropped \cup {graph'[q] : q \in {x \in Requests : admitted'[x]}}
    <3>1. CASE b \in board
      BY <2>1, <2>2, <3>1
    <3>2. CASE b \notin board
      <4>1. b = graph[r] /\ admitted'[r]
        BY <2>2, <2>3, <3>2
      <4>2. QED
        BY <2>1, <4>1
    <3>3. QED
      BY <3>1, <3>2
  <2>4. QED
    BY <2>1, <2>3
<1>5. ASSUME NEW r \in Requests, Finish(r) \/ Publish(r) \/ Drop(r)
      PROVE  AdmissionAnnounced'
  <2>1. /\ board' = board /\ announced \subseteq announced' /\ dropped \subseteq dropped'
        /\ admitted[r] => graph[r] \in announced' \cup dropped'
    BY <1>5 DEF Finish, Publish, Drop
  <2>2. \A q \in Requests : q # r => graph'[q] = graph[q] /\ admitted'[q] = admitted[q]
    BY <1>5 DEF Finish, Publish, Drop, End, RequestInv
  <2>3. QED
    BY <2>1, <2>2
<1>6. ASSUME NEW d \in Readers, (\E k \in Asked : Miss(d, k)) \/ Read(d) \/ DropRead(d)
      PROVE  AdmissionAnnounced'
  BY <1>1, <1>6 DEF Miss, Read, Query, Fill, DropRead
<1>7. ASSUME NEW k \in Kinds, Expire(k)
      PROVE  AdmissionAnnounced'
  BY <1>1, <1>7 DEF Expire
<1>8. CASE Restart
  <2>1. board' \subseteq board /\ announced' = announced
        /\ dropped' = dropped \cup {graph[r] : r \in Unannounced}
    BY <1>8 DEF Restart
  <2>2. QED
    BY <2>1
<1>9. CASE UNCHANGED vars
  BY <1>1, <1>9 DEF vars
<1>10. QED
  BY <1>2, <1>3, <1>4, <1>5, <1>6, <1>7, <1>8, <1>9, FoundAssumption DEF Next, Handle

(***************************************************************************)
(* Every admission is announced, is about to be, or was cut off on its way *)
(* by an error, a timeout or a restart (submit.rs, the event at the end).  *)
(***************************************************************************)
THEOREM AnnouncedAlways == Spec => []AdmissionAnnounced
<1>1. Init => AdmissionAnnounced
  BY DEF Init, AdmissionAnnounced
<1>2. QED
  BY <1>1, InitRequest, RequestStep, AnnouncedStep, PTL DEF Spec
-----------------------------------------------------------------------------
(***************************************************************************)
(* Cached answers.                                                         *)
(***************************************************************************)
\* The boards behind an answer, seen from board B: what each saw stands in the later
\* ones, and in B.
Honest(clash, answer, B) ==
  /\ answer \in Seq(SUBSET Graphs)
  /\ \A i, j \in DOMAIN answer :
       /\ Stands(clash, answer[i], B)
       /\ i <= j => Stands(clash, answer[i], answer[j])

CacheInv ==
  /\ cache \in [Kinds -> Seq(SUBSET Graphs)]
  /\ seen \in [Readers -> Seq(SUBSET Graphs)]
  /\ reading \in [Readers -> Kinds \cup {"none"}]
  /\ \A k \in Kinds : Honest(clashed, cache[k], board)
  /\ \A d \in Readers : Honest(clashed, seen[d], board)

LEMMA StandsSame ==
  ASSUME NEW B \in SUBSET Graphs, NEW clash
  PROVE  Stands(clash, B, B)
<1>1. \A x \in B : x <= x
  BY GraphsAssumption
<1>2. QED
  BY <1>1 DEF Stands

LEMMA StandsLater ==
  ASSUME NEW A \in SUBSET Graphs, NEW B \in SUBSET Graphs, NEW C \in SUBSET Graphs,
         NEW clash, Stands(clash, A, B), Stands(clash, B, C)
  PROVE  Stands(clash, A, C)
<1>1. ASSUME Capacity > 0, NEW x \in A
      PROVE  \E c \in C : c <= x
  <2>1. PICK b \in B : b <= x
    BY <1>1 DEF Stands
  <2>2. PICK c \in C : c <= b
    BY <1>1 DEF Stands
  <2>3. x \in Nat /\ b \in Nat /\ c \in Nat
    BY GraphsAssumption
  <2>4. QED
    BY <2>1, <2>2, <2>3
<1>2. QED
  BY <1>1 DEF Stands

LEMMA EmptyHonest ==
  ASSUME NEW B, NEW clash
  PROVE  Honest(clash, <<>>, B)
BY DEF Honest

\* One more query: it sees the board of now.
LEMMA AppendHonest ==
  ASSUME NEW answer, NEW B, NEW clash, Honest(clash, answer, B), B \subseteq Graphs
  PROVE  Honest(clash, Append(answer, B), B)
<1>1. /\ answer \in Seq(SUBSET Graphs) /\ B \in SUBSET Graphs
      /\ Len(answer) \in Nat /\ DOMAIN answer = 1..Len(answer)
  BY DEF Honest
<1> DEFINE longer == Append(answer, B)
<1>2. /\ longer \in Seq(SUBSET Graphs) /\ DOMAIN longer = 1..(Len(answer) + 1)
      /\ longer[Len(answer) + 1] = B
      /\ \A i \in 1..Len(answer) : longer[i] = answer[i]
  BY <1>1
<1>3. ASSUME NEW i \in DOMAIN longer, NEW j \in DOMAIN longer
      PROVE  /\ Stands(clash, longer[i], B)
             /\ i <= j => Stands(clash, longer[i], longer[j])
  <2>1. Stands(clash, longer[i], B)
    <3>1. CASE i = Len(answer) + 1
      BY <1>1, <1>2, <3>1, StandsSame
    <3>2. CASE i \in 1..Len(answer)
      BY <1>1, <1>2, <3>2 DEF Honest
    <3>3. QED
      BY <1>1, <1>2, <3>1, <3>2
  <2>2. ASSUME i <= j
        PROVE  Stands(clash, longer[i], longer[j])
    <3>1. CASE j = Len(answer) + 1
      BY <1>2, <2>1, <3>1
    <3>2. CASE j \in 1..Len(answer)
      <4>1. i \in 1..Len(answer)
        BY <1>1, <1>2, <2>2, <3>2
      <4>2. QED
        BY <1>1, <1>2, <2>2, <3>2, <4>1 DEF Honest
    <3>3. QED
      BY <1>1, <1>2, <3>1, <3>2
  <2>3. QED
    BY <2>1, <2>2
<1>4. QED
  BY <1>2, <1>3 DEF Honest

\* The board of a step later stands for the board of now, so an answer stays honest.
LEMMA HonestLater ==
  ASSUME NEW answer, NEW B \in SUBSET Graphs, NEW C \in SUBSET Graphs,
         NEW clash \in BOOLEAN, NEW later \in BOOLEAN, clash => later,
         Honest(clash, answer, B), Stands(clash, B, C)
  PROVE  Honest(later, answer, C)
<1>1. answer \in Seq(SUBSET Graphs) /\ \A i \in DOMAIN answer : answer[i] \in SUBSET Graphs
  BY DEF Honest
<1>2. \A D, E \in SUBSET Graphs : Stands(clash, D, E) => Stands(later, D, E)
  BY DEF Stands
<1>3. ASSUME NEW i \in DOMAIN answer
      PROVE  Stands(later, answer[i], C)
  <2>1. Stands(clash, answer[i], B) /\ answer[i] \in SUBSET Graphs
    BY <1>1 DEF Honest
  <2>2. Stands(clash, answer[i], C)
    BY <2>1, StandsLater
  <2>3. QED
    BY <1>2, <2>1, <2>2
<1>4. ASSUME NEW i \in DOMAIN answer, NEW j \in DOMAIN answer, i <= j
      PROVE  Stands(later, answer[i], answer[j])
  BY <1>1, <1>2, <1>4 DEF Honest
<1>5. QED
  BY <1>1, <1>3, <1>4 DEF Honest

LEMMA InitCache == Init => CacheInv
<1> SUFFICES ASSUME Init
             PROVE  CacheInv
  OBVIOUS
<1>1. /\ \A k \in Kinds : cache[k] = <<>>
      /\ \A d \in Readers : seen[d] = <<>>
  BY DEF Init
<1>2. <<>> \in Seq(SUBSET Graphs)
  OBVIOUS
<1>3. /\ cache \in [Kinds -> Seq(SUBSET Graphs)]
      /\ seen \in [Readers -> Seq(SUBSET Graphs)]
      /\ reading \in [Readers -> Kinds \cup {"none"}]
  BY <1>2 DEF Init
<1>4. QED
  BY <1>1, <1>3, EmptyHonest DEF CacheInv

\* What a step leaves in the cache, and with the readers.
Kept ==
  /\ \A k \in Kinds : cache'[k] = <<>> \/ cache'[k] = cache[k]
                      \/ \E d \in Readers : cache'[k] = seen[d]
  /\ \A d \in Readers : seen'[d] = <<>> \/ seen'[d] = seen[d]
                        \/ seen'[d] = Append(seen[d], board)

Shape == /\ DOMAIN cache = Kinds /\ cache = [k \in Kinds |-> cache[k]]
         /\ DOMAIN seen = Readers /\ seen = [d \in Readers |-> seen[d]]
         /\ reading \in [Readers -> Kinds \cup {"none"}]

LEMMA KeptStep == Shape /\ [Next]_vars => Kept /\ Shape'
<1> SUFFICES ASSUME Shape, [Next]_vars
             PROVE  Kept /\ Shape'
  OBVIOUS
<1> USE DEF Kept, Shape, reads
<1>1. ASSUME UNCHANGED <<cache, reads>>
      PROVE  Kept /\ Shape'
  BY <1>1
<1>2. ASSUME NEW r \in Requests,
             (Handle(r) /\ ~Invalidate(r)) \/ Drop(r) \/ \E g \in Found : Arrive(r, g)
      PROVE  Kept /\ Shape'
  <2>1. UNCHANGED <<cache, reads>>
    BY <1>2 DEF Handle, StoreGraph, StoreScore, StoreSubmission, BeginAdmit,
       CommitAdmit, StoreReceipt,
       Finish, Publish, Drop, Arrive
  <2>2. QED
    BY <1>1, <2>1
<1>3. ASSUME NEW r \in Requests, Invalidate(r)
      PROVE  Kept /\ Shape'
  <2>1. UNCHANGED reads /\ \E k \in Kinds : cache' = [cache EXCEPT ![k] = <<>>]
    BY <1>3, InvalidateIs
  <2>2. QED
    BY <2>1
<1>4. ASSUME NEW d \in Readers, NEW k \in Kinds, Miss(d, k)
      PROVE  Kept /\ Shape'
  BY <1>4 DEF Miss
<1>5. ASSUME NEW d \in Readers, Query(d)
      PROVE  Kept /\ Shape'
  BY <1>5 DEF Query
<1>6. ASSUME NEW d \in Readers, Fill(d)
      PROVE  Kept /\ Shape'
  <2>1. reading[d] \in Kinds
    BY <1>6 DEF Fill
  <2>2. QED
    BY <1>6, <2>1 DEF Fill
<1>7. ASSUME NEW d \in Readers, DropRead(d)
      PROVE  Kept /\ Shape'
  BY <1>7 DEF DropRead
<1>8. ASSUME NEW k \in Kinds, Expire(k)
      PROVE  Kept /\ Shape'
  BY <1>8 DEF Expire
<1>9. CASE Restart
  BY <1>9 DEF Restart
<1>10. CASE UNCHANGED vars
  BY <1>1, <1>10 DEF vars
<1>11. QED
  BY <1>2, <1>3, <1>4, <1>5, <1>6, <1>7, <1>8, <1>9, <1>10, AskedAssumption DEF Next, Read

LEMMA CacheStep == RequestInv /\ CacheInv /\ [Next]_vars => CacheInv'
<1> SUFFICES ASSUME RequestInv, CacheInv, [Next]_vars
             PROVE  CacheInv'
  OBVIOUS
<1>1. Kept /\ Shape'
  BY KeptStep DEF CacheInv, Shape
<1>2. /\ Stands(clashed, board, board') /\ (clashed => clashed')
      /\ clashed \in BOOLEAN /\ clashed' \in BOOLEAN
      /\ board \in SUBSET Graphs /\ board' \in SUBSET Graphs
  <2>1. RequestInv'
    BY RequestStep
  <2>2. Stands(clashed, board, board') /\ (clashed => clashed')
    BY StandsStep, ClashStep
  <2>3. QED
    BY <2>1, <2>2 DEF RequestInv
<1>3. /\ \A d \in Readers : /\ Honest(clashed, seen[d], board)
                           /\ Honest(clashed, Append(seen[d], board), board)
      /\ \A k \in Kinds : Honest(clashed, cache[k], board)
      /\ Honest(clashed, <<>>, board)
  <2>1. board \subseteq Graphs
    BY DEF RequestInv
  <2>2. QED
    BY <2>1, EmptyHonest, AppendHonest DEF CacheInv
<1>4. ASSUME NEW k \in Kinds
      PROVE  Honest(clashed', cache'[k], board')
  <2>1. Honest(clashed, cache'[k], board)
    BY <1>1, <1>3 DEF Kept
  <2>2. QED
    BY <1>2, <2>1, HonestLater
<1>5. ASSUME NEW d \in Readers
      PROVE  Honest(clashed', seen'[d], board')
  <2>1. Honest(clashed, seen'[d], board)
    BY <1>1, <1>3 DEF Kept
  <2>2. QED
    BY <1>2, <2>1, HonestLater
<1>6. /\ cache' \in [Kinds -> Seq(SUBSET Graphs)]
      /\ seen' \in [Readers -> Seq(SUBSET Graphs)]
  <2>1. /\ \A k \in Kinds : cache'[k] \in Seq(SUBSET Graphs)
        /\ \A d \in Readers : seen'[d] \in Seq(SUBSET Graphs)
    BY <1>4, <1>5 DEF Honest
  <2>2. QED
    BY <1>1, <2>1 DEF Shape
<1>7. QED
  BY <1>1, <1>4, <1>5, <1>6 DEF CacheInv, Shape

(***************************************************************************)
(* Whatever requests, expiries, invalidations and restarts came between    *)
(* the queries of a cached answer and now, what it saw stands: its rows    *)
(* are matched, and, until calls for one graph overlap, a count that says  *)
(* full has its threshold from a full board, and the board is full         *)
(* (cache.rs, leaderboard.rs).                                             *)
(***************************************************************************)
THEOREM CachedStandsAlways == Spec => []CachedStands
<1>1. CacheInv => CachedStands
  BY DEF CacheInv, Honest, CachedStands
<1>2. QED
  BY <1>1, InitRequest, InitCache, RequestStep, CacheStep, PTL DEF Spec
=============================================================================
