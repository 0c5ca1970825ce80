--------------------------- MODULE AdmissionProofs ---------------------------
(***************************************************************************)
(* Proofs about Admission, for any graphs, capacity and number of          *)
(* concurrent transactions.                                                *)
(***************************************************************************)
EXTENDS Admission, FiniteSetTheorems, TLAPS

\* No two transactions that overlap carry the same graph.
DistinctInFlight == Overlap # "any"

(***************************************************************************)
(* Typing.                                                                 *)
(***************************************************************************)
LEMMA PositionType ==
  ASSUME NEW S, IsFiniteSet(S), NEW g
  PROVE  Position(g, S) \in Nat
BY FS_Subset, FS_CardinalityType DEF Position

\* Typing needs the sets that are counted to be finite.
TInv ==
  /\ TypeOK
  /\ IsFiniteSet(board)
  /\ \A t \in Txs :
       /\ IsFiniteSet(ins[t])
       /\ pc[t] \notin {"idle", "trim", "trimming", "commit"} => graph[t] \in Graphs

LEMMA ViewFinite ==
  ASSUME TInv, NEW t \in Txs
  PROVE  IsFiniteSet(View(t)) /\ View(t) \subseteq Graphs
<1>1. IsFiniteSet(board \cup ins[t])
  BY FS_Union DEF TInv
<1>2. QED
  BY <1>1, FS_Subset DEF View, TInv, TypeOK

LEMMA CloseType ==
  ASSUME TInv, NEW t \in Txs, NEW gone, Close(t, gone), board' \subseteq Graphs,
         IsFiniteSet(board'), rank' \in [Graphs -> Nat], decided' \subseteq Graphs
  PROVE  TInv'
<1>1. /\ pc' \in [Txs -> Stmts \cup {"idle"}]
      /\ graph' \in [Txs -> Graphs \cup {None}]
      /\ worst' \in [Txs -> Graphs \cup {None}]
      /\ newRank' \in [Txs -> Nat]
      /\ ins' \in [Txs -> SUBSET Graphs]
      /\ del' \in [Txs -> SUBSET Graphs]
      /\ todo' \in [Txs -> SUBSET Graphs]
  BY DEF TInv, TypeOK, Close, Goto
<1>2. \A u \in Txs : pc'[u] = "idle" => ins'[u] \cup del'[u] \cup todo'[u] = {}
  BY DEF TInv, TypeOK, Close, Goto, Active
<1>3. \A u \in Txs : /\ IsFiniteSet(ins'[u])
                     /\ pc'[u] \notin {"idle", "trim", "trimming", "commit"} => graph'[u] \in Graphs
  BY FS_EmptySet DEF TInv, TypeOK, Close, Goto
<1>4. QED
  BY <1>1, <1>2, <1>3 DEF TInv, TypeOK, Active

LEMMA InitType == Init => TInv
<1> SUFFICES ASSUME Init
             PROVE  TInv
  OBVIOUS
<1>1. board = {} /\ rank \in [Graphs -> Nat] /\ decided = {}
  BY DEF Init
<1>2. /\ pc \in [Txs -> Stmts \cup {"idle"}]
      /\ graph \in [Txs -> Graphs \cup {None}]
      /\ worst \in [Txs -> Graphs \cup {None}]
      /\ newRank \in [Txs -> Nat]
  BY DEF Init
<1>3. /\ ins \in [Txs -> SUBSET Graphs]
      /\ del \in [Txs -> SUBSET Graphs]
      /\ todo \in [Txs -> SUBSET Graphs]
  BY DEF Init
<1>4. \A t \in Txs : pc[t] = "idle" /\ ins[t] = {} /\ del[t] = {} /\ todo[t] = {}
  BY DEF Init
<1>5. QED
  BY <1>1, <1>2, <1>3, <1>4, FS_EmptySet DEF TInv, TypeOK

LEMMA StepType == TInv /\ [Next]_vars => TInv'
<1> SUFFICES ASSUME TInv, [Next]_vars
             PROVE  TInv'
  OBVIOUS
<1> USE DEF TInv, TypeOK, Goto, Active, local
<1>1. ASSUME NEW t \in Txs, NEW g \in Graphs, Begin(t, g)
      PROVE  TInv'
  BY <1>1 DEF Begin, Stmts
<1>2. ASSUME NEW t \in Txs, BeginTrim(t)
      PROVE  TInv'
  BY <1>2 DEF BeginTrim, Stmts
<1>3. ASSUME NEW t \in Txs, graph[t] \in Graphs, ReturnNone(t)
      PROVE  TInv'
  BY <1>3, CloseType DEF ReturnNone
<1>4. ASSUME NEW t \in Txs, CheckExisting(t)
      PROVE  TInv'
  <2>1. CASE ReturnNone(t)
    BY <1>3, <1>4, <2>1 DEF CheckExisting
  <2>2. CASE Goto(t, "count") /\ UNCHANGED <<board, rank, decided, local>>
    BY <1>4, <2>2 DEF CheckExisting, Stmts
  <2>3. QED
    BY <1>4, <2>1, <2>2 DEF CheckExisting
<1>5. ASSUME NEW t \in Txs, CountRows(t)
      PROVE  TInv'
  BY <1>5 DEF CountRows, Stmts
<1>6. ASSUME NEW t \in Txs, ReadWorst(t)
      PROVE  TInv'
  <2>1. CASE ReturnNone(t)
    BY <1>3, <1>6, <2>1 DEF ReadWorst
  <2>2. CASE Goto(t, "rank") /\ UNCHANGED <<board, rank, decided, local>>
    BY <1>6, <2>2 DEF ReadWorst, Stmts
  <2>3. ASSUME NEW w \in View(t),
               worst' = [worst EXCEPT ![t] = w],
               Goto(t, "evict"),
               UNCHANGED <<board, rank, decided, graph, newRank, ins, del, todo>>
        PROVE  TInv'
    BY <1>6, <2>3, ViewFinite DEF ReadWorst, Stmts
  <2>4. QED
    BY <1>6, <2>1, <2>2, <2>3 DEF ReadWorst
<1>7. ASSUME NEW t \in Txs, EvictWorst(t)
      PROVE  TInv'
  BY <1>7, ViewFinite DEF EvictWorst, Stmts
<1>8. ASSUME NEW t \in Txs, CountBetter(t)
      PROVE  TInv'
  <2>1. Position(graph[t], View(t)) \in Nat
    BY ViewFinite, PositionType
  <2>2. QED
    BY <1>8, <2>1 DEF CountBetter, Stmts
<1>9. ASSUME NEW t \in Txs, InsertRow(t)
      PROVE  TInv'
  <2>1. IsFiniteSet({graph[t]} \ board) /\ {graph[t]} \ board \subseteq Graphs
    BY <1>9, FS_Singleton, FS_Subset DEF InsertRow
  <2>2. QED
    BY <1>9, <2>1 DEF InsertRow, Stmts
<1>10. ASSUME NEW t \in Txs, SelectExcess(t)
       PROVE  TInv'
  BY <1>10, ViewFinite DEF SelectExcess, Stmts
<1>11. ASSUME NEW t \in Txs, TrimRow(t)
       PROVE  TInv'
  BY <1>11 DEF TrimRow, Stmts
<1>12. ASSUME NEW t \in Txs, TrimDone(t)
       PROVE  TInv'
  BY <1>12 DEF TrimDone, Stmts
<1>13. ASSUME NEW t \in Txs, Commit(t)
       PROVE  TInv'
  <2>1. board' \subseteq Graphs /\ IsFiniteSet(board')
    BY <1>13, ViewFinite DEF Commit
  <2>2. rank' \in [Graphs -> Nat] /\ decided' \subseteq Graphs
    BY <1>13 DEF Commit
  <2>3. QED
    BY <1>13, <2>1, <2>2, CloseType DEF Commit
<1>14. ASSUME NEW t \in Txs, Abort(t)
       PROVE  TInv'
  BY <1>14, CloseType DEF Abort
<1>15. CASE UNCHANGED vars
  BY <1>15 DEF vars
<1>16. QED
  BY <1>1, <1>2, <1>4, <1>5, <1>6, <1>7, <1>8, <1>9, <1>10, <1>11, <1>12,
     <1>13, <1>14, <1>15 DEF Next, Statement

(***************************************************************************)
(* Every variable keeps its type, and a connection outside a transaction   *)
(* holds no lock and no uncommitted row, whatever overlaps.                *)
(***************************************************************************)
THEOREM TypeCorrect == Spec => []TypeOK
<1>1. TInv => TypeOK
  BY DEF TInv
<1>2. QED
  BY <1>1, InitType, StepType, PTL DEF Spec
-----------------------------------------------------------------------------
(***************************************************************************)
(* Counting.                                                               *)
(***************************************************************************)
\* More rows below g can only help.
LEMMA BeatenMono ==
  ASSUME NEW S, NEW T, NEW g, IsFiniteSet(T),
         \A b \in S : b < g => b \in T,
         Beaten(g, S)
  PROVE  Beaten(g, T)
<1>1. {b \in S : b < g} \subseteq {b \in T : b < g}
  OBVIOUS
<1>2. IsFiniteSet({b \in T : b < g})
  BY FS_Subset
<1>3. IsFiniteSet({b \in S : b < g})
  BY <1>1, <1>2, FS_Subset
<1>4. Cardinality({b \in S : b < g}) <= Cardinality({b \in T : b < g})
  BY <1>1, <1>2, FS_Subset
<1>5. /\ Cardinality({b \in S : b < g}) \in Nat
      /\ Cardinality({b \in T : b < g}) \in Nat
  BY <1>2, <1>3, FS_CardinalityType
<1>6. QED
  BY <1>4, <1>5, CapacityAssumption DEF Beaten

\* A set of enough rows, all below g, beats it.
LEMMA BeatenBy ==
  ASSUME NEW S, NEW T, NEW g, IsFiniteSet(T),
         S \subseteq T, \A b \in S : b < g,
         Cardinality(S) >= Capacity
  PROVE  Beaten(g, T)
<1>1. S \subseteq {b \in T : b < g}
  OBVIOUS
<1>2. IsFiniteSet({b \in T : b < g}) /\ IsFiniteSet(S)
  BY FS_Subset
<1>3. Cardinality(S) <= Cardinality({b \in T : b < g})
  BY <1>1, <1>2, FS_Subset
<1>4. Cardinality(S) \in Nat /\ Cardinality({b \in T : b < g}) \in Nat
  BY <1>2, FS_CardinalityType
<1>5. QED
  BY <1>3, <1>4, CapacityAssumption DEF Beaten

\* What the trim keeps when it takes anything: Capacity rows.
LEMMA TrimKeeps ==
  ASSUME NEW S, NEW V, IsFiniteSet(S), IsTail(V, S, Excess(S)), V # {}
  PROVE  Cardinality(S \ V) = Capacity
<1>1. IsFiniteSet(V) /\ Cardinality(V) \in Nat /\ Cardinality(S) \in Nat
  BY FS_Subset, FS_CardinalityType DEF IsTail
<1>2. Cardinality(V) # 0
  BY <1>1, FS_EmptySet
<1>3. Cardinality(V) = Cardinality(S) - Capacity
  BY <1>1, <1>2, CapacityAssumption DEF IsTail, Excess
<1>4. S \cap V = V
  BY DEF IsTail
<1>5. Cardinality(S \ V) = Cardinality(S) - Cardinality(V)
  BY <1>4, FS_Difference
<1>6. QED
  BY <1>1, <1>3, <1>5, CapacityAssumption

\* The rows below the worst of a board, and a new graph below it too.
LEMMA BelowWorst ==
  ASSUME NEW S, NEW w, NEW g, IsFiniteSet(S), S \subseteq Nat,
         IsTail({w}, S, 1), g \in Nat, g \notin S, g < w,
         Cardinality(S) >= Capacity
  PROVE  Beaten(w, S \cup {g})
<1>1. w \in S /\ \A b \in S \ {w} : b < w
  BY DEF IsTail
<1>2. g \notin S \ {w}
  OBVIOUS
<1>3. IsFiniteSet(S \ {w}) /\ Cardinality(S \ {w}) = Cardinality(S) - 1
  BY <1>1, FS_RemoveElement
<1>4. Cardinality((S \ {w}) \cup {g}) = (Cardinality(S) - 1) + 1
  BY <1>2, <1>3, FS_AddElement
<1>5. Cardinality(S) \in Nat
  BY FS_CardinalityType
<1>6. Cardinality((S \ {w}) \cup {g}) >= Capacity
  BY <1>4, <1>5, CapacityAssumption
<1>7. IsFiniteSet(S \cup {g})
  BY FS_AddElement
<1>8. \A b \in (S \ {w}) \cup {g} : b < w
  BY <1>1
<1>9. QED
  BY <1>6, <1>7, <1>8, BeatenBy

-----------------------------------------------------------------------------
(***************************************************************************)
(* The transactions that take no part in a step.                           *)
(***************************************************************************)
\* A step of t that commits nothing and touches nobody else.
Quiet(t) ==
  /\ board' = board
  /\ \A u \in Txs \ {t} :
       /\ pc'[u] = pc[u] /\ graph'[u] = graph[u] /\ worst'[u] = worst[u]
       /\ ins'[u] = ins[u] /\ del'[u] = del[u] /\ todo'[u] = todo[u]

\* t's graph, if it changes, is one that nobody else carries.
NewGraph(t) ==
  \A u \in Txs \ {t} : graph[u] # None => graph'[t] # graph[u]

LEMMA OthersKeep ==
  ASSUME IInv, NEW t \in Txs, Quiet(t), NewGraph(t), NEW u \in Txs \ {t}
  PROVE  (Written(u) /\ Alone(u) /\ Read(u))'
<1> USE DEF Quiet
<1>1. Written(u) /\ Alone(u) /\ Read(u)
  BY DEF IInv
<1>2. Mine(u)' = Mine(u) /\ Gone(u)' = Gone(u)
  BY DEF Mine, Gone
<1>3. After(u)' = After(u)
  BY <1>2 DEF After
<1>4. Safe(u)' = Safe(u)
  BY <1>2, <1>3 DEF Safe
<1>5. Written(u)'
  BY <1>1, <1>2 DEF Written
<1>6. Alone(u)'
  BY <1>1 DEF Alone, NewGraph
<1>7. Beaten(worst[u], board \cup Mine(u))' <=> Beaten(worst[u], board \cup Mine(u))
  BY <1>2 DEF Beaten
<1>8. Read(u)'
  BY <1>1, <1>2, <1>4, <1>7 DEF Read
<1>9. QED
  BY <1>5, <1>6, <1>8

\* A transaction that ends without writing leaves no trace.
LEMMA CloseQuiet ==
  ASSUME IInv, NEW t \in Txs, Close(t, {}), board' = board
  PROVE  /\ Quiet(t) /\ NewGraph(t)
         /\ (Written(t) /\ Alone(t) /\ Read(t))'
<1>1. /\ pc'[t] = "idle" /\ graph'[t] = None
      /\ ins'[t] = {} /\ del'[t] = {} /\ todo'[t] = {}
  BY DEF Close, Goto, IInv, TypeOK
<1>2. Quiet(t)
  BY DEF Close, Goto, Quiet, IInv, TypeOK
<1>3. NewGraph(t)
  BY <1>1 DEF NewGraph
<1>4. Written(t)'
  BY <1>1 DEF Written, Mine
<1>5. None \notin board
  BY GraphsAssumption DEF IInv, TypeOK, None
<1>6. Alone(t)'
  BY <1>1, <1>5 DEF Alone
<1>7. Read(t)'
  BY <1>1 DEF Read, Gone
<1>8. QED
  BY <1>2, <1>3, <1>4, <1>6, <1>7

-----------------------------------------------------------------------------
(***************************************************************************)
(* A commit gives no ground.                                               *)
(***************************************************************************)
LEMMA CommitShape ==
  ASSUME IInv, NEW u \in Txs, Commit(u)
  PROVE  /\ Gone(u) = del[u]
         /\ board' = After(u)
         /\ IsFiniteSet(board')
         /\ Safe(u) \subseteq board'
         /\ del[u] # {} => Cardinality(Safe(u)) >= Capacity
<1>1. Written(u) /\ Read(u) /\ pc[u] = "commit"
  BY DEF IInv, Commit
<1>2. todo[u] = {} /\ ins[u] = Mine(u)
  BY <1>1 DEF Written
<1>3. Gone(u) = del[u]
  BY <1>2 DEF Gone
<1>4. board' = After(u)
  BY <1>2, <1>3 DEF Commit, View, After
<1>5. IsFiniteSet(board \cup Mine(u))
  BY FS_Singleton, FS_Union, FS_Subset DEF IInv, Mine
<1>6. IsFiniteSet(board')
  BY <1>4, <1>5, FS_Subset DEF After
<1>7. QED
  BY <1>1, <1>3, <1>4, <1>6 DEF Safe, Read

LEMMA CommitGround ==
  ASSUME IInv, NEW u \in Txs, Commit(u),
         NEW M, IsFiniteSet(M), M \subseteq Nat, NEW g \in Nat, Beaten(g, board \cup M)
  PROVE  Beaten(g, board' \cup M)
<1>1. IsFiniteSet(board' \cup M)
  BY CommitShape, FS_Union
<1>2. board \subseteq Nat /\ del[u] \subseteq Nat
  BY GraphsAssumption DEF IInv, TypeOK
<1>3. CASE \E y \in del[u] : y <= g
  <2>1. PICK y \in del[u] : y <= g
    BY <1>3
  <2>2. Safe(u) \subseteq board' \cup M
    BY CommitShape
  <2>3. Safe(u) \subseteq Nat
    BY <1>2, GraphsAssumption DEF Safe, After, Mine, IInv, TypeOK
  <2>4. \A b \in Safe(u) : b < g
    <3>1. y \in Gone(u) /\ y \in Nat
      BY <1>2, CommitShape
    <3>2. \A b \in Safe(u) : b < y
      BY <3>1 DEF Safe
    <3>3. QED
      BY <2>1, <2>3, <3>1, <3>2
  <2>5. Cardinality(Safe(u)) >= Capacity
    BY <2>1, CommitShape
  <2>6. QED
    BY <1>1, <2>2, <2>4, <2>5, BeatenBy
<1>4. CASE ~\E y \in del[u] : y <= g
  <2>1. \A b \in board \cup M : b < g => b \in board' \cup M
    BY <1>2, <1>4 DEF Commit, View
  <2>2. QED
    BY <1>1, <2>1, BeatenMono
<1>5. QED
  BY <1>3, <1>4

LEMMA EnoughMono ==
  ASSUME NEW S, NEW T, IsFiniteSet(T), S \subseteq T, Cardinality(S) >= Capacity
  PROVE  Cardinality(T) >= Capacity
<1>1. Cardinality(S) <= Cardinality(T) /\ IsFiniteSet(S)
  BY FS_Subset
<1>2. Cardinality(S) \in Nat /\ Cardinality(T) \in Nat
  BY <1>1, FS_CardinalityType
<1>3. QED
  BY <1>1, <1>2, CapacityAssumption

\* What t has lined up stays safe when u commits.
LEMMA SafeKeeps ==
  ASSUME IInv, NEW u \in Txs, Commit(u), NEW t \in Txs \ {u}, Gone(t)' # {}
  PROVE  Cardinality(Safe(t)') >= Capacity
<1>1. /\ graph'[t] = graph[t] /\ del'[t] = del[t]
      /\ todo'[t] = todo[t] \ del[u]
  BY DEF Commit, Close, IInv, TypeOK
<1>2. Mine(t)' = Mine(t) /\ Gone(t)' \subseteq Gone(t)
  BY <1>1 DEF Mine, Gone
<1>3. /\ board \subseteq Nat /\ del[u] \subseteq Nat /\ Gone(t) \subseteq Nat
      /\ Mine(t) \subseteq Nat /\ Mine(u) \subseteq Nat
  BY GraphsAssumption DEF IInv, TypeOK, Gone, Mine
<1>4. board' = (board \cup Mine(u)) \ del[u]
  BY CommitShape DEF After
<1>5. IsFiniteSet(Safe(t)')
  <2>1. IsFiniteSet(board' \cup Mine(t))
    BY CommitShape, FS_Singleton, FS_Union, FS_Subset DEF Mine
  <2>2. Safe(t)' \subseteq board' \cup Mine(t)
    BY <1>2 DEF Safe, After
  <2>3. QED
    BY <2>1, <2>2, FS_Subset
<1>6. CASE \E y \in del[u] : \A z \in Gone(t)' : y < z
  <2>1. PICK y \in del[u] : \A z \in Gone(t)' : y < z
    BY <1>6
  <2>2. Safe(u) \subseteq board' /\ Cardinality(Safe(u)) >= Capacity
    BY <2>1, CommitShape
  <2>3. \A b \in Safe(u) : b \in Nat /\ b < y
    BY <1>3, <1>4, <2>1, <2>2, CommitShape DEF Safe
  <2>4. \A b \in Safe(u) : \A z \in Gone(t)' : b < z
    BY <1>2, <1>3, <2>1, <2>3
  <2>5. \A b \in Safe(u) : b \notin Gone(t)'
    BY <2>3, <2>4
  <2>6. Safe(u) \subseteq Safe(t)'
    BY <2>2, <2>4, <2>5 DEF Safe, After
  <2>7. QED
    BY <1>5, <2>2, <2>6, EnoughMono
<1>7. CASE ~\E y \in del[u] : \A z \in Gone(t)' : y < z
  <2>1. Gone(t) # {} /\ Read(t)
    BY <1>2 DEF IInv
  <2>2. Cardinality(Safe(t)) >= Capacity
    BY <2>1 DEF Read
  <2>3. ASSUME NEW b \in Safe(t)
        PROVE  b \in Safe(t)'
    <3>1. /\ b \in board \cup Mine(t) /\ b \in Nat /\ b \notin Gone(t)
          /\ \A z \in Gone(t) : b < z
      BY <1>3 DEF Safe, After
    <3>2. b \notin del[u]
      <4>1. SUFFICES ASSUME b \in del[u]
                     PROVE  FALSE
        OBVIOUS
      <4>2. PICK z \in Gone(t)' : ~(b < z)
        BY <1>7, <4>1
      <4>3. QED
        BY <1>2, <3>1, <4>2
    <3>3. b \in board' \cup Mine(t)'
      BY <1>2, <1>4, <3>1, <3>2
    <3>4. QED
      BY <1>2, <3>1, <3>3 DEF Safe, After
  <2>4. QED
    BY <1>5, <2>2, <2>3, EnoughMono
<1>8. QED
  BY <1>6, <1>7

LEMMA OthersKeepCommit ==
  ASSUME IInv, NEW u \in Txs, Commit(u), NEW t \in Txs \ {u}
  PROVE  (Written(t) /\ Alone(t) /\ Read(t))'
<1>1. /\ Written(t) /\ Alone(t) /\ Read(t)
      /\ Written(u) /\ Alone(u) /\ Read(u)
  BY DEF IInv
<1>2. /\ pc'[t] = pc[t] /\ graph'[t] = graph[t] /\ worst'[t] = worst[t]
      /\ ins'[t] = ins[t] /\ del'[t] = del[t] /\ todo'[t] = todo[t] \ del[u]
  BY DEF Commit, Close, Goto, IInv, TypeOK
<1>3. Mine(t)' = Mine(t)
  BY <1>2 DEF Mine
<1>4. board' = (board \cup Mine(u)) \ del[u]
  BY CommitShape DEF After
<1>5. Written(t)'
  BY <1>1, <1>2, <1>3 DEF Written
<1>6. Alone(t)'
  <2>1. pc[t] # "check" => graph[t] \notin board'
    BY <1>1, <1>4, GraphsAssumption DEF Alone, Mine, IInv, TypeOK, None
  <2>2. ASSUME NEW v \in Txs \ {t}, graph[t] # None
        PROVE  graph'[v] # graph[t]
    BY <1>1, <2>2 DEF Alone, Commit, Close, IInv, TypeOK
  <2>3. QED
    BY <1>2, <2>1, <2>2 DEF Alone
<1>7. Read(t)'
  <2>1. ASSUME pc[t] = "worst"
        PROVE  Cardinality(board') >= Capacity
    <3>1. CASE del[u] = {}
      BY <1>1, <1>4, <2>1, <3>1, CommitShape, EnoughMono DEF Read
    <3>2. CASE del[u] # {}
      BY <3>2, CommitShape, EnoughMono
    <3>3. QED
      BY <3>1, <3>2
  <2>2. ASSUME pc[t] = "evict"
        PROVE  Beaten(worst[t], board' \cup Mine(t))
    <3>1. IsFiniteSet(Mine(t)) /\ Mine(t) \subseteq Nat
      <4>1. Mine(t) \subseteq {graph[t]} /\ IsFiniteSet({graph[t]})
        BY FS_Singleton DEF Mine
      <4>2. IsFiniteSet(Mine(t))
        BY <4>1, FS_Subset
      <4>3. Mine(t) \subseteq Nat
        BY GraphsAssumption DEF Mine, IInv, TypeOK
      <4>4. QED
        BY <4>2, <4>3
    <3>2. worst[t] \in Nat /\ Beaten(worst[t], board \cup Mine(t))
      BY <1>1, <2>2, GraphsAssumption DEF Read
    <3>3. QED
      BY <3>1, <3>2, CommitGround
  <2>3. Beaten(worst[t], board \cup Mine(t))' <=> Beaten(worst[t], board' \cup Mine(t))
    BY <1>2, <1>3 DEF Beaten
  <2>4. QED
    BY <1>1, <1>2, <2>1, <2>2, <2>3, SafeKeeps DEF Read
<1>8. QED
  BY <1>5, <1>6, <1>7

-----------------------------------------------------------------------------
(***************************************************************************)
(* The inductive invariant.                                                *)
(***************************************************************************)
LEMMA IInvTyped == IInv => TInv
<1> SUFFICES ASSUME IInv
             PROVE  TInv
  OBVIOUS
<1>1. ASSUME NEW t \in Txs
      PROVE  IsFiniteSet(ins[t])
  <2>1. ins[t] \subseteq {graph[t]}
    BY DEF IInv, Written, Mine
  <2>2. QED
    BY <2>1, FS_Singleton, FS_Subset
<1>2. ASSUME NEW t \in Txs, pc[t] \notin {"idle", "trim", "trimming", "commit"}
      PROVE  graph[t] \in Graphs
  BY <1>2 DEF IInv, Written, TypeOK
<1>3. QED
  BY <1>1, <1>2 DEF IInv, TInv

LEMMA IInvInit == Init => IInv
<1> SUFFICES ASSUME Init
             PROVE  IInv
  OBVIOUS
<1>1. TInv
  BY InitType
<1>2. board = {} /\ decided = {}
  BY DEF Init
<1>3. ASSUME NEW t \in Txs
      PROVE  /\ pc[t] = "idle" /\ graph[t] = None
             /\ ins[t] = {} /\ del[t] = {} /\ todo[t] = {}
  BY DEF Init
<1>4. ASSUME NEW t \in Txs
      PROVE  Written(t) /\ Alone(t) /\ Read(t)
  BY <1>2, <1>3 DEF Written, Alone, Read, Mine, Gone
<1>5. TopKept
  BY <1>2 DEF TopKept
<1>6. QED
  BY <1>1, <1>4, <1>5 DEF IInv, TInv

\* A step of t that commits nothing keeps the invariant when t's own part holds.
LEMMA QuietStep ==
  ASSUME IInv, TInv', NEW t \in Txs, Quiet(t), NewGraph(t), TopKept',
         (Written(t) /\ Alone(t) /\ Read(t))'
  PROVE  IInv'
<1>1. ASSUME NEW u \in Txs
      PROVE  (Written(u) /\ Alone(u) /\ Read(u))'
  <2>1. CASE u = t
    BY <2>1
  <2>2. CASE u # t
    BY <2>2, OthersKeep
  <2>3. QED
    BY <2>1, <2>2
<1>2. QED
  BY <1>1 DEF IInv, TInv

LEMMA SameTop ==
  ASSUME IInv, UNCHANGED <<board, decided>>
  PROVE  TopKept'
<1>1. TopKept
  BY DEF IInv
<1>2. QED
  BY <1>1 DEF TopKept, Beaten

\* The step of a statement of t that keeps its graph.
LEMMA OwnStep ==
  ASSUME IInv, TInv', NEW t \in Txs, Quiet(t), UNCHANGED <<board, decided, graph>>,
         (Written(t) /\ Alone(t) /\ Read(t))'
  PROVE  IInv'
<1>1. NewGraph(t)
  BY DEF NewGraph, IInv, Alone
<1>2. QED
  BY <1>1, QuietStep, SameTop

LEMMA BeginKeeps ==
  ASSUME IInv, TInv', DistinctInFlight, NEW t \in Txs, NEW g \in Graphs, Begin(t, g)
  PROVE  IInv'
<1>1. /\ pc'[t] = "check" /\ graph'[t] = g /\ g # None
      /\ ins'[t] = {} /\ del'[t] = {} /\ todo'[t] = {}
  BY GraphsAssumption DEF Begin, Goto, Active, IInv, TypeOK, None
<1>2. Quiet(t)
  BY DEF Begin, Goto, Quiet, IInv, TypeOK
<1>3. ASSUME NEW u \in Txs \ {t}
      PROVE  graph[u] # g
  <2>1. CASE Overlap = "distinct"
    BY <2>1 DEF Begin, Arrives
  <2>2. CASE Overlap = "none"
    <3>1. pc[u] = "idle"
      BY <2>2 DEF Begin, Arrives, Active
    <3>2. QED
      BY <1>1, <3>1 DEF IInv, Written
  <2>3. QED
    BY <2>1, <2>2, OverlapAssumption DEF DistinctInFlight
<1>4. NewGraph(t)
  BY <1>1, <1>3 DEF NewGraph
<1>5. Written(t)'
  BY <1>1 DEF Written
<1>6. Alone(t)'
  BY <1>1, <1>2, <1>3 DEF Alone, Quiet
<1>7. Read(t)'
  BY <1>1 DEF Read, Gone
<1>8. TopKept'
  BY SameTop DEF Begin
<1>9. QED
  BY <1>2, <1>4, <1>5, <1>6, <1>7, <1>8, QuietStep

LEMMA BeginTrimKeeps ==
  ASSUME IInv, TInv', NEW t \in Txs, BeginTrim(t)
  PROVE  IInv'
<1>1. /\ pc[t] = "idle" /\ pc'[t] = "trim" /\ graph[t] = None
      /\ ins[t] = {} /\ del[t] = {} /\ todo[t] = {}
  BY DEF BeginTrim, Goto, Active, IInv, TypeOK, Written
<1>2. Quiet(t) /\ UNCHANGED <<board, decided, local>>
  BY DEF BeginTrim, Goto, Quiet, IInv, TypeOK, local
<1>3. Written(t)'
  BY <1>1, <1>2 DEF Written, Mine, local
<1>4. Alone(t)'
  BY <1>1, <1>2, GraphsAssumption DEF Alone, local, IInv, TypeOK, None
<1>5. Read(t)'
  BY <1>1, <1>2 DEF Read, Gone, local
<1>6. QED
  BY <1>2, <1>3, <1>4, <1>5, OwnStep DEF local

\* A transaction that writes nothing because its graph is listed or beaten.
LEMMA ReturnNoneKeeps ==
  ASSUME IInv, TInv', NEW t \in Txs, ReturnNone(t),
         graph[t] \in board \/ Beaten(graph[t], board)
  PROVE  IInv'
<1>1. /\ Quiet(t) /\ NewGraph(t)
      /\ (Written(t) /\ Alone(t) /\ Read(t))'
  BY CloseQuiet DEF ReturnNone
<1>2. TopKept'
  BY DEF IInv, TopKept, Beaten, ReturnNone
<1>3. QED
  BY <1>1, <1>2, QuietStep

LEMMA CheckExistingKeeps ==
  ASSUME IInv, TInv', NEW t \in Txs, CheckExisting(t)
  PROVE  IInv'
<1>1. pc[t] = "check" /\ Written(t) /\ Alone(t) /\ Read(t)
  BY DEF CheckExisting, IInv
<1>2. ins[t] = {} /\ del[t] = {} /\ View(t) = board
  BY <1>1 DEF Written, View
<1>3. CASE ReturnNone(t)
  <2>1. graph[t] \in board
    BY <1>2, <1>3 DEF CheckExisting, ReturnNone, Close, Goto, IInv, TypeOK
  <2>2. QED
    BY <1>3, <2>1, ReturnNoneKeeps
<1>4. CASE graph[t] \notin View(t) /\ Goto(t, "count")
           /\ UNCHANGED <<board, rank, decided, local>>
  <2>1. Quiet(t) /\ pc'[t] = "count"
    BY <1>4 DEF Quiet, Goto, IInv, TypeOK, local
  <2>2. Written(t)'
    BY <1>1, <1>4, <2>1 DEF Written, local
  <2>3. Alone(t)'
    BY <1>1, <1>2, <1>4 DEF Alone, local
  <2>4. Read(t)'
    BY <1>1, <1>4, <2>1 DEF Written, Read, Gone, local
  <2>5. QED
    BY <1>4, <2>1, <2>2, <2>3, <2>4, OwnStep DEF local
<1>5. QED
  BY <1>3, <1>4 DEF CheckExisting

LEMMA CountRowsKeeps ==
  ASSUME IInv, TInv', NEW t \in Txs, CountRows(t)
  PROVE  IInv'
<1>1. pc[t] = "count" /\ Written(t) /\ Alone(t) /\ Read(t)
  BY DEF CountRows, IInv
<1>2. View(t) = board
  BY <1>1 DEF Written, View
<1>3. /\ pc'[t] \in {"worst", "rank"}
      /\ pc'[t] = "worst" => Cardinality(board) >= Capacity
  BY <1>2 DEF CountRows, Goto, Full, IInv, TypeOK
<1>4. Quiet(t) /\ UNCHANGED <<board, decided, local>>
  BY DEF CountRows, Quiet, Goto, IInv, TypeOK, local
<1>5. Written(t)'
  BY <1>1, <1>3, <1>4 DEF Written, Mine, local
<1>6. Alone(t)'
  BY <1>1, <1>4 DEF Alone, Quiet, local
<1>7. Read(t)'
  BY <1>1, <1>3, <1>4 DEF Written, Read, Gone, local
<1>8. QED
  BY <1>4, <1>5, <1>6, <1>7, OwnStep DEF local

LEMMA ReadWorstKeeps ==
  ASSUME IInv, TInv', NEW t \in Txs, ReadWorst(t)
  PROVE  IInv'
<1>1. pc[t] = "worst" /\ Written(t) /\ Alone(t) /\ Read(t)
  BY DEF ReadWorst, IInv
<1>2. /\ View(t) = board /\ ins[t] = {} /\ del[t] = {} /\ todo[t] = {}
      /\ graph[t] \in Nat /\ graph[t] # None /\ graph[t] \notin board
      /\ board \subseteq Nat /\ IsFiniteSet(board) /\ Cardinality(board) >= Capacity
  BY <1>1, GraphsAssumption DEF Written, View, Alone, Read, IInv, TypeOK, None
<1>3. CASE Goto(t, "rank") /\ UNCHANGED <<board, rank, decided, local>>
  <2>1. Quiet(t) /\ pc'[t] = "rank"
    BY <1>3 DEF Quiet, Goto, IInv, TypeOK, local
  <2>2. Written(t)'
    BY <1>1, <1>3, <2>1 DEF Written, local
  <2>3. Alone(t)'
    BY <1>1, <1>3, <2>1 DEF Alone, local
  <2>4. Read(t)'
    BY <1>2, <1>3, <2>1 DEF Read, Gone, local
  <2>5. QED
    BY <1>3, <2>1, <2>2, <2>3, <2>4, OwnStep DEF local
<1>4. ASSUME NEW w \in View(t), IsTail({w}, View(t), 1),
             NotBetter(graph[t], w), ReturnNone(t)
      PROVE  IInv'
  <2>1. ASSUME NEW b \in board
        PROVE  b < graph[t]
    <3>1. b \in Nat /\ w \in Nat /\ graph[t] \in Nat /\ b # graph[t]
      BY <1>2, <1>4
    <3>2. b = w \/ b < w
      BY <1>2, <1>4 DEF IsTail
    <3>3. graph[t] >= w
      BY <1>4 DEF NotBetter
    <3>4. QED
      BY <3>1, <3>2, <3>3
  <2>2. Beaten(graph[t], board)
    BY <1>2, <2>1, BeatenBy
  <2>3. QED
    BY <1>4, <2>2, ReturnNoneKeeps
<1>5. ASSUME NEW w \in View(t), IsTail({w}, View(t), 1), ~NotBetter(graph[t], w),
             worst' = [worst EXCEPT ![t] = w], Goto(t, "evict"),
             UNCHANGED <<board, rank, decided, graph, newRank, ins, del, todo>>
      PROVE  IInv'
  <2>1. w \in Nat /\ graph[t] < w
    <3>1. w \in Nat /\ graph[t] \in Nat
      BY <1>2, <1>5
    <3>2. ~(graph[t] >= w)
      BY <1>5 DEF NotBetter
    <3>3. QED
      BY <3>1, <3>2
  <2>2. Beaten(w, board \cup {graph[t]})
    BY <1>2, <1>5, <2>1, BelowWorst
  <2>3. Quiet(t) /\ pc'[t] = "evict" /\ worst'[t] = w
    BY <1>5 DEF Quiet, Goto, IInv, TypeOK
  <2>4. Mine(t) = {graph[t]} /\ Mine(t)' = {graph[t]}
    BY <1>2, <1>5 DEF Mine
  <2>5. Written(t)'
    BY <1>1, <1>5, <2>3 DEF Written
  <2>6. Alone(t)'
    BY <1>1, <1>5, <2>3 DEF Alone
  <2>7. Beaten(worst[t], board \cup Mine(t))'
    BY <1>5, <2>2, <2>3, <2>4 DEF Beaten
  <2>8. w \in Graphs
    BY <1>2, <1>5 DEF IInv, TypeOK
  <2>9. Gone(t)' = {}
    BY <1>2, <1>5 DEF Gone
  <2>10. Read(t)'
    BY <1>5, <2>1, <2>3, <2>7, <2>8, <2>9 DEF Read
  <2>11. QED
    BY <1>5, <2>3, <2>5, <2>6, <2>10, OwnStep
<1>6. QED
  BY <1>3, <1>4, <1>5 DEF ReadWorst

LEMMA EvictWorstKeeps ==
  ASSUME IInv, TInv', NEW t \in Txs, EvictWorst(t)
  PROVE  IInv'
<1>1. pc[t] = "evict" /\ Written(t) /\ Alone(t) /\ Read(t)
  BY DEF EvictWorst, IInv
<1>2. /\ ins[t] = {} /\ del[t] = {} /\ todo[t] = {}
      /\ View(t) = board /\ board \subseteq Nat /\ Mine(t) \subseteq Nat
  BY <1>1, GraphsAssumption DEF Written, View, Mine, IInv, TypeOK
<1>3. worst[t] \in Nat /\ Beaten(worst[t], board \cup Mine(t))
  BY <1>1, GraphsAssumption DEF Read
<1>4. /\ Quiet(t) /\ pc'[t] = "rank" /\ del'[t] = {worst[t]} \cap board
      /\ todo'[t] = {} /\ UNCHANGED <<board, decided, graph, ins>>
  BY <1>2 DEF EvictWorst, Quiet, Goto, IInv, TypeOK
<1>5. Mine(t)' = Mine(t) /\ Gone(t)' = {worst[t]} \cap board
  BY <1>4 DEF Mine, Gone
<1>6. Written(t)'
  BY <1>1, <1>4, <1>5 DEF Written
<1>7. Alone(t)'
  BY <1>1, <1>4 DEF Alone, Quiet
<1>8. ASSUME Gone(t)' # {}
      PROVE  Cardinality(Safe(t)') >= Capacity
  <2>1. Gone(t)' = {worst[t]}
    BY <1>5, <1>8
  <2>2. Safe(t)' = {b \in board \cup Mine(t) : b < worst[t]}
    BY <1>2, <1>3, <1>4, <1>5, <2>1 DEF Safe, After
  <2>3. QED
    BY <1>3, <2>2 DEF Beaten
<1>9. Read(t)'
  BY <1>4, <1>8 DEF Read
<1>10. QED
  BY <1>4, <1>6, <1>7, <1>9, OwnStep

LEMMA CountBetterKeeps ==
  ASSUME IInv, TInv', NEW t \in Txs, CountBetter(t)
  PROVE  IInv'
<1>1. pc[t] = "rank" /\ Written(t) /\ Alone(t) /\ Read(t)
  BY DEF CountBetter, IInv
<1>2. /\ Quiet(t) /\ pc'[t] = "insert"
      /\ UNCHANGED <<board, decided, graph, worst, ins, del, todo>>
  BY DEF CountBetter, Quiet, Goto, IInv, TypeOK
<1>3. Mine(t)' = Mine(t) /\ Gone(t)' = Gone(t) /\ Safe(t)' = Safe(t)
  BY <1>2 DEF Mine, Gone, Safe, After
<1>4. Written(t)'
  BY <1>1, <1>2, <1>3 DEF Written
<1>5. Alone(t)'
  BY <1>1, <1>2 DEF Alone, Quiet
<1>6. Read(t)'
  BY <1>1, <1>2, <1>3 DEF Read
<1>7. QED
  BY <1>2, <1>4, <1>5, <1>6, OwnStep

LEMMA InsertRowKeeps ==
  ASSUME IInv, TInv', NEW t \in Txs, InsertRow(t)
  PROVE  IInv'
<1>1. pc[t] = "insert" /\ Written(t) /\ Alone(t) /\ Read(t)
  BY DEF InsertRow, IInv
<1>2. /\ Quiet(t) /\ pc'[t] = "trim" /\ ins'[t] = {graph[t]} \ board
      /\ UNCHANGED <<board, decided, graph, worst, del, todo>>
  BY DEF InsertRow, Quiet, Goto, IInv, TypeOK
<1>3. Mine(t)' = Mine(t) /\ Gone(t)' = Gone(t) /\ Safe(t)' = Safe(t)
  BY <1>2 DEF Mine, Gone, Safe, After
<1>4. ins'[t] = Mine(t)
  BY <1>1, <1>2 DEF Written, Alone, Mine
<1>5. Written(t)'
  BY <1>1, <1>2, <1>3, <1>4 DEF Written
<1>6. Alone(t)'
  BY <1>1, <1>2 DEF Alone, Quiet
<1>7. Read(t)'
  BY <1>1, <1>2, <1>3 DEF Read
<1>8. QED
  BY <1>2, <1>5, <1>6, <1>7, OwnStep

\* What the trim of t keeps is safe, whether or not t evicted a row before.
LEMMA TrimSafe ==
  ASSUME IInv, NEW t \in Txs, pc[t] = "trim",
         NEW V, IsTail(V, View(t), Excess(View(t))), V # {},
         NEW k \in View(t) \ V, NEW x \in Gone(t)
  PROVE  k < x
<1>1. /\ Written(t) /\ Read(t) /\ todo[t] = {} /\ ins[t] = Mine(t)
      /\ View(t) = After(t) /\ Gone(t) = del[t]
  BY DEF IInv, Written, View, After, Gone
<1>2. IsFiniteSet(View(t)) /\ View(t) \subseteq Nat /\ Gone(t) \subseteq Nat
  <2>1. IsFiniteSet(View(t)) /\ View(t) \subseteq Graphs
    BY IInvTyped, ViewFinite
  <2>2. del[t] \subseteq Graphs
    BY DEF IInv, TypeOK
  <2>3. QED
    BY <1>1, <2>1, <2>2, GraphsAssumption
<1>3. Cardinality(Safe(t)) >= Capacity /\ Safe(t) \subseteq View(t)
  BY <1>1 DEF Read, Safe
<1>4. SUFFICES ASSUME ~(k < x)
               PROVE  FALSE
  OBVIOUS
<1>5. \A s \in Safe(t) : s < k
  BY <1>2, <1>3, <1>4 DEF Safe
<1>6. Safe(t) \subseteq (View(t) \ V) \ {k}
  <2>1. ASSUME NEW s \in Safe(t)
        PROVE  s \notin V /\ s # k
    <3>1. s < k /\ s \in Nat /\ k \in Nat
      BY <1>2, <1>3, <1>5
    <3>2. s \in V => k < s
      BY DEF IsTail
    <3>3. QED
      BY <3>1, <3>2
  <2>2. QED
    BY <1>3, <2>1
<1>7. IsFiniteSet(View(t) \ V) /\ Cardinality(View(t) \ V) = Capacity
  BY <1>2, FS_Subset, TrimKeeps
<1>8. /\ IsFiniteSet((View(t) \ V) \ {k})
      /\ Cardinality((View(t) \ V) \ {k}) = Capacity - 1
  BY <1>7, FS_RemoveElement
<1>9. Cardinality(Safe(t)) <= Capacity - 1 /\ Cardinality(Safe(t)) \in Nat
  BY <1>6, <1>8, FS_Subset, FS_CardinalityType
<1>10. QED
  BY <1>3, <1>9, CapacityAssumption

LEMMA SelectExcessKeeps ==
  ASSUME IInv, TInv', NEW t \in Txs, SelectExcess(t)
  PROVE  IInv'
<1>1. pc[t] = "trim" /\ Written(t) /\ Alone(t) /\ Read(t)
  BY DEF SelectExcess, IInv
<1>2. PICK V \in SUBSET View(t) :
        IsTail(V, View(t), Excess(View(t))) /\ todo' = [todo EXCEPT ![t] = V]
  BY DEF SelectExcess
<1>3. /\ Quiet(t) /\ pc'[t] = "trimming" /\ todo'[t] = V /\ todo[t] = {}
      /\ UNCHANGED <<board, decided, graph, worst, ins, del>>
  BY <1>1, <1>2 DEF SelectExcess, Quiet, Goto, IInv, TypeOK, Written
<1>4. Mine(t)' = Mine(t) /\ Gone(t)' = Gone(t) \cup V
  BY <1>3 DEF Mine, Gone
<1>5. View(t) = After(t)
  BY <1>1 DEF Written, View, After, Gone
<1>6. Written(t)'
  BY <1>1, <1>3, <1>4 DEF Written
<1>7. Alone(t)'
  BY <1>1, <1>3 DEF Alone, Quiet
<1>8. ASSUME Gone(t)' # {}
      PROVE  Cardinality(Safe(t)') >= Capacity
  <2>1. CASE V = {}
    <3>1. Gone(t)' = Gone(t) /\ Safe(t)' = Safe(t)
      BY <1>3, <1>4, <2>1 DEF Safe, After
    <3>2. QED
      BY <1>1, <1>8, <3>1 DEF Read
  <2>2. CASE V # {}
    <3>1. ASSUME NEW k \in View(t) \ V
          PROVE  k \in Safe(t)'
      <4>1. \A x \in Gone(t) : k < x
        BY <1>1, <1>2, <2>2, TrimSafe
      <4>2. \A x \in V : k < x
        BY <1>2 DEF IsTail
      <4>3. k \in After(t)'
        BY <1>3, <1>4, <1>5 DEF After
      <4>4. QED
        BY <1>4, <4>1, <4>2, <4>3 DEF Safe
    <3>2. IsFiniteSet(View(t)) /\ Cardinality(View(t) \ V) = Capacity
      BY <1>2, <2>2, IInvTyped, ViewFinite, TrimKeeps
    <3>3. Safe(t)' \subseteq View(t)
      BY <1>3, <1>4, <1>5 DEF Safe, After
    <3>4. IsFiniteSet(Safe(t)')
      BY <3>2, <3>3, FS_Subset
    <3>5. Cardinality(View(t) \ V) >= Capacity
      BY <3>2, CapacityAssumption
    <3>6. QED
      BY <3>1, <3>4, <3>5, EnoughMono
  <2>3. QED
    BY <2>1, <2>2
<1>9. Read(t)'
  BY <1>3, <1>8 DEF Read
<1>10. QED
  BY <1>3, <1>6, <1>7, <1>9, OwnStep

LEMMA TrimRowKeeps ==
  ASSUME IInv, TInv', NEW t \in Txs, TrimRow(t)
  PROVE  IInv'
<1>1. pc[t] = "trimming" /\ Written(t) /\ Alone(t) /\ Read(t)
  BY DEF TrimRow, IInv
<1>2. /\ Quiet(t) /\ pc'[t] = pc[t] /\ Gone(t)' = Gone(t)
      /\ UNCHANGED <<board, decided, graph, worst, ins>>
  BY DEF TrimRow, Quiet, Gone, IInv, TypeOK
<1>3. Mine(t)' = Mine(t) /\ Safe(t)' = Safe(t)
  BY <1>2 DEF Mine, Safe, After
<1>4. Written(t)'
  BY <1>1, <1>2, <1>3 DEF Written
<1>5. Alone(t)'
  BY <1>1, <1>2 DEF Alone, Quiet
<1>6. Read(t)'
  BY <1>1, <1>2, <1>3 DEF Read
<1>7. QED
  BY <1>2, <1>4, <1>5, <1>6, OwnStep

LEMMA TrimDoneKeeps ==
  ASSUME IInv, TInv', NEW t \in Txs, TrimDone(t)
  PROVE  IInv'
<1>1. pc[t] = "trimming" /\ todo[t] = {} /\ Written(t) /\ Alone(t) /\ Read(t)
  BY DEF TrimDone, IInv
<1>2. Quiet(t) /\ pc'[t] = "commit" /\ UNCHANGED <<board, decided, local>>
  BY DEF TrimDone, Quiet, Goto, IInv, TypeOK, local
<1>3. Mine(t)' = Mine(t) /\ Gone(t)' = Gone(t) /\ Safe(t)' = Safe(t)
  BY <1>2 DEF Mine, Gone, Safe, After, local
<1>4. Written(t)'
  BY <1>1, <1>2, <1>3 DEF Written, local
<1>5. Alone(t)'
  BY <1>1, <1>2 DEF Alone, Quiet, local
<1>6. Read(t)'
  BY <1>1, <1>2, <1>3 DEF Read, local
<1>7. QED
  BY <1>2, <1>4, <1>5, <1>6, OwnStep DEF local

LEMMA CommitTop ==
  ASSUME IInv, NEW t \in Txs, Commit(t)
  PROVE  TopKept'
<1>1. /\ decided' = decided \cup Mine(t)
      /\ board' = (board \cup Mine(t)) \ del[t]
  BY CommitShape DEF Commit, Mine, After
<1>2. decided \subseteq Nat /\ Mine(t) \subseteq Nat
  BY GraphsAssumption DEF IInv, TypeOK, Mine
<1>3. SUFFICES ASSUME NEW g \in decided', g \notin board'
               PROVE  Beaten(g, board')
  BY DEF TopKept, Beaten
<1>4. CASE g \in del[t]
  <2>1. /\ Safe(t) \subseteq board' /\ IsFiniteSet(board')
        /\ Cardinality(Safe(t)) >= Capacity /\ g \in Gone(t)
    BY <1>4, CommitShape
  <2>2. \A b \in Safe(t) : b < g
    BY <2>1 DEF Safe
  <2>3. QED
    BY <2>1, <2>2, BeatenBy
<1>5. CASE g \notin del[t]
  <2>1. g \in decided \ board /\ g \in Nat
    BY <1>1, <1>2, <1>3, <1>5
  <2>2. Beaten(g, board \cup {})
    BY <2>1 DEF IInv, TopKept
  <2>3. Beaten(g, board' \cup {})
    BY <2>1, <2>2, FS_EmptySet, CommitGround
  <2>4. QED
    BY <2>3
<1>6. QED
  BY <1>4, <1>5

LEMMA CommitKeeps ==
  ASSUME IInv, TInv', NEW t \in Txs, Commit(t)
  PROVE  IInv'
<1>1. /\ pc'[t] = "idle" /\ graph'[t] = None
      /\ ins'[t] = {} /\ del'[t] = {} /\ todo'[t] = {}
  BY DEF Commit, Close, Goto, IInv, TypeOK
<1>2. None \notin board'
  BY GraphsAssumption DEF TInv, TypeOK, None
<1>3. (Written(t) /\ Alone(t) /\ Read(t))'
  BY <1>1, <1>2 DEF Written, Alone, Read, Mine, Gone
<1>4. ASSUME NEW u \in Txs
      PROVE  (Written(u) /\ Alone(u) /\ Read(u))'
  <2>1. CASE u = t
    BY <1>3, <2>1
  <2>2. CASE u # t
    BY <2>2, OthersKeepCommit
  <2>3. QED
    BY <2>1, <2>2
<1>5. QED
  BY <1>4, CommitTop DEF IInv, TInv

LEMMA AbortKeeps ==
  ASSUME IInv, TInv', NEW t \in Txs, Abort(t)
  PROVE  IInv'
BY CloseQuiet, QuietStep, SameTop DEF Abort

LEMMA StutterKeeps ==
  ASSUME IInv, UNCHANGED vars
  PROVE  IInv'
<1>1. TInv'
  BY IInvTyped, StepType
<1>2. ASSUME NEW u \in Txs
      PROVE  (Written(u) /\ Alone(u) /\ Read(u))'
  <2>1. Written(u) /\ Alone(u) /\ Read(u)
    BY DEF IInv
  <2>2. UNCHANGED <<board, pc, graph, worst, ins, del, todo>>
    BY DEF vars, local
  <2>3. Mine(u)' = Mine(u) /\ Gone(u)' = Gone(u) /\ Safe(u)' = Safe(u)
    BY <2>2 DEF Mine, Gone, Safe, After
  <2>4. QED
    BY <2>1, <2>2, <2>3 DEF Written, Alone, Read, Beaten
<1>3. TopKept'
  BY SameTop DEF vars
<1>4. QED
  BY <1>1, <1>2, <1>3 DEF IInv, TInv

LEMMA IInvStep ==
  ASSUME DistinctInFlight, IInv, [Next]_vars
  PROVE  IInv'
<1>1. TInv'
  BY IInvTyped, StepType
<1>2. CASE UNCHANGED vars
  BY <1>2, StutterKeeps
<1>3. ASSUME NEW t \in Txs, Statement(t)
      PROVE  IInv'
  BY <1>1, <1>3, CheckExistingKeeps, CountRowsKeeps, ReadWorstKeeps, EvictWorstKeeps,
     CountBetterKeeps, InsertRowKeeps, SelectExcessKeeps, TrimRowKeeps, TrimDoneKeeps,
     CommitKeeps DEF Statement
<1>4. ASSUME NEW t \in Txs, NEW g \in Graphs, Begin(t, g)
      PROVE  IInv'
  BY <1>1, <1>4, BeginKeeps
<1>5. ASSUME NEW t \in Txs, BeginTrim(t) \/ Abort(t)
      PROVE  IInv'
  BY <1>1, <1>5, BeginTrimKeeps, AbortKeeps
<1>6. QED
  BY <1>2, <1>3, <1>4, <1>5 DEF Next

THEOREM IInvAlways == DistinctInFlight => (Spec => []IInv)
<1>1. DistinctInFlight /\ IInv /\ [Next]_vars => IInv'
  BY IInvStep
<1>2. DistinctInFlight => DistinctInFlight'
  BY DEF DistinctInFlight
<1>3. SUFFICES ASSUME DistinctInFlight
               PROVE  Spec => []IInv
  OBVIOUS
<1>4. IInv /\ [Next]_vars => IInv'
  BY <1>1, <1>3
<1>5. QED
  BY <1>4, IInvInit, PTL DEF Spec

(***************************************************************************)
(* As long as no two try_admit of the same graph overlap, the board holds  *)
(* the best Capacity of all it ever decided: however many transactions     *)
(* race, on stale worst rows, with evictions that find nothing, several    *)
(* trims at once, rollbacks and startup trims.                             *)
(***************************************************************************)
THEOREM TopKeptAlways == DistinctInFlight => (Spec => []TopKept)
<1>1. IInv => TopKept
  BY DEF IInv
<1>2. QED
  BY <1>1, IInvAlways, PTL

LEMMA GroundStep ==
  ASSUME IInv, [Next]_vars
  PROVE  [\A g \in Graphs : Beaten(g, board) => Beaten(g, board')]_vars
<1>1. SUFFICES ASSUME NEW g \in Graphs, Beaten(g, board), ~UNCHANGED vars
               PROVE  Beaten(g, board')
  OBVIOUS
<1>2. CASE \E t \in Txs : Commit(t)
  <2>1. PICK t \in Txs : Commit(t)
    BY <1>2
  <2>2. Beaten(g, board \cup {}) /\ g \in Nat
    BY <1>1, GraphsAssumption
  <2>3. Beaten(g, board' \cup {})
    BY <2>1, <2>2, FS_EmptySet, CommitGround
  <2>4. QED
    BY <2>3
<1>3. CASE ~\E t \in Txs : Commit(t)
  <2>1. board' = board
    BY <1>1, <1>3 DEF Next, Statement, Begin, BeginTrim, CheckExisting, CountRows,
       ReadWorst, EvictWorst, CountBetter, InsertRow, SelectExcess, TrimRow, TrimDone,
       Abort, ReturnNone
  <2>2. QED
    BY <1>1, <2>1
<1>4. QED
  BY <1>2, <1>3

(***************************************************************************)
(* A score that Capacity rows beat stays beaten, whatever commits: the     *)
(* gate of a worker that holds an old threshold skips nothing it should    *)
(* not.                                                                    *)
(***************************************************************************)
THEOREM GroundKept == DistinctInFlight => (Spec => StaysBeaten)
<1>1. SUFFICES ASSUME DistinctInFlight
               PROVE  Spec => StaysBeaten
  OBVIOUS
<1>2. IInv /\ [Next]_vars => [\A g \in Graphs : Beaten(g, board) => Beaten(g, board')]_vars
  BY GroundStep
<1>3. Spec => []IInv
  BY <1>1, IInvAlways
<1>4. QED
  BY <1>2, <1>3, PTL DEF Spec, StaysBeaten

-----------------------------------------------------------------------------
(***************************************************************************)
(* What a whole try_admit does to the board.                               *)
(***************************************************************************)
\* A call that returns early leaves the board alone.
LEMMA EarlyEnd ==
  ASSUME TInv, NEW t \in Txs, Ends(t), ~Commit(t)
  PROVE  /\ board' = board /\ graph[t] \in decided'
         /\ pc[t] \in {"check", "worst"}
         /\ \/ graph[t] \in View(t)
            \/ \E w \in View(t) : graph[t] >= w
<1>1. CASE CheckExisting(t)
  <2>1. ~Goto(t, "count")
    BY DEF Ends, Goto, TInv, TypeOK
  <2>2. graph[t] \in View(t) /\ ReturnNone(t)
    BY <1>1, <2>1 DEF CheckExisting
  <2>3. QED
    BY <1>1, <2>2 DEF CheckExisting, ReturnNone
<1>2. CASE ReadWorst(t)
  <2>1. ~Goto(t, "rank") /\ ~Goto(t, "evict")
    BY DEF Ends, Goto, TInv, TypeOK
  <2>2. PICK w \in View(t) : NotBetter(graph[t], w) /\ ReturnNone(t)
    BY <1>2, <2>1 DEF ReadWorst
  <2>3. QED
    BY <1>2, <2>2 DEF ReadWorst, ReturnNone, NotBetter
<1>3. QED
  BY <1>1, <1>2 DEF Ends

LEMMA EndKeepsDistinct ==
  ASSUME IInv, IInv', Overlap # "any", NEW t \in Txs, Ends(t)
  PROVE  Keeps(Overlap = "any", board, Mine(t), board')
<1>1. SUFFICES /\ board' \subseteq board \cup Mine(t)
               /\ \A x \in (board \cup Mine(t)) \ board' : Beaten(x, board')
  BY DEF Keeps
<1>2. CASE Commit(t)
  <2>1. board' \subseteq board \cup Mine(t)
    BY <1>2, CommitShape DEF After
  <2>2. ASSUME NEW x \in (board \cup Mine(t)) \ board'
        PROVE  Beaten(x, board')
    <3>1. x \in Gone(t) /\ x \in del[t]
      BY <1>2, <2>2, CommitShape DEF After
    <3>2. /\ IsFiniteSet(board') /\ Safe(t) \subseteq board'
          /\ Cardinality(Safe(t)) >= Capacity
      BY <1>2, <3>1, CommitShape
    <3>3. \A b \in Safe(t) : b < x
      BY <3>1 DEF Safe
    <3>4. QED
      BY <3>2, <3>3, BeatenBy
  <2>3. QED
    BY <2>1, <2>2
<1>3. CASE ~Commit(t)
  <2>1. board' = board /\ graph[t] \in decided'
    BY <1>3, IInvTyped, EarlyEnd
  <2>2. TopKept'
    BY DEF IInv
  <2>3. ASSUME NEW x \in (board \cup Mine(t)) \ board'
        PROVE  Beaten(x, board')
    <3>1. x = graph[t] /\ x \in decided' \ board'
      BY <2>1, <2>3 DEF Mine
    <3>2. QED
      BY <2>2, <3>1 DEF TopKept, Beaten
  <2>4. QED
    BY <2>1, <2>3
<1>4. QED
  BY <1>2, <1>3

\* The rows t vouches with are still there when u has committed.
LEMMA VouchedKeeps ==
  ASSUME TInv, Capacity > 0, NEW u \in Txs, Commit(u), Vouched(u),
         NEW t \in Txs \ {u}, Vouched(t)
  PROVE  Vouched(t)'
<1>1. /\ graph'[t] = graph[t] /\ ins'[t] = ins[t] /\ del'[t] = del[t]
      /\ todo'[t] = todo[t] \ del[u] /\ board' = (board \cup ins[u]) \ del[u]
  BY DEF Commit, Close, View, TInv, TypeOK
<1>2. Mine(t)' = Mine(t) /\ Gone(t)' \subseteq Gone(t)
  BY <1>1 DEF Mine, Gone
<1>3. PICK b \in board \cup ins[t] : /\ \A g \in Mine(t) : b <= g
                                    /\ \A x \in Gone(t) : b < x
  BY DEF Vouched
<1>4. PICK z \in board \cup ins[u] : \A x \in Gone(u) : z < x
  BY DEF Vouched
<1>5. /\ b \in Nat /\ z \in Nat
      /\ Mine(t) \subseteq Nat /\ Gone(t) \subseteq Nat /\ del[u] \subseteq Gone(u)
  BY <1>3, <1>4, GraphsAssumption DEF Mine, Gone, TInv, TypeOK, None
<1>6. CASE b \in board' \cup ins[t]
  BY <1>1, <1>2, <1>3, <1>6 DEF Vouched
<1>7. CASE b \notin board' \cup ins[t]
  <2>1. b \in del[u] /\ z < b
    BY <1>1, <1>3, <1>4, <1>5, <1>7
  <2>2. z \in board'
    BY <1>1, <1>4, <1>5
  <2>3. \A g \in Mine(t) : z <= g
    BY <1>3, <1>5, <2>1
  <2>4. \A x \in Gone(t) : z < x
    BY <1>3, <1>5, <2>1
  <2>5. QED
    BY <1>1, <1>2, <2>2, <2>3, <2>4 DEF Vouched
<1>8. QED
  BY <1>6, <1>7
\* A step of t that commits nothing leaves the others careful.
LEMMA OthersCareful ==
  ASSUME NEW t \in Txs, Quiet(t), NEW u \in Txs \ {t}, Carries(u),
         Capacity > 0 => Careful(u)
  PROVE  Carries(u)' /\ (Capacity > 0 => Careful(u)')
<1>1. UNCHANGED <<board, pc[u], graph[u], worst[u], ins[u], del[u], todo[u]>>
  BY DEF Quiet
<1>2. Mine(u)' = Mine(u) /\ Gone(u)' = Gone(u)
  BY <1>1 DEF Mine, Gone
<1>3. Vouched(u) <=> Vouched(u)'
  BY <1>1, <1>2 DEF Vouched
<1>4. QED
  BY <1>1, <1>2, <1>3 DEF Carries, Careful

\* A transaction that ends, or has only begun, has taken nothing.
LEMMA ClosedCareful ==
  ASSUME TInv, NEW t \in Txs, NEW gone, Close(t, gone)
  PROVE  Carries(t)' /\ Careful(t)'
<1>1. /\ pc'[t] = "idle" /\ graph'[t] = None
      /\ ins'[t] = {} /\ del'[t] = {} /\ todo'[t] = {}
  BY DEF Close, Goto, TInv, TypeOK
<1>2. QED
  BY <1>1 DEF Carries, Careful, Mine, Gone

\* Every statement but the commit.
LEMMA OwnCareful ==
  ASSUME TInv, NEW t \in Txs, Carries(t), Capacity > 0 => Careful(t),
         \/ CheckExisting(t) \/ CountRows(t) \/ ReadWorst(t) \/ EvictWorst(t)
         \/ CountBetter(t) \/ InsertRow(t) \/ TrimRow(t) \/ TrimDone(t)
  PROVE  Quiet(t) /\ Carries(t)' /\ (Capacity > 0 => Careful(t)')
<1> USE DEF Quiet, Goto, TInv, TypeOK, Active, local
<1>1. ASSUME ReturnNone(t)
      PROVE  Quiet(t) /\ Carries(t)' /\ Careful(t)'
  BY <1>1, ClosedCareful DEF ReturnNone, Close
<1>2. CASE CheckExisting(t)
  <2>1. CASE Goto(t, "count") /\ UNCHANGED <<board, rank, decided, local>>
    BY <1>2, <2>1 DEF CheckExisting, Carries, Careful, Mine, Gone
  <2>2. QED
    BY <1>1, <1>2, <2>1 DEF CheckExisting
<1>3. CASE CountRows(t)
  <2>1. pc[t] = "count" /\ pc'[t] \in {"worst", "rank"}
    BY <1>3 DEF CountRows
  <2>2. Quiet(t) /\ UNCHANGED <<board, rank, decided, local>>
    BY <1>3 DEF CountRows
  <2>3. QED
    BY <2>1, <2>2 DEF Carries, Careful, Mine, Gone
<1>4. CASE ReadWorst(t)
  <2>1. CASE Goto(t, "rank") /\ UNCHANGED <<board, rank, decided, local>>
    BY <1>4, <2>1 DEF ReadWorst, Carries, Careful, Mine, Gone
  <2>2. ASSUME NEW w \in View(t), ~NotBetter(graph[t], w),
               worst' = [worst EXCEPT ![t] = w], Goto(t, "evict"),
               UNCHANGED <<board, rank, decided, graph, newRank, ins, del, todo>>
        PROVE  Quiet(t) /\ Carries(t)' /\ (Capacity > 0 => Careful(t)')
    <3>1. pc[t] = "worst" /\ pc'[t] = "evict" /\ worst'[t] = w
          /\ graph[t] \in Nat /\ w \in Nat
      BY <1>4, <2>2, GraphsAssumption DEF ReadWorst, View
    <3>2. graph[t] < w
      BY <2>2, <3>1 DEF NotBetter
    <3>3. Quiet(t)
      BY <2>2
    <3>4. QED
      BY <2>2, <3>1, <3>2, <3>3 DEF Carries, Careful, Mine, Gone
  <2>3. QED
    BY <1>1, <1>4, <2>1, <2>2 DEF ReadWorst
<1>5. CASE EvictWorst(t)
  <2>1. /\ pc[t] = "evict" /\ pc'[t] = "rank"
        /\ del'[t] \subseteq del[t] \cup {worst[t]}
        /\ UNCHANGED <<board, graph, worst, ins, todo>>
    BY <1>5 DEF EvictWorst
  <2>2. Quiet(t)
    BY <1>5 DEF EvictWorst
  <2>3. QED
    BY <2>1, <2>2 DEF Carries, Careful, Mine, Gone
<1>6. CASE CountBetter(t)
  BY <1>6 DEF CountBetter, Carries, Careful, Mine, Gone
<1>7. CASE InsertRow(t)
  <2>1. /\ pc[t] = "insert" /\ pc'[t] = "trim" /\ graph[t] \in Graphs
        /\ ins'[t] = {graph[t]} \ board
        /\ UNCHANGED <<board, graph, worst, del, todo>>
    BY <1>7 DEF InsertRow
  <2>2. Quiet(t)
    BY <1>7 DEF InsertRow
  <2>3. Mine(t)' = {graph[t]} /\ graph[t] \in Nat
    BY <2>1, GraphsAssumption DEF Mine, None
  <2>4. ASSUME Capacity > 0
        PROVE  Vouched(t)'
    <3>1. \A x \in Gone(t)' : graph[t] < x
      BY <2>1, <2>4 DEF Gone, Careful
    <3>2. graph[t] \in board' \cup ins'[t]
      BY <2>1
    <3>3. QED
      BY <2>3, <3>1, <3>2 DEF Vouched
  <2>5. QED
    BY <2>1, <2>2, <2>3, <2>4 DEF Carries, Careful
<1>8. CASE TrimRow(t)
  <2>1. PICK x \in todo[t] : /\ del' = [del EXCEPT ![t] = @ \cup {x}]
                             /\ todo' = [todo EXCEPT ![t] = @ \ {x}]
    BY <1>8 DEF TrimRow
  <2>2. /\ pc[t] = "trimming" /\ UNCHANGED <<board, pc, graph, worst, ins>>
    BY <1>8 DEF TrimRow
  <2>3. Quiet(t)
    BY <2>1, <2>2
  <2>4. Gone(t)' = Gone(t) /\ Mine(t)' = Mine(t)
    BY <2>1, <2>2 DEF Gone, Mine
  <2>5. Vouched(t) => Vouched(t)'
    BY <2>2, <2>4 DEF Vouched
  <2>6. QED
    BY <2>2, <2>3, <2>4, <2>5 DEF Carries, Careful
<1>9. CASE TrimDone(t)
  <2>1. /\ pc[t] = "trimming" /\ pc'[t] = "commit" /\ Quiet(t)
        /\ UNCHANGED <<board, graph, worst, ins, del, todo>>
    BY <1>9 DEF TrimDone
  <2>2. Gone(t)' = Gone(t) /\ Mine(t)' = Mine(t)
    BY <2>1 DEF Gone, Mine
  <2>3. Vouched(t) => Vouched(t)'
    BY <2>1, <2>2 DEF Vouched
  <2>4. QED
    BY <2>1, <2>2, <2>3 DEF Carries, Careful
<1>10. QED
  BY <1>2, <1>3, <1>4, <1>5, <1>6, <1>7, <1>8, <1>9

\* The trim leaves a row better than all it takes.
LEMMA SelectCareful ==
  ASSUME TInv, NEW t \in Txs, Carries(t), Capacity > 0 => Careful(t), SelectExcess(t)
  PROVE  Quiet(t) /\ Carries(t)' /\ (Capacity > 0 => Careful(t)')
<1>1. /\ pc[t] = "trim" /\ pc'[t] = "trimming" /\ Quiet(t)
      /\ UNCHANGED <<board, graph, worst, ins, del>>
  BY DEF SelectExcess, Quiet, Goto, TInv, TypeOK
<1>2. PICK V \in SUBSET View(t) : /\ IsTail(V, View(t), Excess(View(t)))
                                  /\ todo'[t] = V
  BY DEF SelectExcess, TInv, TypeOK
<1>3. Mine(t)' = Mine(t) /\ Gone(t)' = del[t] \cup V
  BY <1>1, <1>2 DEF Mine, Gone
<1>4. ASSUME Capacity > 0
      PROVE  Vouched(t)'
  <2>1. PICK b \in board \cup ins[t] : /\ \A g \in Mine(t) : b <= g
                                      /\ \A x \in Gone(t) : b < x
    BY <1>1, <1>4 DEF Careful, Vouched
  <2>2. /\ b \in Nat /\ View(t) \subseteq Nat /\ Mine(t) \subseteq Nat
        /\ Gone(t) \subseteq Nat /\ del[t] \subseteq Gone(t)
    BY <2>1, ViewFinite, GraphsAssumption DEF Mine, Gone, TInv, TypeOK, None
  <2>3. CASE V = {}
    <3>1. \A x \in Gone(t)' : b < x
      BY <1>3, <2>1, <2>2, <2>3
    <3>2. QED
      BY <1>1, <1>3, <2>1, <3>1 DEF Vouched
  <2>4. CASE V # {}
    <3>1. Cardinality(View(t) \ V) = Capacity
      BY <1>2, <2>4, ViewFinite, TrimKeeps
    <3>2. PICK y \in View(t) \ V : TRUE
      BY <1>4, <3>1, FS_EmptySet
    <3>3. \A x \in V : y < x
      BY <1>2, <3>2 DEF IsTail
    <3>4. y \in board \cup ins[t] /\ y \in Nat /\ V \subseteq Nat
      BY <2>2, <3>2 DEF View
    <3>5. CASE b <= y
      <4>1. \A x \in Gone(t)' : b < x
        BY <1>3, <2>1, <2>2, <3>3, <3>4, <3>5
      <4>2. QED
        BY <1>1, <1>3, <2>1, <4>1 DEF Vouched
    <3>6. CASE y < b
      <4>1. \A x \in Gone(t)' : y < x
        <5>1. \A x \in del[t] : x \in Nat /\ b < x
          BY <2>1, <2>2
        <5>2. \A x \in del[t] : y < x
          BY <2>2, <3>4, <3>6, <5>1
        <5>3. QED
          BY <1>3, <3>3, <5>2
      <4>2. \A g \in Mine(t) : y <= g
        BY <2>1, <2>2, <3>4, <3>6
      <4>3. QED
        BY <1>1, <1>3, <3>4, <4>1, <4>2 DEF Vouched
    <3>7. QED
      BY <2>2, <3>4, <3>5, <3>6
  <2>5. QED
    BY <2>3, <2>4
<1>5. QED
  BY <1>1, <1>3, <1>4 DEF Carries, Careful

\* A trim at startup finds rows to keep.
LEMMA BeginTrimCareful ==
  ASSUME TInv, NEW t \in Txs, Carries(t), BeginTrim(t)
  PROVE  Quiet(t) /\ Carries(t)' /\ (Capacity > 0 => Careful(t)')
<1>1. /\ pc[t] = "idle" /\ pc'[t] = "trim" /\ Quiet(t)
      /\ UNCHANGED <<board, graph, worst, ins, del, todo>>
      /\ ins[t] = {} /\ del[t] = {} /\ todo[t] = {}
      /\ Cardinality(board) > Capacity
  BY DEF BeginTrim, Quiet, Goto, Active, local, TInv, TypeOK
<1>2. Mine(t)' = {} /\ Gone(t)' = {}
  BY <1>1 DEF Carries, Mine, Gone
<1>3. board # {}
  BY <1>1, FS_EmptySet, CapacityAssumption
<1>4. Vouched(t)'
  BY <1>1, <1>2, <1>3 DEF Vouched
<1>5. QED
  BY <1>1, <1>2, <1>4 DEF Carries, Careful

LEMMA AnyInvStep == TInv /\ AnyInv /\ [Next]_vars => AnyInv'
<1> SUFFICES ASSUME TInv, AnyInv, [Next]_vars
             PROVE  AnyInv'
  OBVIOUS
<1>1. \A t \in Txs : Carries(t) /\ (Capacity > 0 => Careful(t))
  BY DEF AnyInv
<1>2. AnyInv' <=> \A t \in Txs : Carries(t)' /\ (Capacity > 0 => Careful(t)')
  BY DEF AnyInv
<1>3. ASSUME NEW t \in Txs, Quiet(t), Carries(t)', Capacity > 0 => Careful(t)'
      PROVE  AnyInv'
  BY <1>1, <1>2, <1>3, OthersCareful
<1>4. CASE UNCHANGED vars
  BY <1>4 DEF vars, local, AnyInv, Carries, Careful, Vouched, Mine, Gone
<1>5. ASSUME NEW t \in Txs, NEW g \in Graphs, Begin(t, g)
      PROVE  AnyInv'
  <2>1. /\ pc'[t] = "check" /\ Quiet(t)
        /\ ins'[t] = {} /\ del'[t] = {} /\ todo'[t] = {}
    BY <1>5 DEF Begin, Quiet, Goto, Active, TInv, TypeOK
  <2>2. Carries(t)' /\ Careful(t)'
    BY <2>1 DEF Carries, Careful, Gone
  <2>3. QED
    BY <1>3, <2>1, <2>2
<1>6. ASSUME NEW t \in Txs, BeginTrim(t)
      PROVE  AnyInv'
  BY <1>1, <1>3, <1>6, BeginTrimCareful
<1>7. ASSUME NEW t \in Txs, Abort(t)
      PROVE  AnyInv'
  <2>1. Quiet(t)
    BY <1>7 DEF Abort, Close, Quiet, Goto, TInv, TypeOK
  <2>2. Carries(t)' /\ Careful(t)'
    BY <1>7, ClosedCareful DEF Abort
  <2>3. QED
    BY <1>3, <2>1, <2>2
<1>8. ASSUME NEW t \in Txs, Commit(t)
      PROVE  AnyInv'
  <2>1. Carries(t)' /\ Careful(t)'
    BY <1>8, ClosedCareful DEF Commit
  <2>2. ASSUME NEW u \in Txs \ {t}
        PROVE  Carries(u)' /\ (Capacity > 0 => Careful(u)')
    <3>1. /\ pc'[u] = pc[u] /\ graph'[u] = graph[u] /\ worst'[u] = worst[u]
          /\ ins'[u] = ins[u] /\ del'[u] = del[u] /\ todo'[u] = todo[u] \ del[t]
      BY <1>8 DEF Commit, Close, Goto, TInv, TypeOK
    <3>2. Mine(u)' = Mine(u) /\ Gone(u)' \subseteq Gone(u)
      BY <3>1 DEF Mine, Gone
    <3>3. Capacity > 0 => Vouched(t)
      BY <1>1, <1>8 DEF Commit, Careful
    <3>4. Capacity > 0 /\ Vouched(u) => Vouched(u)'
      BY <1>8, <3>3, VouchedKeeps
    <3>5. QED
      BY <1>1, <3>1, <3>2, <3>4 DEF Carries, Careful
  <2>3. QED
    BY <1>2, <2>1, <2>2
<1>9. ASSUME NEW t \in Txs, Statement(t), ~Commit(t)
      PROVE  AnyInv'
  <2>1. Carries(t) /\ (Capacity > 0 => Careful(t))
    BY <1>1
  <2>2. Quiet(t) /\ Carries(t)' /\ (Capacity > 0 => Careful(t)')
    BY <1>9, <2>1, OwnCareful, SelectCareful DEF Statement
  <2>3. QED
    BY <1>3, <2>2
<1>10. QED
  BY <1>4, <1>5, <1>6, <1>7, <1>8, <1>9 DEF Next

LEMMA EndKeepsAny ==
  ASSUME TInv, AnyInv, Overlap = "any", NEW t \in Txs, Ends(t)
  PROVE  Keeps(Overlap = "any", board, Mine(t), board')
<1>1. SUFFICES /\ board' \subseteq board \cup Mine(t)
               /\ \A x \in (board \cup Mine(t)) \ board' : Outdone(x, board')
  BY DEF Keeps
<1>2. Carries(t) /\ (Capacity > 0 => Careful(t))
  BY DEF AnyInv
<1>3. /\ board \subseteq Nat /\ Mine(t) \subseteq Nat /\ graph[t] \in Nat
      /\ View(t) \subseteq board \cup ins[t]
  <2>1. (graph[t] = 0 \/ graph[t] \in Graphs) /\ board \subseteq Graphs
    BY DEF TInv, TypeOK, None
  <2>2. Graphs \subseteq Nat /\ 0 \in Nat
    BY GraphsAssumption
  <2>3. QED
    BY <2>1, <2>2 DEF View, Mine
<1>4. CASE ~Commit(t)
  <2>1. /\ board' = board /\ pc[t] \in {"check", "worst"}
        /\ \/ graph[t] \in View(t)
           \/ \E w \in View(t) : graph[t] >= w
    BY <1>4, EarlyEnd
  <2>2. ASSUME NEW x \in (board \cup Mine(t)) \ board', Capacity # 0
        PROVE  \E b \in board' : b < x
    <3>1. x = graph[t] /\ x \notin board
      BY <2>1, <2>2 DEF Mine
    <3>2. ins[t] = {}
      BY <1>2, <2>1, <2>2, CapacityAssumption DEF Careful
    <3>3. PICK w \in board : graph[t] >= w
      BY <1>3, <2>1, <3>1, <3>2
    <3>4. w < x
      BY <1>3, <3>1, <3>3
    <3>5. QED
      BY <2>1, <3>4
  <2>3. QED
    BY <2>1, <2>2 DEF Outdone
<1>5. CASE Commit(t)
  <2>1. board' = (board \cup ins[t]) \ del[t] /\ pc[t] = "commit"
    BY <1>5 DEF Commit, View
  <2>2. ASSUME NEW x \in (board \cup Mine(t)) \ board', Capacity # 0
        PROVE  \E b \in board' : b < x
    <3>1. PICK b \in board \cup ins[t] : /\ \A g \in Mine(t) : b <= g
                                        /\ \A y \in Gone(t) : b < y
      BY <1>2, <2>1, <2>2, CapacityAssumption DEF Careful, Vouched
    <3>2. b \in Nat /\ del[t] \subseteq Gone(t) /\ x \in Nat
      BY <1>2, <1>3, <2>2, <3>1 DEF Carries, Gone
    <3>3. b \in board'
      BY <2>1, <3>1, <3>2
    <3>4. x \in Mine(t) \/ x \in del[t]
      BY <2>1, <2>2
    <3>5. b # x
      BY <2>2, <3>3
    <3>6. b < x
      BY <3>1, <3>2, <3>4, <3>5
    <3>7. QED
      BY <3>3, <3>6
  <2>3. QED
    BY <1>2, <2>1, <2>2 DEF Outdone, Carries
<1>6. QED
  BY <1>4, <1>5

(***************************************************************************)
(* What Submit and Engine take one try_admit for.  While calls for one     *)
(* graph never overlap, all that goes is beaten by Capacity rows; when     *)
(* they may, nothing goes but for a better row that stays.                 *)
(***************************************************************************)
THEOREM EndKeepsAlways == Spec => EndKeeps
<1>1. CASE Overlap # "any"
  <2>1. Spec => []IInv
    BY <1>1, IInvAlways DEF DistinctInFlight
  <2>2. IInv /\ IInv' => [\A t \in Txs : Ends(t) =>
                            Keeps(Overlap = "any", board, Mine(t), board')]_vars
    BY <1>1, EndKeepsDistinct
  <2>3. QED
    BY <2>1, <2>2, PTL DEF Spec, EndKeeps
<1>2. CASE Overlap = "any"
  <2>1. Init => TInv /\ AnyInv
    <3>1. Init => AnyInv
      BY DEF Init, AnyInv, Carries, Careful, Mine, Gone, None
    <3>2. QED
      BY <3>1, InitType
  <2>2. TInv /\ AnyInv /\ [Next]_vars => (TInv /\ AnyInv)'
    BY StepType, AnyInvStep
  <2>3. TInv /\ AnyInv => [\A t \in Txs : Ends(t) =>
                            Keeps(Overlap = "any", board, Mine(t), board')]_vars
    BY <1>2, EndKeepsAny
  <2>4. QED
    BY <2>1, <2>2, <2>3, PTL DEF Spec, EndKeeps
<1>3. QED
  BY <1>1, <1>2
-----------------------------------------------------------------------------
(***************************************************************************)
(* When transactions do not overlap, Admission implements Leaderboard, for *)
(* any graphs and any capacity: each decision of try_admit is one step of  *)
(* the abstract leaderboard, and the board is the best Capacity of all     *)
(* that was decided.                                                       *)
(***************************************************************************)

(***************************************************************************)
(* The best of a set.                                                      *)
(***************************************************************************)
\* Who is best of the best and one more is best of all.
LEMMA BestOfMore ==
  ASSUME NEW D, NEW g, NEW S, NEW B,
         IsFiniteSet(D), D \subseteq Graphs, g \in Graphs,
         IsBest(S, D), IsBest(B, S \cup {g})
  PROVE  IsBest(B, D \cup {g})
<1>1. /\ S \subseteq D /\ B \subseteq S \cup {g}
      /\ D \cup {g} \subseteq Nat
  BY GraphsAssumption DEF IsBest
<1>2. /\ IsFiniteSet(S) /\ IsFiniteSet(S \cup {g}) /\ IsFiniteSet(B) /\ IsFiniteSet(D \cup {g})
      /\ Cardinality(S) \in Nat /\ Cardinality(D) \in Nat /\ Cardinality(B) \in Nat
      /\ Cardinality(S \cup {g}) = IF g \in S THEN Cardinality(S) ELSE Cardinality(S) + 1
      /\ Cardinality(D \cup {g}) = IF g \in D THEN Cardinality(D) ELSE Cardinality(D) + 1
  <2>1. IsFiniteSet(S) /\ IsFiniteSet(S \cup {g})
    BY <1>1, FS_Subset, FS_AddElement
  <2>2. IsFiniteSet(B)
    BY <1>1, <2>1, FS_Subset
  <2>3. QED
    BY <2>1, <2>2, FS_AddElement, FS_CardinalityType
<1>3. CASE S = D
  BY <1>3
<1>4. CASE S # D
  <2>1. Cardinality(S) = Capacity /\ Capacity < Cardinality(D)
    <3>1. Cardinality(S) <= Cardinality(D) /\ Cardinality(S) # Cardinality(D)
      BY <1>1, <1>4, FS_Subset
    <3>2. QED
      BY <1>2, <3>1, CapacityAssumption DEF IsBest, AtMost
  <2>2. Cardinality(B) = Capacity /\ AtMost(Capacity, D \cup {g}) = Capacity
    BY <1>2, <2>1, CapacityAssumption DEF IsBest, AtMost
  <2>3. ASSUME NEW x \in B, NEW y \in (D \cup {g}) \ B
        PROVE  x < y
    <3>1. CASE y \in S \cup {g}
      BY <3>1 DEF IsBest
    <3>2. CASE y \notin S \cup {g} /\ x \in S
      BY <3>2 DEF IsBest
    <3>3. CASE y \notin S \cup {g} /\ x \notin S
      <4>1. x = g /\ g \notin S
        BY <1>1, <3>3
      <4>2. PICK z \in (S \cup {g}) \ B : TRUE
        <5>1. Cardinality(B) # Cardinality(S \cup {g})
          BY <1>2, <2>1, <2>2, <4>1
        <5>2. QED
          BY <1>1, <5>1
      <4>3. x < z /\ z \in S
        BY <4>1, <4>2 DEF IsBest
      <4>4. z < y
        BY <3>3, <4>3 DEF IsBest
      <4>5. x \in Nat /\ y \in Nat /\ z \in Nat
        BY <1>1, <4>3
      <4>6. QED
        BY <4>3, <4>4, <4>5
    <3>4. QED
      BY <3>1, <3>2, <3>3
  <2>4. B \subseteq D \cup {g}
    BY <1>1
  <2>5. QED
    BY <2>2, <2>3, <2>4 DEF IsBest
<1>5. QED
  BY <1>3, <1>4

\* A board that has no more rows than fit is the best of itself.
LEMMA BestOfItself ==
  ASSUME NEW S, Cardinality(S) <= Capacity
  PROVE  IsBest(S, S)
BY DEF IsBest, AtMost

\* What the trim leaves is the best of what it found.
LEMMA BestAfterTrim ==
  ASSUME NEW S, IsFiniteSet(S), NEW V, IsTail(V, S, Excess(S))
  PROVE  IsBest(S \ V, S)
<1>1. V \subseteq S /\ IsFiniteSet(V) /\ Cardinality(V) = Excess(S)
  BY FS_Subset DEF IsTail
<1>2. Cardinality(S \ V) = Cardinality(S) - Cardinality(S \cap V) /\ S \cap V = V
  BY <1>1, FS_Difference
<1>3. Cardinality(S) \in Nat
  BY FS_CardinalityType
<1>4. Cardinality(S \ V) = AtMost(Capacity, S)
  BY <1>1, <1>2, <1>3, CapacityAssumption DEF Excess, AtMost
<1>5. \A x \in S \ V, y \in S \ (S \ V) : x < y
  BY <1>1 DEF IsTail
<1>6. QED
  BY <1>4, <1>5 DEF IsBest

-----------------------------------------------------------------------------
(***************************************************************************)
(* The invariant of transactions that do not overlap.                      *)
(***************************************************************************)
\* w is the worst row of a full board, and t's graph is better.
Beats(t, w) ==
  /\ Cardinality(board) = Capacity
  /\ w \in board /\ \A y \in board \ {w} : y < w
  /\ graph[t] < w

\* What t has read and written, by its next statement.
Serial(t) ==
  /\ graph[t] \in Graphs
  /\ pc[t] \in {"check", "count", "worst", "evict"} => ins[t] = {} /\ del[t] = {}
  /\ pc[t] \in {"count", "worst", "evict", "rank", "insert"} => graph[t] \notin board
  /\ pc[t] = "worst" => Cardinality(board) = Capacity
  /\ pc[t] = "evict" => Beats(t, worst[t])
  /\ pc[t] \in {"rank", "insert"} => ins[t] = {}
  /\ pc[t] = "trim" => ins[t] = {graph[t]} /\ graph[t] \notin board
  /\ pc[t] \in {"rank", "insert", "trim"} =>
       del[t] = {} \/ \E w \in board : del[t] = {w} /\ Beats(t, w)
  /\ pc[t] \in {"trimming", "commit"} =>
       IsBest(View(t) \ todo[t], board \cup {graph[t]})
  /\ pc[t] = "commit" => todo[t] = {}

SerialInv ==
  /\ TInv
  /\ IsFiniteSet(decided)
  /\ IsBest(board, decided)
  /\ \A t, u \in Txs : Active(t) /\ Active(u) => t = u
  /\ \A t \in Txs : Active(t) => Serial(t)

LEMMA NotOverfull ==
  ASSUME SerialInv
  PROVE  Cardinality(board) <= Capacity /\ Cardinality(board) \in Nat
BY FS_CardinalityType, CapacityAssumption DEF SerialInv, TInv, IsBest, AtMost

LEMMA InitSerial == Init => SerialInv
<1> SUFFICES ASSUME Init
             PROVE  SerialInv
  OBVIOUS
<1>1. TInv
  BY InitType
<1>2. decided = {} /\ board = {} /\ \A t \in Txs : pc[t] = "idle"
  BY DEF Init
<1>3. IsBest({}, {})
  BY FS_EmptySet, BestOfItself, CapacityAssumption
<1>4. QED
  BY <1>1, <1>2, <1>3, FS_EmptySet DEF SerialInv, Active

\* A statement of t that leaves the board and the decisions alone.
LEMMA SerialStep ==
  ASSUME SerialInv, TInv', NEW t \in Txs, Active(t), NEW to, Goto(t, to),
         board' = board, decided' = decided, Active(t)' => Serial(t)'
  PROVE  SerialInv'
<1>1. \A u \in Txs : u # t => pc'[u] = "idle"
  BY DEF SerialInv, TInv, TypeOK, Goto, Active
<1>2. \A u \in Txs : Active(u)' => u = t
  BY <1>1 DEF Active
<1>3. \A u \in Txs : Active(u)' => Serial(u)'
  BY <1>2
<1>4. QED
  BY <1>2, <1>3 DEF SerialInv

\* The end of the only transaction.
LEMMA SerialEnd ==
  ASSUME SerialInv, TInv', NEW t \in Txs, Active(t), Goto(t, "idle"),
         IsFiniteSet(decided'), IsBest(board', decided')
  PROVE  SerialInv'
<1>1. \A u \in Txs : pc'[u] = "idle"
  BY DEF SerialInv, TInv, TypeOK, Goto, Active
<1>2. QED
  BY <1>1 DEF SerialInv, Active

\* The abstract leaderboard's notions are those of Ranking.
LEMMA SameCardinality == \A S : L!Cardinality(S) = Cardinality(S)
BY Zenon DEF L!Cardinality, Cardinality

LEMMA SameBest ==
  ASSUME NEW S, NEW B
  PROVE  L!IsBest(B, S) <=> IsBest(B, S)
BY SameCardinality DEF IsBest, AtMost, L!IsBest, L!AtMost

\* The abstract step.
LEMMA OfferIsBest ==
  ASSUME NEW g, IsBest(board', board \cup {g}), decided' = decided \cup {g}
  PROVE  L!Offer(g)
<1>1. board' \in SUBSET (board \cup {g})
  BY DEF IsBest
<1>2. L!IsBest(board', board \cup {g})
  BY SameBest
<1>3. QED
  BY <1>1, <1>2 DEF L!Offer

\* Nothing written: the board is the best of itself and the graph refused.
LEMMA SerialNone ==
  ASSUME SerialInv, TInv', NEW t \in Txs, Active(t), ReturnNone(t),
         IsBest(board, board \cup {graph[t]})
  PROVE  SerialInv' /\ L!Offer(graph[t])
<1>1. graph[t] \in Graphs /\ decided \subseteq Graphs
  BY DEF SerialInv, Serial, TInv, TypeOK
<1>2. board' = board /\ decided' = decided \cup {graph[t]} /\ Goto(t, "idle")
  BY DEF ReturnNone, Close
<1>3. IsFiniteSet(decided') /\ IsBest(board', decided')
  BY <1>1, <1>2, BestOfMore, FS_AddElement DEF SerialInv
<1>4. SerialInv'
  BY <1>2, <1>3, SerialEnd
<1>5. QED
  BY <1>2, <1>4, OfferIsBest
-----------------------------------------------------------------------------
(***************************************************************************)
(* One lemma per statement.                                                *)
(***************************************************************************)
LEMMA SerialBegin ==
  ASSUME Overlap = "none", SerialInv, TInv', NEW t \in Txs, NEW g \in Graphs, Begin(t, g)
  PROVE  SerialInv' /\ UNCHANGED <<board, decided>>
<1>1. \A u \in Txs : pc[u] = "idle"
  BY DEF Begin, Arrives, Active
<1>2. \A u \in Txs : u # t => pc'[u] = "idle"
  BY <1>1 DEF Begin, Goto, SerialInv, TInv, TypeOK
<1>3. /\ pc'[t] = "check" /\ graph'[t] = g
      /\ ins'[t] = {} /\ del'[t] = {}
      /\ UNCHANGED <<board, decided>>
  BY <1>1 DEF Begin, Goto, SerialInv, TInv, TypeOK, Active
<1>4. Serial(t)'
  BY <1>3 DEF Serial
<1>5. QED
  BY <1>2, <1>3, <1>4 DEF SerialInv, Active

LEMMA SerialBeginTrim ==
  ASSUME SerialInv, NEW t \in Txs, BeginTrim(t)
  PROVE  FALSE
BY NotOverfull, CapacityAssumption DEF BeginTrim

LEMMA SerialCheck ==
  ASSUME SerialInv, TInv', NEW t \in Txs, CheckExisting(t)
  PROVE  SerialInv' /\ (UNCHANGED <<board, decided>> \/ L!Offer(graph[t]))
<1>1. pc[t] = "check" /\ Active(t) /\ Serial(t)
  BY DEF CheckExisting, Active, SerialInv
<1>2. View(t) = board
  BY <1>1 DEF Serial, View
<1>3. CASE graph[t] \in View(t) /\ ReturnNone(t)
  <2>1. board \cup {graph[t]} = board
    BY <1>2, <1>3
  <2>2. QED
    BY <1>1, <1>3, <2>1, NotOverfull, BestOfItself, SerialNone
<1>4. CASE graph[t] \notin View(t) /\ Goto(t, "count") /\ UNCHANGED <<board, rank, decided, local>>
  <2>1. pc'[t] = "count" /\ UNCHANGED <<board, decided, graph, worst, ins, del, todo>>
    BY <1>4 DEF Goto, local, SerialInv, TInv, TypeOK
  <2>2. Serial(t)'
    BY <1>1, <1>2, <1>4, <2>1 DEF Serial
  <2>3. QED
    BY <1>1, <1>4, <2>2, SerialStep
<1>5. QED
  BY <1>3, <1>4 DEF CheckExisting

LEMMA SerialCount ==
  ASSUME SerialInv, TInv', NEW t \in Txs, CountRows(t)
  PROVE  SerialInv' /\ UNCHANGED <<board, decided>>
<1>1. pc[t] = "count" /\ Active(t) /\ Serial(t)
  BY DEF CountRows, Active, SerialInv
<1>2. View(t) = board
  BY <1>1 DEF Serial, View
<1>3. /\ pc'[t] = IF Full(View(t)) THEN "worst" ELSE "rank"
      /\ Goto(t, IF Full(View(t)) THEN "worst" ELSE "rank")
      /\ UNCHANGED <<board, decided, graph, worst, ins, del, todo>>
  BY DEF CountRows, Goto, local, SerialInv, TInv, TypeOK
<1>4. Full(View(t)) => Cardinality(board) = Capacity
  BY <1>2, NotOverfull, CapacityAssumption DEF Full
<1>5. Serial(t)'
  BY <1>1, <1>3, <1>4 DEF Serial
<1>6. QED
  BY <1>1, <1>3, <1>5, SerialStep

LEMMA SerialWorst ==
  ASSUME SerialInv, TInv', NEW t \in Txs, ReadWorst(t)
  PROVE  SerialInv' /\ (UNCHANGED <<board, decided>> \/ L!Offer(graph[t]))
<1>1. pc[t] = "worst" /\ Active(t) /\ Serial(t)
  BY DEF ReadWorst, Active, SerialInv
<1>2. /\ View(t) = board /\ Cardinality(board) = Capacity /\ graph[t] \notin board
      /\ board \subseteq Nat /\ graph[t] \in Nat
  BY <1>1, GraphsAssumption DEF Serial, View, SerialInv, TInv, TypeOK
<1>3. CASE Goto(t, "rank") /\ UNCHANGED <<board, rank, decided, local>>
  <2>1. pc'[t] = "rank" /\ UNCHANGED <<board, decided, graph, worst, ins, del, todo>>
    BY <1>3 DEF Goto, local, SerialInv, TInv, TypeOK
  <2>2. Serial(t)'
    BY <1>1, <2>1 DEF Serial
  <2>3. QED
    BY <1>1, <1>3, <2>2, SerialStep
<1>4. ASSUME NEW w \in View(t), IsTail({w}, View(t), 1),
             NotBetter(graph[t], w), ReturnNone(t)
      PROVE  SerialInv' /\ L!Offer(graph[t])
  <2>1. \A x \in board : x < graph[t]
    <3>1. w \in board /\ w # graph[t] /\ w <= graph[t] /\ w \in Nat
      BY <1>2, <1>4 DEF NotBetter
    <3>2. \A y \in board \ {w} : y < w /\ y \in Nat
      BY <1>2, <1>4 DEF IsTail
    <3>3. QED
      BY <1>2, <3>1, <3>2
  <2>2. Cardinality(board \cup {graph[t]}) = Cardinality(board) + 1
    BY <1>2, FS_AddElement DEF SerialInv, TInv
  <2>3. IsBest(board, board \cup {graph[t]})
    BY <1>2, <2>1, <2>2, CapacityAssumption DEF IsBest, AtMost
  <2>4. QED
    BY <1>1, <1>4, <2>3, SerialNone
<1>5. ASSUME NEW w \in View(t), IsTail({w}, View(t), 1),
             ~NotBetter(graph[t], w), worst' = [worst EXCEPT ![t] = w], Goto(t, "evict"),
             UNCHANGED <<board, rank, decided, graph, newRank, ins, del, todo>>
      PROVE  SerialInv' /\ UNCHANGED <<board, decided>>
  <2>1. /\ pc'[t] = "evict" /\ worst'[t] = w
        /\ UNCHANGED <<board, decided, graph, ins, del, todo>>
    BY <1>5 DEF Goto, SerialInv, TInv, TypeOK
  <2>2. Beats(t, w) /\ graph'[t] = graph[t] /\ board' = board
    <3>1. w \in board /\ w \in Nat /\ ~(graph[t] >= w)
      BY <1>2, <1>5 DEF NotBetter
    <3>2. graph[t] < w
      BY <1>2, <3>1
    <3>3. \A y \in board \ {w} : y < w
      BY <1>2, <1>5 DEF IsTail
    <3>4. QED
      BY <1>2, <1>5, <3>1, <3>2, <3>3 DEF Beats
  <2>3. Serial(t)'
    BY <1>1, <2>1, <2>2 DEF Serial, Beats
  <2>4. QED
    BY <1>1, <1>5, <2>3, SerialStep
<1>6. QED
  BY <1>3, <1>4, <1>5 DEF ReadWorst

LEMMA SerialEvict ==
  ASSUME SerialInv, TInv', NEW t \in Txs, EvictWorst(t)
  PROVE  SerialInv' /\ UNCHANGED <<board, decided>>
<1>1. pc[t] = "evict" /\ Active(t) /\ Serial(t)
  BY DEF EvictWorst, Active, SerialInv
<1>2. View(t) = board /\ Beats(t, worst[t])
  BY <1>1 DEF Serial, View
<1>3. /\ pc'[t] = "rank" /\ Goto(t, "rank") /\ del'[t] = {worst[t]}
      /\ UNCHANGED <<board, decided, graph, worst, ins, todo>>
  BY <1>1, <1>2 DEF EvictWorst, Goto, SerialInv, TInv, TypeOK, Beats, Serial
<1>4. worst[t] \in board' /\ Beats(t, worst[t])'
  BY <1>2, <1>3 DEF Beats
<1>5. Serial(t)'
  BY <1>1, <1>3, <1>4 DEF Serial, Beats
<1>6. QED
  BY <1>1, <1>3, <1>5, SerialStep

LEMMA SerialRank ==
  ASSUME SerialInv, TInv', NEW t \in Txs, CountBetter(t)
  PROVE  SerialInv' /\ UNCHANGED <<board, decided>>
<1>1. pc[t] = "rank" /\ Active(t) /\ Serial(t)
  BY DEF CountBetter, Active, SerialInv
<1>2. /\ pc'[t] = "insert" /\ Goto(t, "insert")
      /\ UNCHANGED <<board, decided, graph, worst, ins, del, todo>>
  BY DEF CountBetter, Goto, SerialInv, TInv, TypeOK
<1>3. Serial(t)'
  BY <1>1, <1>2 DEF Serial, Beats
<1>4. QED
  BY <1>1, <1>2, <1>3, SerialStep

LEMMA SerialInsert ==
  ASSUME SerialInv, TInv', NEW t \in Txs, InsertRow(t)
  PROVE  SerialInv' /\ UNCHANGED <<board, decided>>
<1>1. pc[t] = "insert" /\ Active(t) /\ Serial(t)
  BY DEF InsertRow, Active, SerialInv
<1>2. /\ pc'[t] = "trim" /\ Goto(t, "trim") /\ ins'[t] = {graph[t]}
      /\ UNCHANGED <<board, decided, graph, worst, del, todo>>
  BY <1>1 DEF InsertRow, Goto, SerialInv, TInv, TypeOK, Serial
<1>3. Serial(t)'
  BY <1>1, <1>2 DEF Serial, Beats
<1>4. QED
  BY <1>1, <1>2, <1>3, SerialStep

\* Having evicted the worst row, t still sees the best of all the rows and its own.
LEMMA BestInView ==
  ASSUME SerialInv, NEW t \in Txs, Active(t), pc[t] = "trim", NEW B, IsBest(B, View(t))
  PROVE  IsBest(B, board \cup {graph[t]})
<1>1. /\ Serial(t) /\ graph[t] \in Nat /\ board \subseteq Nat /\ graph[t] \notin board
      /\ View(t) = (board \cup {graph[t]}) \ del[t] /\ IsFiniteSet(board)
  BY GraphsAssumption DEF SerialInv, Serial, TInv, TypeOK, View
<1>2. CASE del[t] = {}
  BY <1>1, <1>2
<1>3. ASSUME NEW w \in board, del[t] = {w}, Beats(t, w)
      PROVE  IsBest(B, board \cup {graph[t]})
  <2> DEFINE S == board \cup {graph[t]}
  <2>1. IsFiniteSet(S) /\ Cardinality(S) = Capacity + 1
    BY <1>1, <1>3, FS_AddElement DEF Beats
  <2>2. IsFiniteSet(S \ {w}) /\ Cardinality(S \ {w}) = Capacity
    BY <2>1, FS_RemoveElement, CapacityAssumption
  <2>3. View(t) = S \ {w}
    BY <1>1, <1>3
  <2>4. B = S \ {w}
    <3>1. B \subseteq S \ {w} /\ Cardinality(B) = Cardinality(S \ {w})
      BY <2>2, <2>3, CapacityAssumption DEF IsBest, AtMost
    <3>2. QED
      BY <2>2, <3>1, FS_Subset
  <2>5. \A x \in B : x < w
    BY <1>3, <2>4 DEF Beats
  <2>6. AtMost(Capacity, S) = Capacity
    BY <2>1, CapacityAssumption DEF AtMost
  <2>7. QED
    BY <2>2, <2>4, <2>5, <2>6 DEF IsBest
<1>4. QED
  BY <1>1, <1>2, <1>3 DEF Serial

LEMMA SerialSelect ==
  ASSUME SerialInv, TInv', NEW t \in Txs, SelectExcess(t)
  PROVE  SerialInv' /\ UNCHANGED <<board, decided>>
<1>1. pc[t] = "trim" /\ Active(t) /\ Serial(t)
  BY DEF SelectExcess, Active, SerialInv
<1>2. PICK V \in SUBSET View(t) :
        IsTail(V, View(t), Excess(View(t))) /\ todo' = [todo EXCEPT ![t] = V]
  BY DEF SelectExcess
<1>3. /\ pc'[t] = "trimming" /\ Goto(t, "trimming") /\ todo'[t] = V
      /\ UNCHANGED <<board, decided, graph, worst, ins, del>>
  BY <1>2 DEF SelectExcess, Goto, SerialInv, TInv, TypeOK
<1>4. IsFiniteSet(View(t))
  BY ViewFinite DEF SerialInv
<1>5. IsBest(View(t) \ V, board \cup {graph[t]})
  BY <1>1, <1>2, <1>4, BestAfterTrim, BestInView
<1>6. View(t)' = View(t)
  BY <1>3 DEF View
<1>7. Serial(t)'
  BY <1>1, <1>3, <1>5, <1>6 DEF Serial
<1>8. QED
  BY <1>1, <1>3, <1>7, SerialStep

LEMMA SerialTrimRow ==
  ASSUME SerialInv, TInv', NEW t \in Txs, TrimRow(t)
  PROVE  SerialInv' /\ UNCHANGED <<board, decided>>
<1>1. pc[t] = "trimming" /\ Active(t) /\ Serial(t)
  BY DEF TrimRow, Active, SerialInv
<1>2. PICK x \in todo[t] : /\ del' = [del EXCEPT ![t] = @ \cup {x}]
                           /\ todo' = [todo EXCEPT ![t] = @ \ {x}]
  BY DEF TrimRow
<1>3. /\ pc' = pc /\ UNCHANGED <<board, decided, graph, worst, ins>>
      /\ del'[t] = del[t] \cup {x} /\ todo'[t] = todo[t] \ {x}
  BY <1>2 DEF TrimRow, SerialInv, TInv, TypeOK
<1>4. View(t)' \ todo'[t] = View(t) \ todo[t]
  BY <1>3 DEF View
<1>5. Serial(t)'
  BY <1>1, <1>3, <1>4 DEF Serial
<1>6. Goto(t, "trimming")
  BY <1>1, <1>3 DEF Goto, SerialInv, TInv, TypeOK
<1>7. QED
  BY <1>1, <1>3, <1>5, <1>6, SerialStep

LEMMA SerialTrimDone ==
  ASSUME SerialInv, TInv', NEW t \in Txs, TrimDone(t)
  PROVE  SerialInv' /\ UNCHANGED <<board, decided>>
<1>1. pc[t] = "trimming" /\ todo[t] = {} /\ Active(t) /\ Serial(t)
  BY DEF TrimDone, Active, SerialInv
<1>2. /\ pc'[t] = "commit" /\ Goto(t, "commit")
      /\ UNCHANGED <<board, decided, graph, worst, ins, del, todo>>
  BY DEF TrimDone, Goto, local, SerialInv, TInv, TypeOK
<1>3. View(t)' = View(t)
  BY <1>2 DEF View
<1>4. Serial(t)'
  BY <1>1, <1>2, <1>3 DEF Serial
<1>5. QED
  BY <1>1, <1>2, <1>4, SerialStep

LEMMA SerialCommit ==
  ASSUME SerialInv, TInv', NEW t \in Txs, Commit(t)
  PROVE  SerialInv' /\ L!Offer(graph[t])
<1>1. pc[t] = "commit" /\ todo[t] = {} /\ Active(t) /\ Serial(t)
  BY DEF Commit, Active, SerialInv, Serial
<1>2. /\ board' = View(t) /\ decided' = decided \cup ({graph[t]} \ {None})
      /\ Goto(t, "idle")
  BY DEF Commit, Close
<1>3. graph[t] \in Graphs /\ graph[t] # None /\ decided \subseteq Graphs
  BY <1>1, GraphsAssumption DEF Serial, None, SerialInv, TInv, TypeOK
<1>4. decided' = decided \cup {graph[t]}
  BY <1>2, <1>3
<1>5. IsBest(View(t), board \cup {graph[t]})
  BY <1>1 DEF Serial
<1>6. IsFiniteSet(decided') /\ IsBest(board', decided')
  BY <1>2, <1>3, <1>4, <1>5, BestOfMore, FS_AddElement DEF SerialInv
<1>7. SerialInv'
  BY <1>1, <1>2, <1>6, SerialEnd
<1>8. QED
  BY <1>2, <1>4, <1>5, <1>7, OfferIsBest

LEMMA SerialAbort ==
  ASSUME SerialInv, TInv', NEW t \in Txs, Abort(t)
  PROVE  SerialInv' /\ UNCHANGED <<board, decided>>
<1>1. Active(t) /\ Goto(t, "idle") /\ UNCHANGED <<board, decided>>
  BY DEF Abort, Close
<1>2. QED
  BY <1>1, SerialEnd DEF SerialInv
-----------------------------------------------------------------------------
\* Every step keeps the invariant, and decides one graph or nothing.
LEMMA SerialNext ==
  ASSUME Overlap = "none", SerialInv, [Next]_vars
  PROVE  SerialInv' /\ [L!Next]_(L!vars)
<1>1. TInv'
  BY StepType DEF SerialInv
<1>2. CASE UNCHANGED vars
  <2>1. SerialInv'
    BY <1>1, <1>2 DEF vars, local, SerialInv, Active, Serial, View, Beats
  <2>2. QED
    BY <1>2, <2>1 DEF vars, L!vars
<1>3. ASSUME NEW t \in Txs, Statement(t)
      PROVE  /\ SerialInv'
             /\ UNCHANGED <<board, decided>> \/ L!Offer(graph[t])
  BY <1>1, <1>3, SerialCheck, SerialCount, SerialWorst, SerialEvict, SerialRank,
     SerialInsert, SerialSelect, SerialTrimRow, SerialTrimDone, SerialCommit DEF Statement
<1>4. \A t \in Txs : Statement(t) => graph[t] \in Graphs
  BY DEF Statement, CheckExisting, CountRows, ReadWorst, EvictWorst, CountBetter, InsertRow,
         SelectExcess, TrimRow, TrimDone, Commit, SerialInv, Serial, Active
<1>5. ASSUME NEW t \in Txs, Statement(t)
      PROVE  SerialInv' /\ [L!Next]_(L!vars)
  BY <1>3, <1>4, <1>5 DEF L!Next, L!vars
<1>6. ASSUME NEW t \in Txs, \/ \E g \in Graphs : Begin(t, g)
                            \/ BeginTrim(t) \/ Abort(t)
      PROVE  SerialInv' /\ [L!Next]_(L!vars)
  BY <1>1, <1>6, SerialBegin, SerialBeginTrim, SerialAbort DEF L!vars
<1>7. QED
  BY <1>2, <1>5, <1>6 DEF Next

(***************************************************************************)
(* try_admit's promise: when transactions do not overlap, the eight        *)
(* statements with their aborts and the trim at startup implement the      *)
(* abstract leaderboard.                                                   *)
(***************************************************************************)
THEOREM ImplementsLeaderboard ==
  ASSUME Overlap = "none"
  PROVE  Spec => Abstract
<1>1. Init => L!Init
  BY DEF Init, L!Init
<1>2. Init => SerialInv
  BY InitSerial
<1>3. SerialInv /\ [Next]_vars => SerialInv' /\ [L!Next]_(L!vars)
  BY SerialNext
<1>4. QED
  BY <1>1, <1>2, <1>3, PTL DEF Spec, Abstract, L!Spec

(***************************************************************************)
(* And the board is then the best Capacity of all graphs that were ever    *)
(* decided, in whatever order they came.                                   *)
(***************************************************************************)
THEOREM BestKeptAlways ==
  ASSUME Overlap = "none"
  PROVE  Spec => []BestKept
<1>1. Init => SerialInv
  BY InitSerial
<1>2. SerialInv /\ [Next]_vars => SerialInv'
  BY SerialNext
<1>3. SerialInv => BestKept
  <2> SUFFICES ASSUME SerialInv
               PROVE  BestKept
    OBVIOUS
  <2>1. IsBest(board, decided)
    BY DEF SerialInv
  <2>2. QED
    BY <2>1, SameBest DEF BestKept, L!KeepsBest
<1>4. QED
  BY <1>1, <1>2, <1>3, PTL DEF Spec
-----------------------------------------------------------------------------
(***************************************************************************)
(* The answer of try_admit.                                                *)
(***************************************************************************)
Better(g) == {x \in board : x < g}

\* Once t is going to insert, its graph is not beaten, and its rank, counted
\* without the row that t evicts, is the one among all the rows.
Placed(t) ==
  /\ pc[t] \in {"rank", "insert", "trim", "trimming", "commit"} =>
       Cardinality(Better(graph[t])) < Capacity
  /\ pc[t] \in {"insert", "trim", "trimming", "commit"} =>
       newRank[t] = Cardinality(Better(graph[t])) + 1

PlacedInv == \A t \in Txs : Active(t) => Placed(t)

LEMMA BetterFinite ==
  ASSUME IsFiniteSet(board), NEW g
  PROVE  /\ IsFiniteSet(Better(g)) /\ Cardinality(Better(g)) \in Nat
         /\ Cardinality(Better(g)) <= Cardinality(board) /\ Cardinality(board) \in Nat
<1>1. Better(g) \subseteq board
  BY DEF Better
<1> HIDE DEF Better
<1>2. QED
  BY <1>1, FS_Subset, FS_CardinalityType

\* A graph that beats a row of a full board is among the best Capacity.
LEMMA BeatsIsPlaced ==
  ASSUME SerialInv, NEW t \in Txs, NEW w, Beats(t, w), graph[t] \in Graphs
  PROVE  Cardinality(Better(graph[t])) < Capacity
<1>1. IsFiniteSet(board) /\ w \in board /\ Cardinality(board) = Capacity /\ graph[t] < w
      /\ board \subseteq Nat /\ graph[t] \in Nat
  BY GraphsAssumption DEF Beats, SerialInv, TInv, TypeOK
<1>2. Better(graph[t]) \subseteq board /\ w \notin Better(graph[t])
  BY <1>1 DEF Better
<1> HIDE DEF Better
<1>3. Cardinality(Better(graph[t])) <= Cardinality(board)
      /\ Cardinality(Better(graph[t])) # Cardinality(board)
  BY <1>1, <1>2, FS_Subset
<1>4. Cardinality(Better(graph[t])) \in Nat
  BY <1>1, BetterFinite
<1>5. QED
  BY <1>1, <1>3, <1>4, CapacityAssumption

\* A statement of t after which the board and t's graph are what they were.
LEMMA PlacedStep ==
  ASSUME SerialInv, PlacedInv, NEW t \in Txs, NEW to, Goto(t, to), Active(t),
         UNCHANGED <<board, graph>>,
         pc[t] \in {"check", "count", "worst", "evict"}
           => \/ to \in {"count", "worst", "evict"}
              \/ to = "rank" /\ Cardinality(Better(graph[t])) < Capacity,
         pc[t] = "rank" => to = "insert" /\ newRank'[t] = Cardinality(Better(graph[t])) + 1,
         pc[t] \in {"insert", "trim", "trimming", "commit"} => newRank' = newRank
  PROVE  PlacedInv'
<1>1. /\ pc'[t] = to /\ \A u \in Txs : u # t => pc'[u] = "idle"
      /\ pc[t] \in Stmts
  BY DEF SerialInv, TInv, TypeOK, Goto, Active
<1>2. Better(graph[t])' = Better(graph[t])
  BY DEF Better
<1>3. Placed(t)
  BY DEF PlacedInv
<1> HIDE DEF Better
<1>4. Placed(t)'
  BY <1>1, <1>2, <1>3 DEF Placed, Stmts
<1>5. QED
  BY <1>1, <1>4 DEF PlacedInv, Active

LEMMA PlacedIdle ==
  ASSUME SerialInv, NEW t \in Txs, Active(t), NEW to, to \in {"idle", "check"}, Goto(t, to)
  PROVE  PlacedInv'
<1>1. \A u \in Txs : pc'[u] \in {"idle", "check"}
  BY DEF SerialInv, TInv, TypeOK, Goto, Active
<1>2. QED
  BY <1>1 DEF PlacedInv, Placed

LEMMA PlacedNext ==
  ASSUME Overlap = "none", Capacity > 0, SerialInv, PlacedInv, [Next]_vars
  PROVE  PlacedInv'
<1>1. CASE UNCHANGED vars
  BY <1>1 DEF vars, local, PlacedInv, Placed, Active, Better
<1>2. ASSUME NEW t \in Txs, NEW g \in Graphs, Begin(t, g)
      PROVE  PlacedInv'
  <2>1. \A u \in Txs : pc'[u] \in {"idle", "check"}
    BY <1>2 DEF Begin, Arrives, Active, Goto, SerialInv, TInv, TypeOK
  <2>2. QED
    BY <2>1 DEF PlacedInv, Placed
<1>3. ASSUME NEW t \in Txs, Abort(t) \/ Commit(t)
      PROVE  PlacedInv'
  BY <1>3, PlacedIdle DEF Abort, Commit, Close, Active
<1>4. ASSUME NEW t \in Txs, Active(t), ReturnNone(t)
      PROVE  PlacedInv'
  BY <1>4, PlacedIdle DEF ReturnNone, Close
<1>5. ASSUME NEW t \in Txs, CheckExisting(t)
      PROVE  PlacedInv'
  <2>1. Active(t) /\ pc[t] = "check"
    BY <1>5 DEF CheckExisting, Active
  <2>2. CASE Goto(t, "count") /\ UNCHANGED <<board, rank, decided, local>>
    BY <2>1, <2>2, PlacedStep DEF local
  <2>3. QED
    BY <1>4, <1>5, <2>1, <2>2 DEF CheckExisting
<1>6. ASSUME NEW t \in Txs, CountRows(t)
      PROVE  PlacedInv'
  <2>1. Active(t) /\ pc[t] = "count" /\ View(t) = board /\ IsFiniteSet(board)
    BY <1>6 DEF CountRows, Active, SerialInv, Serial, View, TInv
  <2>2. Goto(t, IF Full(View(t)) THEN "worst" ELSE "rank") /\ UNCHANGED <<board, graph>>
    BY <1>6 DEF CountRows, local
  <2>3. ~Full(View(t)) => Cardinality(Better(graph[t])) < Capacity
    BY <2>1, BetterFinite, CapacityAssumption DEF Full
  <2>4. QED
    BY <2>1, <2>2, <2>3, PlacedStep
<1>7. ASSUME NEW t \in Txs, ReadWorst(t)
      PROVE  PlacedInv'
  <2>1. /\ Active(t) /\ pc[t] = "worst" /\ View(t) = board /\ IsFiniteSet(board)
        /\ Cardinality(board) = Capacity
    BY <1>7 DEF ReadWorst, Active, SerialInv, Serial, View, TInv
  <2>2. View(t) # {}
    BY <2>1, FS_EmptySet
  <2>3. CASE Goto(t, "evict") /\ UNCHANGED <<board, graph>>
    BY <2>1, <2>3, PlacedStep
  <2>4. QED
    BY <1>4, <1>7, <2>1, <2>2, <2>3 DEF ReadWorst
<1>8. ASSUME NEW t \in Txs, EvictWorst(t)
      PROVE  PlacedInv'
  <2>1. /\ Active(t) /\ pc[t] = "evict" /\ Beats(t, worst[t]) /\ graph[t] \in Graphs
        /\ Goto(t, "rank") /\ UNCHANGED <<board, graph>>
    BY <1>8 DEF EvictWorst, Active, SerialInv, Serial
  <2>2. Cardinality(Better(graph[t])) < Capacity
    BY <2>1, BeatsIsPlaced
  <2>3. QED
    BY <2>1, <2>2, PlacedStep
<1>9. ASSUME NEW t \in Txs, CountBetter(t)
      PROVE  PlacedInv'
  <2>1. /\ Active(t) /\ pc[t] = "rank" /\ Serial(t)
        /\ Goto(t, "insert") /\ UNCHANGED <<board, graph>>
        /\ newRank'[t] = Position(graph[t], View(t))
    BY <1>9 DEF CountBetter, Active, SerialInv, TInv, TypeOK
  <2>2. View(t) = board \ del[t] /\ graph[t] \in Nat /\ board \subseteq Nat
    BY <2>1, GraphsAssumption DEF Serial, View, SerialInv, TInv, TypeOK
  <2>3. \A x \in del[t] : ~(x < graph[t])
    BY <2>1, <2>2 DEF Serial, Beats
  <2>4. {x \in View(t) : x < graph[t]} = Better(graph[t])
    BY <2>2, <2>3 DEF Better
  <2>5. newRank'[t] = Cardinality(Better(graph[t])) + 1
    BY <2>1, <2>4 DEF Position
  <2>6. QED
    BY <2>1, <2>5, PlacedStep
<1>10. ASSUME NEW t \in Txs, InsertRow(t) \/ SelectExcess(t) \/ TrimRow(t) \/ TrimDone(t)
       PROVE  PlacedInv'
  <2>1. PICK to : Goto(t, to)
    BY <1>10 DEF InsertRow, SelectExcess, TrimRow, TrimDone, Goto, SerialInv, TInv, TypeOK
  <2>2. /\ pc[t] \in {"insert", "trim", "trimming"} /\ Active(t)
        /\ UNCHANGED <<board, graph, newRank>>
    BY <1>10 DEF InsertRow, SelectExcess, TrimRow, TrimDone, local, Active
  <2>3. QED
    BY <2>1, <2>2, PlacedStep
<1>11. ASSUME NEW t \in Txs, BeginTrim(t)
       PROVE  FALSE
  BY <1>11, SerialBeginTrim
<1>12. QED
  BY <1>1, <1>2, <1>3, <1>5, <1>6, <1>7, <1>8, <1>9, <1>10, <1>11 DEF Next, Statement

\* The best of a board and a graph that is not beaten on it have that graph, at the
\* place it would have had without the cut.
LEMMA BestHasPlaced ==
  ASSUME IsFiniteSet(board), board \subseteq Nat, NEW g \in Nat, NEW B,
         IsBest(B, board \cup {g}), Cardinality(Better(g)) < Capacity
  PROVE  g \in B /\ Cardinality({x \in B : x <= g}) = Cardinality(Better(g)) + 1
<1> DEFINE S == board \cup {g}
<1>1. /\ B \subseteq S /\ Cardinality(B) = AtMost(Capacity, S)
      /\ \A x \in B, y \in S \ B : x < y
      /\ IsFiniteSet(S) /\ IsFiniteSet(B)
      /\ Cardinality(S) \in Nat /\ Cardinality(B) \in Nat
  <2>1. IsFiniteSet(S) /\ B \subseteq S
    BY FS_AddElement DEF IsBest
  <2>2. IsFiniteSet(B)
    BY <2>1, FS_Subset
  <2> HIDE DEF S
  <2>3. Cardinality(S) \in Nat /\ Cardinality(B) \in Nat
    BY <2>1, <2>2, FS_CardinalityType
  <2>4. QED
    BY <2>1, <2>2, <2>3 DEF IsBest, S
<1>2. g \in B
  <2> SUFFICES ASSUME g \notin B
               PROVE  FALSE
    OBVIOUS
  <2>1. B \subseteq Better(g)
    BY <1>1 DEF Better
  <2>2. Cardinality(B) <= Cardinality(Better(g)) /\ Cardinality(Better(g)) \in Nat
    BY <2>1, BetterFinite, FS_Subset
  <2>3. Cardinality(B) = Cardinality(S)
    <3> HIDE DEF S
    <3>1. QED
      BY <1>1, <2>2, CapacityAssumption DEF AtMost
  <2>4. B = S
    BY <1>1, <2>3, FS_Subset
  <2>5. QED
    BY <2>4
<1>3. {x \in B : x <= g} = Better(g) \cup {g}
  <2>1. \A x \in board : x < g => x \in B
    BY <1>1, <1>2
  <2>2. B \subseteq Nat /\ \A x \in B : x \in board \/ x = g
    BY <1>1
  <2>3. \A x \in B : x <= g => x \in Better(g) \cup {g}
    BY <2>2 DEF Better
  <2>4. \A x \in Better(g) \cup {g} : x \in B /\ x <= g
    BY <1>2, <2>1, <2>2 DEF Better
  <2>5. QED
    BY <2>3, <2>4
<1>4. IsFiniteSet(Better(g)) /\ g \notin Better(g)
  BY BetterFinite DEF Better
<1>5. Cardinality(Better(g) \cup {g}) = Cardinality(Better(g)) + 1
  <2> HIDE DEF Better
  <2>1. QED
    BY <1>4, FS_AddElement
<1>6. QED
  BY <1>2, <1>3, <1>5

(***************************************************************************)
(* try_admit's answer is true: when transactions do not overlap, it        *)
(* answers Some(rank) only for a graph that its commit leaves on the       *)
(* board, and the rank, counted before the insert and the trim, is the     *)
(* graph's place there.  A board of no rows at all inserts a graph, trims  *)
(* it and answers all the same, so the capacity is not 0.                  *)
(***************************************************************************)
THEOREM AnswerTrueAlways ==
  ASSUME Overlap = "none", Capacity > 0
  PROVE  Spec => AnswerTrue
<1>1. Init => SerialInv /\ PlacedInv
  BY InitSerial DEF Init, PlacedInv, Active
<1>2. SerialInv /\ PlacedInv /\ [Next]_vars => (SerialInv /\ PlacedInv)'
  BY SerialNext, PlacedNext
<1>3. ASSUME SerialInv, PlacedInv
      PROVE  [\A t \in Txs : Commit(t) /\ graph[t] # None =>
                /\ graph[t] \in board'
                /\ newRank[t] = Cardinality({x \in board' : x <= graph[t]})]_vars
  <2>1. ASSUME NEW t \in Txs, Commit(t)
        PROVE  /\ graph[t] \in board'
               /\ newRank[t] = Cardinality({x \in board' : x <= graph[t]})
    <3>1. pc[t] = "commit" /\ Active(t) /\ Serial(t) /\ Placed(t) /\ board' = View(t)
      BY <1>3, <2>1 DEF Commit, Active, SerialInv, PlacedInv
    <3>2. View(t) \ todo[t] = View(t)
      BY <3>1 DEF Serial
    <3>3. IsBest(board', board \cup {graph[t]})
      BY <3>1, <3>2 DEF Serial
    <3>4. IsFiniteSet(board) /\ board \subseteq Nat /\ graph[t] \in Nat
      BY <1>3, <3>1, GraphsAssumption DEF SerialInv, Serial, TInv, TypeOK
    <3>5. /\ Cardinality(Better(graph[t])) < Capacity
          /\ newRank[t] = Cardinality(Better(graph[t])) + 1
      BY <3>1 DEF Placed
    <3>6. QED
      BY <3>3, <3>4, <3>5, BestHasPlaced
  <2>2. QED
    BY <2>1
<1>4. QED
  BY <1>1, <1>2, <1>3, PTL DEF Spec, AnswerTrue
=============================================================================
