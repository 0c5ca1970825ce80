----------------------------- MODULE EngineProofs -----------------------------
(***************************************************************************)
(* Proofs about Engine, for any graphs, capacity, limits and faults: what  *)
(* the threshold gate skips, what happens to a discovery, and what leaves  *)
(* the worker.                                                             *)
(***************************************************************************)
EXTENDS Engine, FiniteSetTheorems, SequenceTheorems, TLAPS

-----------------------------------------------------------------------------
(***************************************************************************)
(* The entries of a queue.                                                 *)
(***************************************************************************)
LEMMA InContents ==
  ASSUME NEW s, NEW x
  PROVE  x \in Contents(s) <=> \E i \in DOMAIN s : x = s[i]
BY DEF Contents

LEMMA ConcatContents ==
  ASSUME NEW S, NEW s \in Seq(S), NEW t \in Seq(S)
  PROVE  /\ s \o t \in Seq(S)
         /\ Contents(s \o t) = Contents(s) \cup Contents(t)
         /\ IsInjective(s) /\ IsInjective(t) /\ Contents(s) \cap Contents(t) = {}
              => IsInjective(s \o t)
<1> DEFINE r == s \o t
           m == Len(s)
           n == Len(t)
<1>1. /\ m \in Nat /\ n \in Nat /\ r \in Seq(S)
      /\ DOMAIN r = 1..(m + n) /\ DOMAIN s = 1..m /\ DOMAIN t = 1..n
      /\ \A i \in 1..m : r[i] = s[i]
      /\ \A i \in 1..n : r[m + i] = t[i]
  OBVIOUS
<1> HIDE DEF r, m, n
<1>2. ASSUME NEW i \in 1..(m + n)
      PROVE  i \in 1..m \/ (i - m \in 1..n /\ m + (i - m) = i)
  BY <1>1
<1>3. \A i \in 1..m : i \in 1..(m + n)
  BY <1>1
<1>4. \A i \in 1..n : m + i \in 1..(m + n)
  BY <1>1
<1>5. Contents(r) = Contents(s) \cup Contents(t)
  <2>1. ASSUME NEW x \in Contents(r)
        PROVE  x \in Contents(s) \cup Contents(t)
    <3>1. PICK i \in 1..(m + n) : x = r[i]
      BY <1>1, <2>1 DEF Contents
    <3>2. (x = s[i] /\ i \in 1..m) \/ (x = t[i - m] /\ i - m \in 1..n)
        BY <1>1, <1>2, <3>1
    <3>3. QED
      BY <1>1, <3>2 DEF Contents
  <2>2. Contents(s) \cup Contents(t) \subseteq Contents(r)
    BY <1>1, <1>3, <1>4 DEF Contents
  <2>3. QED
    BY <2>1, <2>2
<1>6. ASSUME IsInjective(s), IsInjective(t), Contents(s) \cap Contents(t) = {},
             NEW i \in 1..(m + n), NEW j \in 1..(m + n), r[i] = r[j]
      PROVE  i = j
  <2>1. CASE i \in 1..m /\ j \in 1..m
    BY <1>1, <1>6, <2>1 DEF IsInjective
  <2>2. CASE i \notin 1..m /\ j \notin 1..m
    <3>1. i - m \in 1..n /\ j - m \in 1..n /\ t[i - m] = t[j - m]
      BY <1>1, <1>2, <1>6, <2>2
    <3>2. i - m = j - m
      BY <1>1, <1>6, <3>1 DEF IsInjective
    <3>3. QED
      BY <1>1, <3>2
  <2>3. CASE i \in 1..m /\ j \notin 1..m
    <3>1. j - m \in 1..n /\ s[i] = t[j - m]
      BY <1>1, <1>2, <1>6, <2>3
    <3>2. QED
      BY <1>1, <1>6, <2>3, <3>1 DEF Contents
  <2>4. CASE i \notin 1..m /\ j \in 1..m
    <3>1. i - m \in 1..n /\ s[j] = t[i - m]
      BY <1>1, <1>2, <1>6, <2>4
    <3>2. QED
      BY <1>1, <1>6, <2>4, <3>1 DEF Contents
  <2>5. QED
    BY <2>1, <2>2, <2>3, <2>4
<1>7. QED
  BY <1>1, <1>5, <1>6 DEF IsInjective, r

LEMMA RestBehind ==
  ASSUME NEW S, NEW s \in Seq(S), NEW k \in 0..Len(s)
  PROVE  LET b == SubSeq(s, k + 1, Len(s))
         IN  /\ b \in Seq(S) /\ DOMAIN b = 1..(Len(s) - k)
             /\ \A i \in 1..(Len(s) - k) : b[i] = s[k + i]
<1> SUFFICES ASSUME NEW m \in Int, m = k + 1, NEW n \in Int, n = Len(s), NEW b, b = SubSeq(s, m, n)
             PROVE  /\ b \in Seq(S) /\ DOMAIN b = 1..(n - k)
                    /\ \A i \in 1..(n - k) : b[i] = s[k + i]
  <2>1. k + 1 \in Int /\ Len(s) \in Int
    OBVIOUS
  <2>2. QED
    BY <2>1
<1>1. /\ k \in Nat /\ n \in Nat /\ k <= n /\ DOMAIN s = 1..n
      /\ \A i \in 1..n : s[i] \in S
  OBVIOUS
<1>2. /\ \A i \in m..n : i \in 1..n
      /\ n - m + 1 = n - k /\ (IF m <= n THEN n - m + 1 ELSE 0) = n - k
      /\ \A i \in 1..(n - k) : m + i - 1 = k + i
  BY <1>1
<1>3. \A i \in m..n : s[i] \in S
  BY <1>1, <1>2
<1>4. /\ b \in Seq(S) /\ Len(b) = IF m <= n THEN n - m + 1 ELSE 0
      /\ \A i \in 1..(n - m + 1) : b[i] = s[m + i - 1]
  BY <1>3, SubSeqProperties
<1>5. Len(b) = n - k /\ DOMAIN b = 1..Len(b)
  BY <1>2, <1>4
<1>6. QED
  BY <1>2, <1>4, <1>5

LEMMA CutContents ==
  ASSUME NEW S, NEW s \in Seq(S), NEW k \in 0..Len(s)
  PROVE  LET a == SubSeq(s, 1, k)
             b == SubSeq(s, k + 1, Len(s))
         IN  /\ a \in Seq(S) /\ b \in Seq(S)
             /\ Contents(s) = Contents(a) \cup Contents(b)
             /\ IsInjective(s) => /\ IsInjective(a) /\ IsInjective(b)
                                  /\ Contents(a) \cap Contents(b) = {}
<1> DEFINE a == SubSeq(s, 1, k)
           b == SubSeq(s, k + 1, Len(s))
           n == Len(s)
<1>1. /\ n \in Nat /\ k \in Nat /\ k <= n /\ DOMAIN s = 1..n
      /\ a \in Seq(S) /\ b \in Seq(S)
      /\ DOMAIN a = 1..k /\ DOMAIN b = 1..(n - k)
      /\ \A i \in 1..k : a[i] = s[i]
      /\ \A i \in 1..(n - k) : b[i] = s[k + i]
  <2>1. n \in Nat /\ k \in Nat /\ k <= n /\ DOMAIN s = 1..n
    OBVIOUS
  <2>2. a \in Seq(S) /\ DOMAIN a = 1..k /\ \A i \in 1..k : a[i] = s[i]
    BY <2>1
  <2>3. b \in Seq(S) /\ DOMAIN b = 1..(n - k) /\ \A i \in 1..(n - k) : b[i] = s[k + i]
    BY RestBehind
  <2>4. QED
    BY <2>1, <2>2, <2>3
<1> HIDE DEF a, b, n
<1>2. \A i \in 1..k : i \in 1..n
  BY <1>1
<1>3. \A i \in 1..(n - k) : k + i \in 1..n /\ k + i \notin 1..k
  BY <1>1
<1>4. \A i \in 1..n : i \in 1..k \/ (i - k \in 1..(n - k) /\ k + (i - k) = i)
  BY <1>1
<1>5. Contents(s) = Contents(a) \cup Contents(b)
  <2>1. ASSUME NEW i \in 1..n
        PROVE  s[i] \in Contents(a) \cup Contents(b)
    <3>1. CASE i \in 1..k
      BY <1>1, <3>1 DEF Contents
    <3>2. CASE i - k \in 1..(n - k) /\ k + (i - k) = i
      <4>1. b[i - k] = s[i]
        BY <1>1, <3>2
      <4>2. QED
        BY <1>1, <3>2, <4>1 DEF Contents
    <3>3. QED
      BY <1>4, <3>1, <3>2
  <2>2. Contents(a) \cup Contents(b) \subseteq Contents(s)
    BY <1>1, <1>2, <1>3 DEF Contents
  <2>3. QED
    BY <1>1, <2>1, <2>2 DEF Contents
<1>6. ASSUME IsInjective(s)
      PROVE  IsInjective(a) /\ IsInjective(b) /\ Contents(a) \cap Contents(b) = {}
  <2>1. \A i, j \in 1..n : s[i] = s[j] => i = j
    BY <1>1, <1>6 DEF IsInjective
  <2>2. IsInjective(a)
    BY <1>1, <1>2, <2>1 DEF IsInjective
  <2>3. IsInjective(b)
    <3>1. ASSUME NEW i \in 1..(n - k), NEW j \in 1..(n - k), b[i] = b[j]
          PROVE  i = j
      <4>1. k + i = k + j
        BY <1>1, <1>3, <2>1, <3>1
      <4>2. QED
        BY <1>1, <4>1
    <3>2. QED
      BY <1>1, <3>1 DEF IsInjective
  <2>4. \A i \in 1..k, j \in 1..(n - k) : a[i] # b[j]
    BY <1>1, <1>2, <1>3, <2>1
  <2>5. Contents(a) \cap Contents(b) = {}
    BY <1>1, <2>4 DEF Contents
  <2>6. QED
    BY <2>2, <2>3, <2>5
<1>7. QED
  BY <1>1, <1>5, <1>6 DEF a, b, n

LEMMA HeadContents ==
  ASSUME NEW S, NEW s \in Seq(S), s # <<>>
  PROVE  /\ Head(s) \in S /\ Tail(s) \in Seq(S)
         /\ Contents(s) = {Head(s)} \cup Contents(Tail(s))
         /\ IsInjective(s) => IsInjective(Tail(s)) /\ Head(s) \notin Contents(Tail(s))
<1> DEFINE t == Tail(s)
           n == Len(s)
<1>1. /\ n \in Nat \ {0} /\ t \in Seq(S) /\ DOMAIN s = 1..n /\ DOMAIN t = 1..(n - 1)
      /\ \A i \in 1..(n - 1) : t[i] = s[i + 1]
      /\ Head(s) = s[1] /\ Head(s) \in S
  OBVIOUS
<1> HIDE DEF t, n
<1>2. \A i \in 1..(n - 1) : i + 1 \in 1..n /\ i + 1 # 1
  BY <1>1
<1>3. \A i \in 1..n : i = 1 \/ (i - 1 \in 1..(n - 1) /\ (i - 1) + 1 = i)
  BY <1>1
<1>4. 1 \in 1..n
  BY <1>1
<1>5. Contents(s) = {Head(s)} \cup Contents(t)
  <2>1. ASSUME NEW i \in 1..n
        PROVE  s[i] \in {Head(s)} \cup Contents(t)
    <3>1. CASE i = 1
      BY <1>1, <3>1
    <3>2. CASE i - 1 \in 1..(n - 1) /\ (i - 1) + 1 = i
      <4>1. t[i - 1] = s[i]
        BY <1>1, <3>2
      <4>2. QED
        BY <1>1, <3>2, <4>1 DEF Contents
    <3>3. QED
      BY <1>3, <3>1, <3>2
  <2>2. {Head(s)} \cup Contents(t) \subseteq Contents(s)
    <3>1. Head(s) \in Contents(s)
      BY <1>1, <1>4, InContents
    <3>2. ASSUME NEW x \in Contents(t)
          PROVE  x \in Contents(s)
      <4>1. PICK i \in 1..(n - 1) : x = t[i]
        BY <1>1, InContents
      <4>2. i + 1 \in DOMAIN s /\ x = s[i + 1]
        BY <1>1, <1>2, <4>1
      <4>3. QED
        BY <4>2, InContents
    <3>3. QED
      BY <3>1, <3>2
  <2>3. \A x \in Contents(s) : \E i \in 1..n : x = s[i]
    BY <1>1, InContents
  <2>4. Contents(s) \subseteq {Head(s)} \cup Contents(t)
    BY <2>1, <2>3, Zenon
  <2>5. QED
    BY <2>2, <2>4
<1>6. ASSUME IsInjective(s)
      PROVE  IsInjective(t) /\ Head(s) \notin Contents(t)
  <2>1. \A i, j \in 1..n : s[i] = s[j] => i = j
    BY <1>1, <1>6 DEF IsInjective
  <2>2. ASSUME NEW i \in 1..(n - 1), NEW j \in 1..(n - 1), t[i] = t[j]
        PROVE  i = j
    <3>1. i + 1 = j + 1
      BY <1>1, <1>2, <2>1, <2>2
    <3>2. QED
      BY <1>1, <3>1
  <2>3. \A i \in 1..(n - 1) : t[i] # Head(s)
    BY <1>1, <1>2, <1>4, <2>1
  <2>4. QED
    BY <1>1, <2>2, <2>3 DEF IsInjective, Contents
<1>7. QED
  BY <1>1, <1>5, <1>6 DEF t

\* Sorting changes the order and nothing else.
LEMMA SortedContents ==
  ASSUME NEW S, NEW s \in Seq(S), NEW r \in Sorted(s)
  PROVE  /\ r \in Seq(S) /\ Len(r) = Len(s)
         /\ Contents(r) = Contents(s)
         /\ IsInjective(s) => IsInjective(r)
<1> DEFINE D == DOMAIN s
<1>1. PICK p \in Bijection(D, D) : r = [i \in D |-> s[p[i]]]
  BY DEF Sorted
<1>2. /\ p \in [D -> D]
      /\ \A i, j \in D : p[i] = p[j] => i = j
      /\ \A j \in D : \E i \in D : p[i] = j
  BY <1>1 DEF Bijection, Injection, Surjection, IsInjective
<1>3. D = 1..Len(s) /\ Len(s) \in Nat /\ \A i \in D : s[i] \in S
  OBVIOUS
<1>4. r \in [1..Len(s) -> S]
  BY <1>1, <1>2, <1>3
<1>5. r \in Seq(S) /\ Len(r) = Len(s)
  BY <1>3, <1>4
<1>6. Contents(r) = Contents(s)
  BY <1>1, <1>2 DEF Contents
<1>7. IsInjective(s) => IsInjective(r)
  BY <1>1, <1>2 DEF IsInjective
<1>8. QED
  BY <1>5, <1>6, <1>7

\* The search's reports in a row, each once.
LEMMA SetToSeqContents ==
  ASSUME NEW S, IsFiniteSet(S)
  PROVE  SetToSeq(S) \in Seq(S) /\ Contents(SetToSeq(S)) = S /\ IsInjective(SetToSeq(S))
<1> DEFINE n == Cardinality(S)
           q == SetToSeq(S)
<1>1. n \in Nat /\ ExistsBijection(1..n, S)
  BY FS_CardinalityType
<1>2. \E f \in [1..n -> S] : IsInjective(f)
  BY <1>1 DEF ExistsBijection, Bijection, Injection
<1>3. q \in [1..n -> S] /\ IsInjective(q)
  BY <1>2 DEF SetToSeq
<1>4. IsFiniteSet(1..n) /\ Cardinality(1..n) = n
  BY <1>1, FS_Interval
<1> HIDE DEF n, q
<1>5. q \in Injection(1..n, S)
  BY <1>3 DEF Injection
<1>6. q \in Surjection(1..n, S)
  BY <1>4, <1>5, FS_Injection DEF n
<1>7. \A x \in S : \E i \in 1..n : q[i] = x
  BY <1>6 DEF Surjection
<1>8. Contents(q) = S
  BY <1>3, <1>7 DEF Contents
<1>9. q \in Seq(S)
  BY <1>1, <1>3
<1>10. QED
  BY <1>3, <1>8, <1>9 DEF q

-----------------------------------------------------------------------------
(***************************************************************************)
(* The board and the thresholds read from it.                              *)
(***************************************************************************)
BoardTypes ==
  /\ board \subseteq Graphs /\ IsFiniteSet(board) /\ clashed \in BOOLEAN
  /\ rank \in [Graphs -> Nat]
  /\ board \subseteq Admitted

\* Whoever saw a full board is right, until two submissions of one graph overlap.
Filled(saw) == saw => clashed \/ Cardinality(board) >= Capacity

\* A row once read: the board never gets worse than it.
Kept(row) == row \in Nat /\ (row # None => row \in board \/ Outdone(row, board))

GateInv ==
  /\ Filled(counted) /\ Filled(answer.full) /\ Filled(full)
  /\ Kept(answer.row) /\ Kept(threshold)

\* Capacity rows above x fill a board, and one of them is enough to outdo x.
LEMMA BeatenIs ==
  ASSUME NEW C, IsFiniteSet(C), NEW x, Beaten(x, C)
  PROVE  Cardinality(C) >= Capacity /\ Outdone(x, C)
<1> DEFINE D == {b \in C : b < x}
<1>1. D \subseteq C /\ Cardinality(D) >= Capacity
  BY DEF Beaten
<1> HIDE DEF D
<1>2. IsFiniteSet(D) /\ Cardinality(D) \in Nat /\ Cardinality(D) <= Cardinality(C)
      /\ Cardinality(C) \in Nat
  BY <1>1, FS_Subset, FS_CardinalityType
<1>3. Capacity # 0 => D # {}
  BY <1>1, FS_EmptySet, CapacityAssumption
<1>4. QED
  BY <1>1, <1>2, <1>3, CapacityAssumption DEF Outdone, D

\* What an admission does to the board.
LEMMA AdmitBoard ==
  ASSUME BoardTypes, NEW g \in Graphs, Admit(g)
  PROVE  /\ BoardTypes' /\ Admitted \subseteq Admitted' /\ Admitted' \subseteq Admitted \cup {g}
         /\ clashed => clashed'
         /\ clashed' \/ (Cardinality(board) >= Capacity => Cardinality(board') >= Capacity)
         /\ \A b \in board : b \in board' \/ Outdone(b, board')
<1>1. PICK C \in SUBSET (board \cup {g}) :
        /\ clashed' \in {clashed, TRUE} /\ Keeps(clashed', board, {g}, C) /\ board' = C
        /\ rank' = IF g \in C \ board THEN [rank EXCEPT ![g] = NewRank(g)] ELSE rank
  BY DEF Admit
<1>2. IsFiniteSet(C) /\ Cardinality(C) \in Nat /\ Cardinality(board) \in Nat
  BY FS_AddElement, FS_Subset, FS_CardinalityType DEF BoardTypes
<1>3. NewRank(g) \in Nat \ {0}
  <2> DEFINE better == {b \in board : b < g}
  <2>1. better \subseteq board
    OBVIOUS
  <2> HIDE DEF better
  <2>2. Cardinality(better) \in Nat
    BY <2>1, FS_Subset, FS_CardinalityType DEF BoardTypes
  <2>3. NewRank(g) = Cardinality(better) + 1 \/ NewRank(g) = 1
    BY DEF NewRank, better
  <2>4. QED
    BY <2>2, <2>3
<1>4. /\ rank' \in [Graphs -> Nat]
      /\ g \in C \ board => rank'[g] > 0
      /\ \A x \in Graphs : x # g => rank'[x] = rank[x]
      /\ rank[g] > 0 => rank'[g] > 0
  BY <1>1, <1>3 DEF BoardTypes
<1>5. Admitted \subseteq Admitted' /\ Admitted' \subseteq Admitted \cup {g}
  BY <1>4 DEF Admitted
<1>6. BoardTypes'
  <2>1. C \subseteq Graphs /\ clashed' \in BOOLEAN
    BY <1>1 DEF BoardTypes
  <2>2. C \subseteq Admitted'
    BY <1>1, <1>4, <1>5, <2>1 DEF BoardTypes, Admitted
  <2>3. QED
    BY <1>1, <1>2, <1>4, <2>1, <2>2 DEF BoardTypes
<1>7. \A b \in board : b \in C \/ Outdone(b, C)
  BY <1>1, <1>2, BeatenIs DEF Keeps
<1>8. ASSUME ~clashed', Cardinality(board) >= Capacity
      PROVE  Cardinality(C) >= Capacity
  <2>1. CASE board \subseteq C
    <3>1. Cardinality(board) <= Cardinality(C)
      BY <1>2, <2>1, FS_Subset
    <3>2. QED
      BY <1>2, <1>8, <3>1, CapacityAssumption
  <2>2. CASE ~(board \subseteq C)
    BY <1>1, <1>2, <1>8, <2>2, BeatenIs DEF Keeps
  <2>3. QED
    BY <2>1, <2>2
<1>9. clashed => clashed'
  BY <1>1 DEF BoardTypes
<1>10. board' = C
  BY <1>1
<1>11. QED
  BY <1>5, <1>6, <1>7, <1>8, <1>9, <1>10

\* What was true of a threshold stays true.
LEMMA AdmitGate ==
  ASSUME BoardTypes, NEW g \in Graphs, Admit(g)
  PROVE  /\ \A saw : Filled(saw) => Filled(saw)'
         /\ \A row : Kept(row) => Kept(row)'
<1>1. \A saw : Filled(saw) => Filled(saw)'
  BY AdmitBoard DEF Filled
<1>2. ASSUME NEW row, Kept(row)
      PROVE  Kept(row)'
  <2>1. CASE row = None \/ row \in board \/ Capacity = 0
    BY <1>2, <2>1, AdmitBoard DEF Kept, Outdone
  <2>2. CASE ~(row = None \/ row \in board \/ Capacity = 0)
    <3>1. PICK b \in board : b < row
      BY <1>2, <2>2 DEF Kept, Outdone
    <3>2. b \in Nat /\ row \in Nat /\ board' \subseteq Nat
      BY <1>2, AdmitBoard, GraphsAssumption DEF BoardTypes, Kept
    <3>3. \E c \in board' : c < row
      <4>1. CASE b \in board'
        BY <3>1, <4>1
      <4>2. CASE b \notin board'
        <5>1. PICK c \in board' : c < b
          BY <2>2, <4>2, AdmitBoard DEF Outdone
        <5>2. QED
          BY <3>1, <3>2, <5>1
      <4>3. QED
        BY <4>1, <4>2
    <3>4. QED
      BY <3>2, <3>3 DEF Kept, Outdone
  <2>3. QED
    BY <2>1, <2>2
<1>3. QED
  BY <1>1, <1>2

-----------------------------------------------------------------------------
(***************************************************************************)
(* The worker's queues.                                                    *)
(***************************************************************************)
Waiting == Contents(batch) \cup Contents(buffer)

QueueTypes ==
  /\ buffer \in Seq(Graphs) /\ batch \in Seq(Graphs)
  /\ pc # "submit" => batch = <<>>

\* While the trims have forgotten nothing: all that is queued or sent is known, and
\* nothing is queued twice, or after it was sent.
OnceInv ==
  trimmed \/ /\ sent \cup Waiting \subseteq known
             /\ sent \cap Waiting = {}
             /\ Contents(batch) \cap Contents(buffer) = {}
             /\ IsInjective(batch) /\ IsInjective(buffer)

EngineInv == BoardTypes /\ GateInv /\ QueueTypes /\ Accounted /\ OnceInv

LEMMA EmptyContents == Contents(<<>>) = {} /\ IsInjective(<<>>)
BY DEF Contents, IsInjective

LEMMA InitEngine == Init => EngineInv
<1> SUFFICES ASSUME Init
             PROVE  EngineInv
  OBVIOUS
<1>1. BoardTypes
  BY FS_EmptySet, CapacityAssumption DEF Init, BoardTypes
<1>2. GateInv
  BY DEF Init, GateInv, Filled, Kept, None
<1>3. QueueTypes
  <2>1. <<>> \in Seq(Graphs)
    OBVIOUS
  <2>2. QED
    BY <2>1 DEF Init, QueueTypes
<1>4. Accounted
  BY DEF Init, Accounted
<1>5. OnceInv
  BY EmptyContents DEF Init, OnceInv, Waiting
<1>6. QED
  BY <1>1, <1>2, <1>3, <1>4, <1>5 DEF EngineInv

\* The search's new graphs join what waits.
LEMMA SearchQueues ==
  ASSUME EngineInv, Search
  PROVE  QueueTypes' /\ Accounted' /\ OnceInv'
<1> DEFINE newOf(scored) == {g \in Fresh(scored) : ~Gated(g)}
           takeOf(all) == IF Len(all) < BatchSize THEN Len(all) ELSE BatchSize
<1>0. PICK scored \in SUBSET Graphs :
        /\ IsFiniteSet(scored)
        /\ known' = known \cup newOf(scored)
        /\ \E all \in Sorted(buffer \o SetToSeq(newOf(scored))) :
             /\ batch' = SubSeq(all, 1, takeOf(all))
             /\ buffer' = SubSeq(all, takeOf(all) + 1, Len(all))
  BY DEF Search
<1> DEFINE new == newOf(scored)
           found == SetToSeq(new)
<1>1. PICK all \in Sorted(buffer \o found) :
        /\ batch' = SubSeq(all, 1, takeOf(all))
        /\ buffer' = SubSeq(all, takeOf(all) + 1, Len(all))
  BY <1>0
<1> DEFINE take == takeOf(all)
<1>2. /\ pc = "search" /\ pc' = "submit"
      /\ UNCHANGED <<board, rank, sent, lost, trimmed>>
  BY DEF Search, Goto, store, past
<1>3. batch = <<>> /\ Contents(batch) = {}
  BY <1>2, EmptyContents DEF EngineInv, QueueTypes
<1>4. IsFiniteSet(new) /\ new \subseteq Graphs /\ new \cap known = {}
  <2>1. new \subseteq scored
    BY DEF Fresh
  <2>2. IsFiniteSet(new)
    <3> HIDE DEF new
    <3>1. QED
      BY <1>0, <2>1, FS_Subset
  <2>3. QED
    BY <2>1, <2>2 DEF Fresh
<1> HIDE DEF new
<1>5. found \in Seq(Graphs) /\ Contents(found) = new /\ IsInjective(found)
  <2>1. found \in Seq(new) /\ Contents(found) = new /\ IsInjective(found)
    BY <1>4, SetToSeqContents
  <2>2. Seq(new) \subseteq Seq(Graphs)
    BY <1>4, SeqMonotonic
  <2>3. QED
    BY <2>1, <2>2
<1> HIDE DEF found
<1>6. /\ buffer \o found \in Seq(Graphs)
      /\ Contents(buffer \o found) = Contents(buffer) \cup new
      /\ IsInjective(buffer) /\ Contents(buffer) \cap new = {} => IsInjective(buffer \o found)
  BY <1>5, ConcatContents DEF EngineInv, QueueTypes
<1>7. all \in Sorted(buffer \o found)
  BY <1>1
<1>8. /\ all \in Seq(Graphs) /\ Contents(all) = Contents(buffer) \cup new
      /\ IsInjective(buffer) /\ Contents(buffer) \cap new = {} => IsInjective(all)
  BY <1>6, <1>7, SortedContents
<1>9. take \in 0..Len(all)
  <2>1. Len(all) \in Nat /\ BatchSize \in Nat
    BY <1>8, SubmissionsAssumption DEF BatchSize
  <2>2. QED
    BY <2>1
<1>10. /\ known' = known \cup new
       /\ batch' = SubSeq(all, 1, take) /\ buffer' = SubSeq(all, take + 1, Len(all))
  BY <1>0, <1>1 DEF new
<1> HIDE DEF take
<1>11. /\ batch' \in Seq(Graphs) /\ buffer' \in Seq(Graphs)
       /\ Contents(batch)' \cup Contents(buffer)' = Contents(buffer) \cup new
       /\ IsInjective(all) => /\ IsInjective(batch') /\ IsInjective(buffer')
                              /\ Contents(batch)' \cap Contents(buffer)' = {}
  <2>1. /\ SubSeq(all, 1, take) \in Seq(Graphs) /\ SubSeq(all, take + 1, Len(all)) \in Seq(Graphs)
        /\ Contents(all) = Contents(SubSeq(all, 1, take))
                            \cup Contents(SubSeq(all, take + 1, Len(all)))
        /\ IsInjective(all) =>
             /\ IsInjective(SubSeq(all, 1, take)) /\ IsInjective(SubSeq(all, take + 1, Len(all)))
             /\ Contents(SubSeq(all, 1, take))
                  \cap Contents(SubSeq(all, take + 1, Len(all))) = {}
    BY <1>8, <1>9, CutContents
  <2>2. \A s : Contents(s)' = Contents(s)
    BY DEF Contents
  <2>3. Contents(batch)' = Contents(SubSeq(all, 1, take))
        /\ Contents(buffer)' = Contents(SubSeq(all, take + 1, Len(all)))
    BY <1>10 DEF Contents
  <2>4. QED
    BY <1>8, <1>10, <2>1, <2>3
<1>12. QueueTypes'
  BY <1>2, <1>11 DEF QueueTypes
<1>13. Accounted'
  <2>1. Admitted' = Admitted
    BY <1>2 DEF Admitted
  <2>2. QED
    BY <1>2, <1>3, <1>10, <1>11, <2>1 DEF EngineInv, Accounted
<1>14. OnceInv'
  <2>1. CASE trimmed
    BY <1>2, <2>1 DEF OnceInv
  <2>2. CASE ~trimmed
    <3>1. /\ sent \subseteq known /\ Contents(buffer) \subseteq known
          /\ sent \cap Contents(buffer) = {} /\ IsInjective(buffer)
      BY <2>2 DEF EngineInv, OnceInv, Waiting
    <3>2. Contents(buffer) \cap new = {} /\ sent \cap new = {}
      BY <1>4, <3>1
    <3>3. /\ IsInjective(batch') /\ IsInjective(buffer')
          /\ Contents(batch)' \cap Contents(buffer)' = {}
      BY <1>8, <1>11, <3>1, <3>2
    <3>4. IsInjective(batch)' /\ IsInjective(buffer)'
      BY <3>3 DEF IsInjective
    <3>5. Waiting' = Contents(buffer) \cup new
      BY <1>11 DEF Waiting
    <3>6. QED
      BY <1>2, <1>10, <3>1, <3>2, <3>3, <3>4, <3>5 DEF OnceInv
  <2>3. QED
    BY <2>1, <2>2
<1>15. QED
  BY <1>12, <1>13, <1>14

\* The head of the batch is sent, and the rest of the batch is what s is.
LEMMA SubmitQueues ==
  ASSUME EngineInv, pc = "submit", batch # <<>>, pc' = "submit",
         sent' = sent \cup {Head(batch)}, UNCHANGED <<known, buffer, trimmed>>,
         Admitted \subseteq Admitted',
         \/ batch' = Tail(batch) /\ lost' = lost
         \/ batch' = <<>> /\ lost' = lost \cup Contents(batch)
  PROVE  QueueTypes' /\ Accounted' /\ OnceInv'
<1>1. /\ Tail(batch) \in Seq(Graphs) /\ <<>> \in Seq(Graphs)
      /\ Contents(batch) = {Head(batch)} \cup Contents(Tail(batch))
      /\ IsInjective(batch) => /\ IsInjective(Tail(batch))
                               /\ Head(batch) \notin Contents(Tail(batch))
  BY HeadContents DEF EngineInv, QueueTypes
<1>2. /\ Contents(buffer)' = Contents(buffer) /\ (IsInjective(buffer) => IsInjective(buffer)')
      /\ Contents(batch)' \subseteq Contents(Tail(batch))
      /\ IsInjective(Tail(batch)) => IsInjective(batch)'
      /\ Contents(batch) \subseteq {Head(batch)} \cup Contents(batch)' \cup lost'
      /\ lost \subseteq lost'
  <2>1. CASE batch' = Tail(batch) /\ lost' = lost
    <3>1. Contents(batch)' = Contents(Tail(batch))
          /\ IsInjective(Tail(batch)) => IsInjective(batch)'
      BY <2>1 DEF Contents, IsInjective
    <3>2. QED
      BY <1>1, <2>1, <3>1 DEF Contents, IsInjective
  <2>2. CASE batch' = <<>> /\ lost' = lost \cup Contents(batch)
    <3>1. Contents(batch)' = {} /\ IsInjective(batch)'
      BY <2>2 DEF Contents, IsInjective
    <3>2. QED
      BY <2>2, <3>1 DEF Contents, IsInjective
  <2>3. QED
    BY <2>1, <2>2
<1>3. QueueTypes'
  BY <1>1 DEF EngineInv, QueueTypes
<1>4. Accounted'
  BY <1>2 DEF EngineInv, Accounted
<1>5. OnceInv'
  BY <1>1, <1>2 DEF EngineInv, OnceInv, Waiting
<1>6. QED
  BY <1>3, <1>4, <1>5

\* What the cut drops is forgotten, what it keeps waits on.
LEMMA EndRoundQueues ==
  ASSUME EngineInv, EndRound
  PROVE  QueueTypes' /\ Accounted' /\ OnceInv'
<1> DEFINE keep == CutBuffer.keep
           drop == CutBuffer.drop
<1>1. /\ batch = <<>> /\ batch' = batch /\ pc' = "threshold" /\ buffer' = keep
      /\ known' \in Trims(known \ drop, 2 * MaxKnown, MaxKnown)
      /\ trimmed' = (trimmed \/ known' # known \ drop)
      /\ UNCHANGED <<rank, sent, lost>>
  BY DEF EndRound, store
<1>2. known' \subseteq known \ drop
  BY <1>1 DEF Trims
<1>3. /\ keep \in Seq(Graphs) /\ Contents(buffer) = Contents(keep) \cup drop
      /\ IsInjective(buffer) => IsInjective(keep) /\ Contents(keep) \cap drop = {}
  <2>1. buffer \in Seq(Graphs) /\ Len(buffer) \in Nat
    BY DEF EngineInv, QueueTypes
  <2>2. CASE Len(buffer) > BufferHigh
    <3> DEFINE cut == Len(buffer) - BufferKeep
    <3>1. cut \in 0..Len(buffer)
      BY <2>1, <2>2, LimitsAssumption
    <3>2. keep = SubSeq(buffer, cut + 1, Len(buffer)) /\ drop = Contents(SubSeq(buffer, 1, cut))
      BY <2>2 DEF CutBuffer
    <3> HIDE DEF cut, keep, drop
    <3>3. QED
      BY <2>1, <3>1, <3>2, CutContents
  <2>3. CASE ~(Len(buffer) > BufferHigh)
    <3>1. keep = buffer /\ drop = {}
      BY <2>3 DEF CutBuffer
    <3>2. QED
      BY <2>1, <3>1
  <2>4. QED
    BY <2>2, <2>3
<1> HIDE DEF keep, drop
<1>4. Contents(batch) = {} /\ Contents(batch)' = {} /\ IsInjective(batch)'
  BY <1>1 DEF Contents, IsInjective
<1>5. Contents(buffer)' = Contents(keep) /\ (IsInjective(keep) => IsInjective(buffer)')
  BY <1>1 DEF Contents, IsInjective
<1>6. QueueTypes'
  BY <1>1, <1>3 DEF EngineInv, QueueTypes
<1>7. Accounted'
  <2>1. Admitted' = Admitted
    BY <1>1 DEF Admitted
  <2>2. QED
    BY <1>1, <1>2, <1>3, <1>4, <1>5, <2>1 DEF EngineInv, Accounted
<1>8. OnceInv'
  <2>1. CASE trimmed'
    BY <2>1 DEF OnceInv
  <2>2. CASE ~trimmed'
    <3>1. ~trimmed /\ known' = known \ drop
      BY <1>1, <2>2
    <3>2. /\ sent \cup Contents(buffer) \subseteq known /\ sent \cap Contents(buffer) = {}
          /\ IsInjective(buffer)
      BY <1>4, <3>1 DEF EngineInv, OnceInv, Waiting
    <3>3. Waiting' = Contents(keep) /\ sent' = sent
      BY <1>1, <1>4, <1>5 DEF Waiting
    <3>4. sent' \cup Waiting' \subseteq known' /\ sent' \cap Waiting' = {}
      BY <1>3, <3>1, <3>2, <3>3
    <3>5. QED
      BY <1>3, <1>4, <1>5, <3>2, <3>4 DEF OnceInv
  <2>3. QED
    BY <2>1, <2>2
<1>9. QED
  BY <1>6, <1>7, <1>8

\* A step that leaves the queues alone; what is new and known is on the board.
LEMMA QuietQueues ==
  ASSUME EngineInv, UNCHANGED <<buffer, batch, sent, lost, trimmed>>,
         pc' # "submit" => pc # "submit" \/ batch = <<>>,
         Admitted \subseteq Admitted', known \subseteq known', known' \subseteq known \cup board
  PROVE  QueueTypes' /\ Accounted' /\ OnceInv'
<1>1. /\ Contents(batch)' = Contents(batch) /\ Contents(buffer)' = Contents(buffer)
      /\ IsInjective(batch)' = IsInjective(batch) /\ IsInjective(buffer)' = IsInjective(buffer)
  BY DEF Contents, IsInjective
<1>2. QueueTypes'
  BY DEF EngineInv, QueueTypes
<1>3. Accounted'
  BY <1>1 DEF EngineInv, Accounted, BoardTypes
<1>4. OnceInv'
  BY <1>1 DEF EngineInv, OnceInv, Waiting
<1>5. QED
  BY <1>2, <1>3, <1>4

LEMMA EngineStep == EngineInv /\ [Next]_vars => EngineInv'
<1> SUFFICES ASSUME EngineInv, [Next]_vars
             PROVE  EngineInv'
  OBVIOUS
<1>0. BoardTypes /\ GateInv /\ QueueTypes
  BY DEF EngineInv
<1>1. ASSUME UNCHANGED <<board, rank, clashed>>
      PROVE  /\ BoardTypes' /\ Admitted' = Admitted
             /\ \A saw : Filled(saw) => Filled(saw)'
             /\ \A row : Kept(row) => Kept(row)'
  BY <1>0, <1>1 DEF BoardTypes, Admitted, Filled, Kept, Outdone
<1>2. ASSUME NEW g \in Graphs, Admit(g)
      PROVE  /\ BoardTypes' /\ Admitted \subseteq Admitted'
             /\ \A saw : Filled(saw) => Filled(saw)'
             /\ \A row : Kept(row) => Kept(row)'
  BY <1>0, <1>2, AdmitBoard, AdmitGate
\* What was read of the board is as true as it was.
<1>3. ASSUME \A saw : Filled(saw) => Filled(saw)', \A row : Kept(row) => Kept(row)',
             UNCHANGED <<counted, answer, full, threshold>>
      PROVE  GateInv'
  <2>1. (Filled(counted) /\ Filled(answer.full) /\ Filled(full))'
    BY <1>0, <1>3 DEF GateInv, Filled
  <2>2. (Kept(answer.row) /\ Kept(threshold))'
    BY <1>0, <1>3 DEF GateInv, Kept
  <2>3. QED
    BY <2>1, <2>2 DEF GateInv
<1>4. ASSUME NEW g \in Graphs, Rival(g)
      PROVE  EngineInv'
  <2>1. /\ Admit(g) /\ UNCHANGED <<counted, answer, pc, full, threshold, known>>
        /\ UNCHANGED <<buffer, batch, sent, lost, trimmed>>
    BY <1>4 DEF Rival, sync, past
  <2>2. BoardTypes' /\ GateInv'
    BY <1>2, <1>3, <2>1
  <2>3. QueueTypes' /\ Accounted' /\ OnceInv'
    BY <1>2, <2>1, QuietQueues
  <2>4. QED
    BY <2>2, <2>3 DEF EngineInv
<1>5. ASSUME UNCHANGED <<board, rank, clashed, pc, known>>, UNCHANGED <<buffer, batch, sent, lost, trimmed>>,
             GateInv'
      PROVE  EngineInv'
  <2>1. QueueTypes' /\ Accounted' /\ OnceInv'
    BY <1>1, <1>5, QuietQueues
  <2>2. QED
    BY <1>1, <1>5, <2>1 DEF EngineInv
<1>6. CASE QueryCount
  <2>1. /\ UNCHANGED <<board, rank, clashed, answer, pc, full, threshold, known>>
        /\ UNCHANGED <<buffer, batch, sent, lost, trimmed>>
        /\ counted' = (Cardinality(board) >= Capacity)
    BY <1>6 DEF QueryCount, sync, past
  <2>2. GateInv'
    BY <1>0, <2>1 DEF GateInv, Filled, Kept
  <2>3. QED
    BY <1>5, <2>1, <2>2
<1>7. CASE QueryThreshold
  <2>1. PICK row \in IF board = {} THEN {None} ELSE WorstRanked :
          answer' = [full |-> counted, row |-> row]
    BY <1>7 DEF QueryThreshold
  <2>2. /\ UNCHANGED <<board, rank, clashed, counted, pc, full, threshold, known>>
        /\ UNCHANGED <<buffer, batch, sent, lost, trimmed>>
    BY <1>7 DEF QueryThreshold, sync, past
  <2>3. Kept(row)
    <3>1. CASE row = None
      BY <3>1 DEF Kept, None
    <3>2. CASE row \in board
      <4>1. row \in Nat /\ row <= row
        BY <1>0, <3>2, GraphsAssumption DEF BoardTypes
      <4>2. QED
        BY <3>2, <4>1 DEF Kept
    <3>3. QED
      BY <2>1, <3>1, <3>2 DEF WorstRanked
  <2>4. answer'.full = counted /\ answer'.row = row
    BY <2>1
  <2>5. GateInv'
    BY <1>0, <2>2, <2>3, <2>4 DEF GateInv, Filled, Kept
  <2>6. QED
    BY <1>5, <2>2, <2>5
<1>8. CASE FetchThreshold
  <2>1. /\ UNCHANGED <<board, rank, clashed, counted, answer, known>> /\ pc' # "submit" /\ pc # "submit"
        /\ UNCHANGED <<buffer, batch, sent, lost, trimmed>>
        /\ full' = answer.full /\ threshold' = answer.row
    BY <1>8 DEF FetchThreshold, Goto, store, past
  <2>2. GateInv'
    BY <1>0, <2>1 DEF GateInv, Filled, Kept
  <2>3. QueueTypes' /\ Accounted' /\ OnceInv'
    BY <1>1, <2>1, QuietQueues
  <2>4. QED
    BY <1>1, <2>1, <2>2, <2>3 DEF EngineInv
<1>9. CASE FetchThresholdFails \/ FetchCids \/ AdvanceCursor \/ FetchCidsFails \/ SearchPanics
  <2>1. /\ UNCHANGED <<board, rank, clashed, counted, answer, full, threshold>> /\ pc # "submit"
        /\ UNCHANGED <<buffer, batch, sent, lost, trimmed>>
        /\ known \subseteq known' /\ known' \subseteq known \cup board
    BY <1>9 DEF FetchThresholdFails, FetchCids, AdvanceCursor, FetchCidsFails, SearchPanics,
                Goto, store, sync, past
  <2>2. GateInv'
    BY <1>1, <1>3, <2>1
  <2>3. QueueTypes' /\ Accounted' /\ OnceInv'
    BY <1>1, <2>1, QuietQueues
  <2>4. QED
    BY <1>1, <2>1, <2>2, <2>3 DEF EngineInv
<1>10. CASE Search
  <2>1. UNCHANGED <<board, rank, clashed, counted, answer, full, threshold>>
    BY <1>10 DEF Search, store
  <2>2. GateInv'
    BY <1>1, <1>3, <2>1
  <2>3. QED
    BY <1>1, <1>10, <2>1, <2>2, SearchQueues DEF EngineInv
<1>11. CASE Submit \/ SubmitFails
  <2>1. /\ pc = "submit" /\ batch # <<>> /\ pc' = "submit"
        /\ sent' = sent \cup {Head(batch)} /\ UNCHANGED <<known, buffer, trimmed>>
        /\ UNCHANGED <<counted, answer, full, threshold>>
        /\ Admit(Head(batch)) \/ UNCHANGED <<board, rank, clashed>>
        /\ \/ batch' = Tail(batch) /\ lost' = lost
           \/ batch' = <<>> /\ lost' = lost \cup Contents(batch)
    BY <1>11 DEF Submit, SubmitFails, sync
  <2>2. Head(batch) \in Graphs
    BY <1>0, <2>1, HeadContents DEF QueueTypes
  <2>3. /\ BoardTypes' /\ Admitted \subseteq Admitted'
        /\ \A saw : Filled(saw) => Filled(saw)'
        /\ \A row : Kept(row) => Kept(row)'
    <3>1. CASE Admit(Head(batch))
      BY <1>2, <2>2, <3>1
    <3>2. CASE UNCHANGED <<board, rank, clashed>>
      BY <1>1, <3>2
    <3>3. QED
      BY <2>1, <3>1, <3>2
  <2>4. GateInv'
    BY <1>3, <2>1, <2>3
  <2>5. QueueTypes' /\ Accounted' /\ OnceInv'
    BY <2>1, <2>3, SubmitQueues
  <2>6. QED
    BY <2>3, <2>4, <2>5 DEF EngineInv
<1>12. CASE EndRound
  <2>1. UNCHANGED <<board, rank, clashed, counted, answer, full, threshold>>
    BY <1>12 DEF EndRound, store
  <2>2. GateInv'
    BY <1>1, <1>3, <2>1
  <2>3. QED
    BY <1>1, <1>12, <2>1, <2>2, EndRoundQueues DEF EngineInv
<1>13. CASE UNCHANGED vars
  <2>1. /\ UNCHANGED <<board, rank, clashed, counted, answer, pc, full, threshold, known>>
        /\ UNCHANGED <<buffer, batch, sent, lost, trimmed>>
    BY <1>13 DEF vars, store, sync, past
  <2>2. GateInv'
    BY <1>1, <1>3, <2>1
  <2>3. QED
    BY <1>5, <2>1, <2>2
<1>14. QED
  BY <1>4, <1>6, <1>7, <1>8, <1>9, <1>10, <1>11, <1>12, <1>13, TheirsAssumption DEF Next, Round

LEMMA EngineInvariant == Spec => []EngineInv
BY InitEngine, EngineStep, PTL DEF Spec

-----------------------------------------------------------------------------
(***************************************************************************)
(* The threshold gate never skips a new record, however old the cached     *)
(* threshold is and whatever row the stored ranks made it: the board only  *)
(* gets better than a row once read.  Nor, until two submissions of one    *)
(* graph overlap in try_admit, a graph the board has room for: until then  *)
(* a full board stays full.                                                *)
(***************************************************************************)
THEOREM GateKeepsRecordAlways == Spec => []GateKeepsRecord
<1>1. ASSUME EngineInv
      PROVE  GateKeepsRecord
  <2>1. ASSUME NEW g \in Skipped
        PROVE  /\ g \in board \/ Outdone(g, board)
               /\ clashed \/ Cardinality(board) >= Capacity
    <3>1. /\ g \in Fresh(Graphs) /\ Gated(g)
      BY <2>1 DEF Skipped
    <3>2. /\ g \in Nat /\ full /\ threshold # None /\ g >= threshold
      BY <3>1, GraphsAssumption DEF Fresh, Gated
    <3>3. Filled(full) /\ Kept(threshold) /\ board \subseteq Nat
      BY <1>1, GraphsAssumption DEF EngineInv, GateInv, BoardTypes
    <3>4. g \in board \/ Outdone(g, board)
      <4>1. CASE threshold \in board
        BY <3>2, <3>3, <4>1 DEF Outdone
      <4>2. CASE Outdone(threshold, board)
        BY <3>2, <3>3, <4>2 DEF Outdone, Kept
      <4>3. QED
        BY <3>2, <3>3, <4>1, <4>2 DEF Kept
    <3>5. QED
      BY <3>2, <3>3, <3>4 DEF Filled
  <2>2. QED
    BY <2>1 DEF GateKeepsRecord
<1>2. QED
  BY <1>1, EngineInvariant, PTL

(***************************************************************************)
(* No discovery that passed the gate disappears while run_engine counts it *)
(* as known: it waits, was decided, or a failed submit dropped its batch.  *)
(***************************************************************************)
THEOREM AccountedAlways == Spec => []Accounted
<1>1. EngineInv => Accounted
  BY DEF EngineInv
<1>2. QED
  BY <1>1, EngineInvariant, PTL

(***************************************************************************)
(* "Never re-submit known CIDs": while the trims of known_cids have        *)
(* forgotten nothing, no graph leaves the worker twice, whatever fails in  *)
(* between.                                                                *)
(***************************************************************************)
THEOREM SubmittedOnceAlways == Spec => SubmittedOnce
<1>1. ASSUME EngineInv
      PROVE  [Submit \/ SubmitFails => trimmed \/ Head(batch) \notin sent]_vars
  <2>1. ASSUME Submit \/ SubmitFails
        PROVE  trimmed \/ Head(batch) \notin sent
    <3>1. batch # <<>> /\ batch \in Seq(Graphs)
      BY <1>1, <2>1 DEF Submit, SubmitFails, EngineInv, QueueTypes
    <3>2. Head(batch) \in Contents(batch)
      BY <3>1, HeadContents
    <3>3. QED
      BY <1>1, <3>2 DEF EngineInv, OnceInv, Waiting
  <2>2. QED
    BY <2>1
<1>2. QED
  BY <1>1, EngineInvariant, PTL DEF SubmittedOnce
=============================================================================
