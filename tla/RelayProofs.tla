------------------------------ MODULE RelayProofs ------------------------------
(***************************************************************************)
(* Proofs about DashboardRelay, for any workers, sockets, browsers, limit  *)
(* and capacity of the broadcast channel.                                  *)
(***************************************************************************)
EXTENDS DashboardRelay, FiniteSetTheorems, TLAPS

States == {"free", "handshake", "registered", "relay", "left"}

Types == pc \in [Conns -> States] /\ of \in [Conns -> Workers]

\* Two open sockets of one id are known as a clash.
Alone ==
  \A c, d \in Conns :
    c # d /\ pc[c] # "free" /\ pc[d] # "free" /\ of[c] = of[d] => of[c] \in clashed

\* An entry is written before the worker is announced, and stays until it has left.
Entered ==
  \A c \in Conns : pc[c] \in {"registered", "relay"} => of[c] \in listed \cup clashed

Room == IsFiniteSet(listed) /\ Cardinality(listed) <= MaxWorkers

RelayInv == Types /\ Alone /\ Entered /\ Room

LEMMA InitRelay == Init => RelayInv
<1> SUFFICES ASSUME Init
             PROVE  RelayInv
  OBVIOUS
<1>1. \A c \in Conns : pc[c] = "free"
  BY DEF Init
<1>2. Room
  BY FS_EmptySet, RelayAssumption DEF Init, Room
<1>3. QED
  BY <1>1, <1>2 DEF Init, RelayInv, Types, Alone, Entered, States

\* When a handler ends, nobody else is open under an id that stops clashing.
LEMMA CloseKeeps ==
  ASSUME RelayInv, NEW c \in Conns, pc' = [pc EXCEPT ![c] = "free"], Closed(c),
         UNCHANGED of, listed' = listed
  PROVE  Types' /\ Alone' /\ Entered'
<1> USE DEF RelayInv, Types, States
<1>1. /\ pc' \in [Conns -> States] /\ of' = of
      /\ pc'[c] = "free" /\ \A d \in Conns : d # c => pc'[d] = pc[d]
  OBVIOUS
<1>2. ASSUME NEW d \in Conns, pc'[d] # "free", of[d] \in clashed
      PROVE  of[d] \in clashed'
  <2>1. d # c /\ pc[d] # "free"
    BY <1>1, <1>2
  <2>2. CASE of[d] = of[c]
    <3>1. d \in Open(of[c])
      BY <2>1, <2>2 DEF Open
    <3>2. Open(of[c]) # {c}
      BY <2>1, <3>1
    <3>3. QED
      BY <1>2, <3>2 DEF Closed
  <2>3. CASE of[d] # of[c]
    BY <1>2, <2>3 DEF Closed
  <2>4. QED
    BY <2>2, <2>3
<1>3. Alone'
  BY <1>1, <1>2 DEF Alone
<1>4. Entered'
  BY <1>1, <1>2 DEF Entered
<1>5. QED
  BY <1>1, <1>3, <1>4

LEMMA RoomStays ==
  ASSUME RelayInv, NEW w, HasRoom(w)
  PROVE  IsFiniteSet(listed \cup {w}) /\ Cardinality(listed \cup {w}) <= MaxWorkers
<1>1. IsFiniteSet(listed) /\ Cardinality(listed) \in Nat /\ Cardinality(listed) <= MaxWorkers
  BY FS_CardinalityType DEF RelayInv, Room
<1>2. CASE w \in listed
  <2>1. listed \cup {w} = listed
    BY <1>2
  <2>2. QED
    BY <1>1, <2>1
<1>3. CASE w \notin listed
  <2>1. Cardinality(listed) < MaxWorkers
    BY <1>3 DEF HasRoom
  <2>2. /\ IsFiniteSet(listed \cup {w})
        /\ Cardinality(listed \cup {w}) = Cardinality(listed) + 1
    BY <1>1, <1>3, FS_AddElement
  <2>3. QED
    BY <1>1, <2>1, <2>2, RelayAssumption
<1>4. QED
  BY <1>2, <1>3

LEMMA RelayStep == RelayInv /\ [Next]_vars => RelayInv'
<1> SUFFICES ASSUME RelayInv, [Next]_vars
             PROVE  RelayInv'
  OBVIOUS
<1> USE DEF RelayInv, Types, States, Goto, worker
<1>1. CASE UNCHANGED <<pc, of, listed, clashed>>
  BY <1>1 DEF Alone, Entered, Room
<1>2. ASSUME NEW c \in Conns, NEW w \in Workers, Connect(c, w)
      PROVE  RelayInv'
  <2>1. /\ pc[c] = "free" /\ pc' = [pc EXCEPT ![c] = "handshake"]
        /\ of' = [of EXCEPT ![c] = w] /\ listed' = listed
        /\ clashed' = IF Open(w) = {} THEN clashed ELSE clashed \cup {w}
    BY <1>2 DEF Connect
  <2>2. /\ pc'[c] = "handshake" /\ of'[c] = w
        /\ \A d \in Conns : d # c => pc'[d] = pc[d] /\ of'[d] = of[d]
        /\ clashed \subseteq clashed'
        /\ pc' \in [Conns -> States] /\ of' \in [Conns -> Workers]
    BY <2>1
  <2>3. ASSUME NEW d \in Conns, d # c, pc[d] # "free", of[d] = w
        PROVE  w \in clashed'
    <3>1. d \in Open(w)
      BY <2>3 DEF Open
    <3>2. QED
      BY <2>1, <3>1
  <2>4. Alone'
    BY <2>2, <2>3 DEF Alone
  <2>5. Entered'
    BY <2>1, <2>2 DEF Entered
  <2>6. Room'
    BY <2>1 DEF Room
  <2>7. QED
    BY <2>2, <2>4, <2>5, <2>6
<1>3. ASSUME NEW c \in Conns, Lose(c) \/ Relay(c)
      PROVE  RelayInv'
  BY <1>1, <1>3 DEF Lose, Relay
<1>4. ASSUME NEW c \in Conns, Register(c)
      PROVE  RelayInv'
  <2>1. /\ pc[c] = "handshake" /\ pc' = [pc EXCEPT ![c] = "registered"]
        /\ of' = of /\ clashed' = clashed /\ listed' = listed \cup {of[c]} /\ HasRoom(of[c])
    BY <1>4 DEF Register
  <2>2. Room'
    BY <2>1, RoomStays DEF Room
  <2>3. QED
    BY <2>1, <2>2 DEF Alone, Entered
<1>5. ASSUME NEW c \in Conns, Reject(c)
      PROVE  RelayInv'
  <2>1. /\ pc' = [pc EXCEPT ![c] = "free"] /\ Closed(c) /\ UNCHANGED of /\ listed' = listed
    BY <1>5 DEF Reject
  <2>2. QED
    BY <2>1, CloseKeeps DEF Room
<1>6. ASSUME NEW c \in Conns, Announce(c)
      PROVE  RelayInv'
  <2>1. /\ pc[c] = "registered" /\ pc' = [pc EXCEPT ![c] = "relay"]
        /\ UNCHANGED <<of, listed, clashed>>
    BY <1>6 DEF Announce
  <2>2. QED
    BY <2>1 DEF Alone, Entered, Room
<1>7. ASSUME NEW c \in Conns, Unregister(c)
      PROVE  RelayInv'
  <2>1. /\ pc[c] = "relay" /\ pc' = [pc EXCEPT ![c] = "left"]
        /\ listed' = listed \ {of[c]} /\ UNCHANGED <<of, clashed>>
    BY <1>7 DEF Unregister
  <2>2. /\ pc'[c] = "left" /\ \A d \in Conns : d # c => pc'[d] = pc[d]
        /\ pc' \in [Conns -> States]
    BY <2>1
  <2>3. Alone'
    BY <2>1, <2>2 DEF Alone
  <2>4. ASSUME NEW d \in Conns, pc'[d] \in {"registered", "relay"}
        PROVE  of[d] \in listed' \cup clashed
    <3>1. d # c /\ pc[d] = pc'[d]
      BY <2>2, <2>4
    <3>2. CASE of[d] = of[c]
      BY <2>1, <2>4, <3>1, <3>2 DEF Alone
    <3>3. CASE of[d] # of[c]
      BY <2>1, <2>4, <3>1, <3>3 DEF Entered
    <3>4. QED
      BY <3>2, <3>3
  <2>5. Entered'
    BY <2>1, <2>4 DEF Entered
  <2>6. Room'
    <3>1. IsFiniteSet(listed) /\ listed' \subseteq listed
      BY <2>1 DEF Room
    <3>2. IsFiniteSet(listed') /\ Cardinality(listed') <= Cardinality(listed)
      BY <3>1, FS_Subset
    <3>3. Cardinality(listed) \in Nat /\ Cardinality(listed') \in Nat
      BY <3>1, <3>2, FS_CardinalityType
    <3>4. QED
      BY <3>2, <3>3, RelayAssumption DEF Room
  <2>7. QED
    BY <2>1, <2>2, <2>3, <2>5, <2>6
<1>8. ASSUME NEW c \in Conns, Farewell(c)
      PROVE  RelayInv'
  <2>1. /\ pc' = [pc EXCEPT ![c] = "free"] /\ Closed(c) /\ UNCHANGED of /\ listed' = listed
    BY <1>8 DEF Farewell
  <2>2. QED
    BY <2>1, CloseKeeps DEF Room
<1>9. ASSUME NEW u \in Uis,
             \/ ListWorkers(u) \/ Subscribe(u) \/ Deliver(u) \/ DropEvent(u)
             \/ CloseUi(u) \/ LoseUi(u)
      PROVE  RelayInv'
  BY <1>1, <1>9 DEF ListWorkers, Subscribe, Deliver, DropEvent, CloseUi, LoseUi
<1>10. CASE UNCHANGED vars
  BY <1>1, <1>10 DEF vars
<1>11. QED
  BY <1>2, <1>3, <1>4, <1>5, <1>6, <1>7, <1>8, <1>9, <1>10 DEF Next, Handler

(***************************************************************************)
(* Every worker whose messages are relayed is in the list, unless two      *)
(* sockets share its id (handle_worker's register and unregister).         *)
(***************************************************************************)
THEOREM ConnectedListedAlways == Spec => []ConnectedListed
<1>1. RelayInv => ConnectedListed
  BY DEF RelayInv, Entered, ConnectedListed, Relaying
<1>2. QED
  BY <1>1, InitRelay, RelayStep, PTL DEF Spec

LEMMA InjectionBound ==
  ASSUME NEW S, NEW T, IsFiniteSet(T), NEW f \in [S -> T],
         \A x, y \in S : f[x] = f[y] => x = y
  PROVE  IsFiniteSet(S) /\ Cardinality(S) <= Cardinality(T)
<1>1. f \in Injection(S, T)
  BY DEF Injection, IsInjective
<1>2. QED
  BY <1>1, FS_Injection

\* The sockets without a clash have an entry of the list each.
LEMMA BoundHolds == RelayInv => ConnectionBound
<1> SUFFICES ASSUME RelayInv
             PROVE  ConnectionBound
  OBVIOUS
<1> DEFINE single == {c \in Relaying : of[c] \notin clashed}
           id == [c \in single |-> of[c]]
<1>1. \A c \in single : c \in Conns /\ pc[c] = "relay" /\ of[c] \notin clashed
  BY DEF Relaying
<1>2. id \in [single -> listed]
  <2>1. \A c \in single : of[c] \in listed
    BY <1>1 DEF RelayInv, Entered
  <2>2. QED
    BY <2>1
<1>3. \A c, d \in single : id[c] = id[d] => c = d
  <2>1. \A c, d \in single : of[c] = of[d] => c = d
    BY <1>1 DEF RelayInv, Alone
  <2>2. QED
    BY <2>1
<1>4. IsFiniteSet(listed)
  BY DEF RelayInv, Room
<1>5. IsFiniteSet(single) /\ Cardinality(single) <= Cardinality(listed)
  <2> HIDE DEF single, id
  <2>1. QED
    BY <1>2, <1>3, <1>4, InjectionBound
<1>6. Cardinality(single) \in Nat /\ Cardinality(listed) \in Nat /\ Cardinality(listed) <= MaxWorkers
  <2> HIDE DEF single
  <2>1. QED
    BY <1>4, <1>5, FS_CardinalityType DEF RelayInv, Room
<1>7. Cardinality(single) <= MaxWorkers
  <2> HIDE DEF single
  <2>1. QED
    BY <1>5, <1>6, RelayAssumption
<1>8. QED
  BY <1>7, Zenon DEF ConnectionBound

(***************************************************************************)
(* No more workers than max_workers are relayed at a time, of those that   *)
(* share their id with no other (dashboard state, register).               *)
(***************************************************************************)
THEOREM ConnectionBoundAlways == Spec => []ConnectionBound
BY BoundHolds, InitRelay, RelayStep, PTL DEF Spec
-----------------------------------------------------------------------------
(***************************************************************************)
(* What the browsers show.                                                 *)
(***************************************************************************)
Events == [type : {"connected", "disconnected", "event"}, id : Workers]

\* A browser that shows v shows w once it has taken the events of q.
WillShow(q, v, w) ==
  \/ \E i \in 1..Len(q) :
       /\ q[i].type = "connected" /\ q[i].id = w
       /\ \A j \in (i + 1)..Len(q) : ~(q[j].type = "disconnected" /\ q[j].id = w)
  \/ w \in v /\ \A j \in 1..Len(q) : ~(q[j].type = "disconnected" /\ q[j].id = w)

ScreenTypes ==
  /\ listed \subseteq Workers
  /\ uipc \in [Uis -> {"off", "listing", "on"}]
  /\ queue \in [Uis -> Seq(Events)]
  /\ view \in [Uis -> SUBSET Workers]
  /\ \A u \in Uis :
       /\ uipc[u] # "on" => queue[u] = <<>>
       /\ uipc[u] = "off" /\ u \notin back => view[u] = {}

Has(w, states) == \E c \in Conns : of[c] = w /\ pc[c] \in states

\* Nobody is listed without a handler that wrote the entry and will remove it.
Held == \A w \in listed : Has(w, {"registered", "relay"})

\* The browsers that missed nothing since their list.
Following == {u \in Uis : uipc[u] # "off" /\ u \notin lagged}

\* An announced worker is on the screen, or on its way to it.
Announced ==
  \A u \in Following, w \in listed \ clashed :
    ~Has(w, {"registered"}) => WillShow(queue[u], view[u], w)

\* What is on the screen, or on its way, has a handler that will say farewell.
Truthful ==
  \A u \in Following \ back, w \in Workers :
    WillShow(queue[u], view[u], w) => Has(w, {"registered", "relay", "left"})

ScreenInv == ScreenTypes /\ Held /\ Announced /\ Truthful

\* An event added to the queue decides for its worker, and for no other.
LEMMA ShowAppend ==
  ASSUME NEW q \in Seq(Events), NEW v, NEW w, NEW e \in Events
  PROVE  WillShow(Append(q, e), v, w) <=>
           \/ e.type = "connected" /\ e.id = w
           \/ WillShow(q, v, w) /\ ~(e.type = "disconnected" /\ e.id = w)
<1> DEFINE r == Append(q, e)
           n == Len(q)
<1>1. /\ n \in Nat /\ Len(r) = n + 1 /\ r[n + 1] = e
      /\ \A i \in 1..n : r[i] = q[i]
  OBVIOUS
<1> HIDE DEF r, n
<1>2. CASE e.type = "connected" /\ e.id = w
  <2>1. e.type # "disconnected"
    BY <1>2
  <2>2. n + 1 \in 1..(n + 1) /\ (n + 1 + 1)..(n + 1) = {}
    BY <1>1
  <2>3. WillShow(r, v, w)
    BY <1>1, <1>2, <2>2 DEF WillShow
  <2>4. QED
    BY <1>2, <2>3 DEF r
<1>3. CASE e.type = "disconnected" /\ e.id = w
  <2>1. e.type # "connected"
    BY <1>3
  <2>2. ASSUME WillShow(r, v, w)
        PROVE  FALSE
    <3>1. \A i \in 1..n : n + 1 \in (i + 1)..(n + 1)
      BY <1>1
    <3>2. n + 1 \in 1..(n + 1)
      BY <1>1
    <3>3. QED
      BY <1>1, <1>3, <2>1, <2>2, <3>1, <3>2 DEF WillShow
  <2>3. QED
    BY <1>3, <2>1, <2>2 DEF r
<1>4. CASE /\ ~(e.type = "connected" /\ e.id = w)
           /\ ~(e.type = "disconnected" /\ e.id = w)
  <2>1. ASSUME NEW k \in 1..(n + 1)
        PROVE  (\A j \in k..(n + 1) : ~(r[j].type = "disconnected" /\ r[j].id = w))
               <=> (\A j \in k..n : ~(q[j].type = "disconnected" /\ q[j].id = w))
    <3>1. \A j \in k..(n + 1) : j \in k..n \/ j = n + 1
      BY <1>1
    <3>2. \A j \in k..n : j \in k..(n + 1) /\ j \in 1..n
      BY <1>1
    <3>3. QED
      BY <1>1, <1>4, <3>1, <3>2
  <2>2. \A i \in 1..n : i \in 1..(n + 1) /\ i + 1 \in 1..(n + 1)
    BY <1>1
  <2>3. \A i \in 1..(n + 1) : i \in 1..n \/ i = n + 1
    BY <1>1
  <2>4. 1 \in 1..(n + 1)
    BY <1>1
  <2>5. Len(q) = n
    BY DEF n
  <2>6. (\E i \in 1..(n + 1) :
           /\ r[i].type = "connected" /\ r[i].id = w
           /\ \A j \in (i + 1)..(n + 1) : ~(r[j].type = "disconnected" /\ r[j].id = w))
        <=>
        (\E i \in 1..n :
           /\ q[i].type = "connected" /\ q[i].id = w
           /\ \A j \in (i + 1)..n : ~(q[j].type = "disconnected" /\ q[j].id = w))
    BY <1>1, <1>4, <2>1, <2>2, <2>3
  <2>7. WillShow(r, v, w) <=> WillShow(q, v, w)
    BY <1>1, <2>1, <2>4, <2>5, <2>6 DEF WillShow
  <2>8. QED
    BY <1>4, <2>7 DEF r
<1>5. QED
  BY <1>2, <1>3, <1>4

\* Taking an event moves what it says from the queue to the screen.
LEMMA ShowTake ==
  ASSUME NEW q \in Seq(Events), q # <<>>, NEW v, NEW w
  PROVE  WillShow(Tail(q), Shown(v, Head(q)), w) <=> WillShow(q, v, w)
<1> DEFINE r == Tail(q)
           n == Len(q)
           e == Head(q)
           gone(s, j) == s[j].type = "disconnected" /\ s[j].id = w
<1>1. /\ n \in Nat \ {0} /\ Len(r) = n - 1 /\ q[1] = e /\ e \in Events
      /\ \A i \in 1..(n - 1) : r[i] = q[i + 1]
      /\ Len(q) = n
  OBVIOUS
<1>2. w \in Shown(v, e) <=> \/ e.type = "connected" /\ e.id = w
                            \/ w \in v /\ ~(e.type = "disconnected" /\ e.id = w)
  BY <1>1 DEF Events, Shown
<1>3. e.type = "connected" => e.type # "disconnected"
  OBVIOUS
<1> HIDE DEF r, n, e
<1>4. ASSUME NEW k \in 1..n
      PROVE  (\A j \in k..(n - 1) : ~gone(r, j)) <=> (\A j \in (k + 1)..n : ~gone(q, j))
  <2>1. \A j \in k..(n - 1) : j + 1 \in (k + 1)..n /\ j \in 1..(n - 1)
    BY <1>1
  <2>2. \A j \in (k + 1)..n : j - 1 \in k..(n - 1) /\ (j - 1) + 1 = j /\ j - 1 \in 1..(n - 1)
    BY <1>1
  <2>3. ASSUME \A j \in k..(n - 1) : ~gone(r, j), NEW j \in (k + 1)..n
        PROVE  ~gone(q, j)
    <3>1. r[j - 1] = q[j]
      BY <1>1, <2>2
    <3>2. QED
      BY <2>2, <2>3, <3>1
  <2>4. ASSUME \A j \in (k + 1)..n : ~gone(q, j), NEW j \in k..(n - 1)
        PROVE  ~gone(r, j)
    BY <1>1, <2>1, <2>4
  <2>5. QED
    BY <2>3, <2>4
<1>5. ASSUME NEW i \in 1..(n - 1)
      PROVE  /\ r[i].type = "connected" /\ r[i].id = w
             /\ \A j \in (i + 1)..(n - 1) : ~gone(r, j)
             <=>
             /\ q[i + 1].type = "connected" /\ q[i + 1].id = w
             /\ \A j \in (i + 1 + 1)..n : ~gone(q, j)
  <2>1. i + 1 \in 1..n
    BY <1>1
  <2>2. QED
    BY <1>1, <1>4, <2>1
<1>6. (\E i \in 1..n : /\ q[i].type = "connected" /\ q[i].id = w
                       /\ \A j \in (i + 1)..n : ~gone(q, j))
      <=>
      \/ /\ e.type = "connected" /\ e.id = w
         /\ \A j \in 2..n : ~gone(q, j)
      \/ \E i \in 1..(n - 1) : /\ r[i].type = "connected" /\ r[i].id = w
                               /\ \A j \in (i + 1)..(n - 1) : ~gone(r, j)
  <2>1. \A i \in 1..n : i = 1 \/ (i - 1 \in 1..(n - 1) /\ (i - 1) + 1 = i)
    BY <1>1
  <2>2. \A i \in 1..(n - 1) : i + 1 \in 1..n
    BY <1>1
  <2>3. 1 \in 1..n /\ 1 + 1 = 2
    BY <1>1
  <2> HIDE DEF gone
  <2>4. QED
    BY <1>1, <1>5, <2>1, <2>2, <2>3
<1>7. (\A j \in 1..n : ~gone(q, j)) <=>
      ~(e.type = "disconnected" /\ e.id = w) /\ \A j \in 2..n : ~gone(q, j)
  <2>1. \A j \in 1..n : j = 1 \/ j \in 2..n
    BY <1>1
  <2>2. 1 \in 1..n /\ \A j \in 2..n : j \in 1..n
    BY <1>1
  <2>3. QED
    BY <1>1, <2>1, <2>2
<1>8. (\A j \in 1..(n - 1) : ~gone(r, j)) <=> (\A j \in 2..n : ~gone(q, j))
  <2>1. 1 \in 1..n /\ 1 + 1 = 2
    BY <1>1
  <2>2. QED
    BY <1>4, <2>1
<1>9. WillShow(q, v, w) <=>
        \/ \E i \in 1..n : /\ q[i].type = "connected" /\ q[i].id = w
                           /\ \A j \in (i + 1)..n : ~gone(q, j)
        \/ w \in v /\ \A j \in 1..n : ~gone(q, j)
  BY <1>1 DEF WillShow
<1>10. WillShow(r, Shown(v, e), w) <=>
        \/ \E i \in 1..(n - 1) : /\ r[i].type = "connected" /\ r[i].id = w
                                 /\ \A j \in (i + 1)..(n - 1) : ~gone(r, j)
        \/ w \in Shown(v, e) /\ \A j \in 1..(n - 1) : ~gone(r, j)
  BY <1>1 DEF WillShow
<1> HIDE DEF gone
<1>11. WillShow(r, Shown(v, e), w) <=> WillShow(q, v, w)
  BY <1>2, <1>3, <1>6, <1>7, <1>8, <1>9, <1>10
<1>12. QED
  BY <1>11 DEF r, e

\* With an empty queue the screen is what is shown.
LEMMA ShowNothing == ASSUME NEW v, NEW w PROVE WillShow(<<>>, v, w) <=> w \in v
BY DEF WillShow

LEMMA InitScreen == Init => ScreenInv
<1> SUFFICES ASSUME Init
             PROVE  ScreenInv
  OBVIOUS
<1>1. <<>> \in Seq(Events)
  OBVIOUS
<1>2. ScreenTypes
  BY <1>1 DEF Init, ScreenTypes
<1>3. Following = {}
  BY DEF Init, Following
<1>4. QED
  BY <1>2, <1>3 DEF Init, ScreenInv, Held, Announced, Truthful

\* A step of one handler leaves what the others are at.
LEMMA HasElsewhere ==
  ASSUME NEW c \in Conns, NEW w, NEW S, of'[c] # w \/ pc'[c] \notin S,
         \A d \in Conns : d # c => pc'[d] = pc[d] /\ of'[d] = of[d]
  PROVE  Has(w, S)' => Has(w, S)
BY DEF Has

LEMMA HasStays ==
  ASSUME NEW c \in Conns, NEW w, NEW S, of[c] # w \/ pc[c] \notin S,
         \A d \in Conns : d # c => pc'[d] = pc[d] /\ of'[d] = of[d]
  PROVE  Has(w, S) => Has(w, S)'
BY DEF Has

\* A clash ends when the last of its sockets closes, and its id is not listed then.
LEMMA ClashEnds ==
  ASSUME Held, NEW c \in Conns, pc[c] \notin {"registered", "relay"}, Closed(c)
  PROVE  listed \ clashed' = listed \ clashed
<1>1. ASSUME NEW w \in listed
      PROVE  w \in clashed' <=> w \in clashed
  <2>1. PICK d \in Conns : of[d] = w /\ pc[d] \in {"registered", "relay"}
    BY <1>1 DEF Held, Has
  <2>2. CASE w = of[c]
    <3>1. d \in Open(of[c]) /\ d # c
      BY <2>1, <2>2 DEF Open
    <3>2. QED
      BY <3>1 DEF Closed
  <2>3. CASE w # of[c]
    BY <2>3 DEF Closed
  <2>4. QED
    BY <2>2, <2>3
<1>2. QED
  BY <1>1

LEMMA BroadcastTypes ==
  ASSUME ScreenTypes, NEW t \in {"connected", "disconnected", "event"}, NEW x \in Workers,
         Broadcast(t, x), listed' \subseteq Workers
  PROVE  ScreenTypes'
<1> DEFINE e == [type |-> t, id |-> x]
           last(u) == IF Len(queue[u]) = BusSize THEN Tail(queue[u]) ELSE queue[u]
<1>1. e \in Events
  BY DEF Events
<1>2. /\ uipc' = uipc /\ view' = view /\ back' = back
      /\ queue' = [u \in Uis |-> IF uipc[u] = "on" THEN Append(last(u), e) ELSE <<>>]
  BY DEF Broadcast
<1> HIDE DEF e
<1>3. ASSUME NEW u \in Uis
      PROVE  last(u) \in Seq(Events)
  <2>1. queue[u] \in Seq(Events)
    BY DEF ScreenTypes
  <2>2. Len(queue[u]) = BusSize => Tail(queue[u]) \in Seq(Events)
    <3>1. Len(queue[u]) = BusSize => queue[u] # <<>>
      BY RelayAssumption
    <3>2. QED
      BY <2>1, <3>1
  <2>3. QED
    BY <2>1, <2>2
<1> HIDE DEF last
<1>4. \A u \in Uis : Append(last(u), e) \in Seq(Events)
  BY <1>1, <1>3
<1>5. queue' \in [Uis -> Seq(Events)]
  <2>1. <<>> \in Seq(Events)
    OBVIOUS
  <2>2. QED
    BY <1>2, <1>4, <2>1
<1>6. QED
  BY <1>2, <1>5 DEF ScreenTypes

\* A browser still following has the event last in its queue; the one between its
\* list and its subscription misses it.
LEMMA BroadcastShows ==
  ASSUME ScreenTypes, NEW t \in {"connected", "disconnected", "event"}, NEW x \in Workers,
         Broadcast(t, x), NEW u \in Following', NEW w
  PROVE  /\ u \in Following
         /\ WillShow(queue[u], view[u], w)' <=>
              \/ t = "connected" /\ x = w
              \/ WillShow(queue[u], view[u], w) /\ ~(t = "disconnected" /\ x = w)
<1> DEFINE e == [type |-> t, id |-> x]
<1>1. /\ uipc' = uipc /\ view' = view /\ lagged \subseteq lagged' /\ u \in Uis
      /\ uipc[u] # "off" /\ u \notin lagged /\ queue[u] \in Seq(Events)
      /\ uipc[u] \in {"listing", "on"}
  BY DEF Broadcast, Following, ScreenTypes
<1>2. e \in Events /\ e.type = t /\ e.id = x
  BY DEF Events
<1>3. CASE uipc[u] = "on"
  <2>1. Len(queue[u]) # BusSize
    BY <1>1, <1>3 DEF Broadcast, Following
  <2>2. queue'[u] = Append(queue[u], e)
    BY <1>1, <1>3, <2>1 DEF Broadcast
  <2> HIDE DEF e
  <2>3. WillShow(queue'[u], view[u], w) <=>
          \/ e.type = "connected" /\ e.id = w
          \/ WillShow(queue[u], view[u], w) /\ ~(e.type = "disconnected" /\ e.id = w)
    BY <1>1, <1>2, <2>2, ShowAppend
  <2>4. QED
    BY <1>1, <1>2, <2>3 DEF Following
<1>4. CASE uipc[u] = "listing"
  <2>1. t = "event"
    BY <1>1, <1>4 DEF Broadcast, Following
  <2>2. queue'[u] = <<>> /\ queue[u] = <<>>
    BY <1>1, <1>4 DEF Broadcast, ScreenTypes
  <2>3. QED
    BY <1>1, <2>1, <2>2 DEF Following
<1>5. QED
  BY <1>1, <1>3, <1>4

\* A step of a worker's handler that sends nothing.
LEMMA QuietKeeps ==
  ASSUME ScreenInv, UNCHANGED ui, listed' \subseteq Workers,
         \A w \in listed' : Has(w, {"registered", "relay"})',
         \A w \in listed' \ clashed' :
           ~Has(w, {"registered"})' => w \in listed \ clashed /\ ~Has(w, {"registered"}),
         \A w \in Workers : Has(w, {"registered", "relay", "left"})
                            => Has(w, {"registered", "relay", "left"})'
  PROVE  ScreenInv'
<1> USE DEF ScreenInv, ui
<1>1. ScreenTypes' /\ Held'
  BY DEF ScreenTypes, Held
<1>2. Following' = Following
  BY DEF Following
<1>3. Announced'
  BY <1>2 DEF Announced
<1>4. Truthful'
  BY <1>2 DEF Truthful
<1>5. QED
  BY <1>1, <1>3, <1>4

LEMMA ScreenStep == RelayInv /\ ScreenInv /\ [Next]_vars => ScreenInv'
<1> SUFFICES ASSUME RelayInv, ScreenInv, [Next]_vars
             PROVE  ScreenInv'
  OBVIOUS
<1> DEFINE here == {"registered", "relay"}
           gone == {"registered", "relay", "left"}
<1> USE DEF Goto
<1>0. /\ pc \in [Conns -> States] /\ of \in [Conns -> Workers] /\ listed \subseteq Workers
      /\ \A c \in Conns : of[c] \in Workers
  BY DEF RelayInv, Types, ScreenInv, ScreenTypes
<1>1. ASSUME UNCHANGED <<pc, of, listed, clashed>>, UNCHANGED ui
      PROVE  ScreenInv'
  <2>1. \A w, S : Has(w, S)' <=> Has(w, S)
    BY <1>1 DEF Has
  <2>2. QED
    BY <1>0, <1>1, <2>1, QuietKeeps DEF ScreenInv, Held
<1>2. ASSUME NEW c \in Conns, NEW x \in Workers, Connect(c, x)
      PROVE  ScreenInv'
  <2>1. /\ pc[c] = "free" /\ pc'[c] = "handshake" /\ UNCHANGED ui /\ listed' = listed
        /\ \A d \in Conns : d # c => pc'[d] = pc[d] /\ of'[d] = of[d]
        /\ clashed \subseteq clashed'
    BY <1>0, <1>2 DEF Connect
  <2>2. \A w : Has(w, here) => Has(w, here)'
    BY <2>1, HasStays
  <2>3. \A w : Has(w, {"registered"}) => Has(w, {"registered"})'
    BY <2>1, HasStays
  <2>4. \A w : Has(w, gone) => Has(w, gone)'
    BY <2>1, HasStays
  <2>5. QED
    BY <1>0, <2>1, <2>2, <2>3, <2>4, QuietKeeps DEF ScreenInv, Held
<1>3. ASSUME NEW c \in Conns, Lose(c)
      PROVE  ScreenInv'
  BY <1>1, <1>3 DEF Lose
<1>4. ASSUME NEW c \in Conns, Register(c)
      PROVE  ScreenInv'
  <2>1. /\ pc[c] = "handshake" /\ pc'[c] = "registered" /\ UNCHANGED <<of, clashed, ui>>
        /\ listed' = listed \cup {of[c]}
        /\ \A d \in Conns : d # c => pc'[d] = pc[d] /\ of'[d] = of[d]
    BY <1>0, <1>4 DEF Register
  <2>2. \A w : Has(w, here) => Has(w, here)'
    BY <2>1, HasStays
  <2>3. \A w : Has(w, {"registered"}) => Has(w, {"registered"})'
    BY <2>1, HasStays
  <2>4. \A w : Has(w, gone) => Has(w, gone)'
    BY <2>1, HasStays
  <2>5. Has(of[c], {"registered"})' /\ Has(of[c], here)'
    BY <2>1 DEF Has
  <2>6. \A w \in listed' : w \in listed \/ w = of[c]
    BY <2>1
  <2>7. \A w \in listed : Has(w, here)
    BY DEF ScreenInv, Held
  <2>8. \A w \in listed' : Has(w, here)'
    <3>1. ASSUME NEW w \in listed'
          PROVE  Has(w, here)'
      <4>1. CASE w = of[c]
        BY <2>1, <2>5, <4>1
      <4>2. CASE w \in listed
        BY <2>2, <2>7, <4>2
      <4>3. QED
        BY <2>6, <4>1, <4>2
    <3>2. QED
      BY <3>1
  <2>9. \A w \in listed' \ clashed' :
          ~Has(w, {"registered"})' => w \in listed \ clashed /\ ~Has(w, {"registered"})
    BY <2>1, <2>3, <2>5, <2>6
  <2>10. listed' \subseteq Workers
    BY <1>0, <2>1
  <2>11. QED
    BY <2>1, <2>4, <2>8, <2>9, <2>10, QuietKeeps
<1>5. ASSUME NEW c \in Conns, Reject(c)
      PROVE  ScreenInv'
  <2>1. /\ pc[c] = "handshake" /\ pc'[c] = "free" /\ UNCHANGED <<of, listed, ui>> /\ Closed(c)
        /\ \A d \in Conns : d # c => pc'[d] = pc[d] /\ of'[d] = of[d]
    BY <1>0, <1>5 DEF Reject
  <2>2. \A w : Has(w, here) => Has(w, here)'
    BY <2>1, HasStays
  <2>3. \A w : Has(w, {"registered"}) => Has(w, {"registered"})'
    BY <2>1, HasStays
  <2>4. \A w : Has(w, gone) => Has(w, gone)'
    BY <2>1, HasStays
  <2>5. listed' \ clashed' = listed \ clashed
    BY <2>1, ClashEnds DEF ScreenInv
  <2>6. \A w \in listed' \ clashed' :
          ~Has(w, {"registered"})' => w \in listed \ clashed /\ ~Has(w, {"registered"})
    BY <2>3, <2>5
  <2>7. QED
    BY <1>0, <2>1, <2>2, <2>4, <2>6, QuietKeeps DEF ScreenInv, Held
<1>6. ASSUME NEW c \in Conns, Relay(c)
      PROVE  ScreenInv'
  <2>1. UNCHANGED <<pc, of, listed, clashed>> /\ Broadcast("event", of[c])
    BY <1>6 DEF Relay, worker
  <2>2. \A w, S : Has(w, S)' <=> Has(w, S)
    BY <2>1 DEF Has
  <2>3. ScreenTypes'
    BY <1>0, <2>1, BroadcastTypes DEF ScreenInv
  <2>4. \A u \in Following' : \A w :
          u \in Following /\ (WillShow(queue[u], view[u], w)' <=> WillShow(queue[u], view[u], w))
    BY <1>0, <2>1, BroadcastShows DEF ScreenInv
  <2>5. back' = back
    BY <2>1 DEF Broadcast
  <2>6. Held'
    BY <2>1, <2>2 DEF ScreenInv, Held
  <2>7. Announced'
    BY <2>1, <2>2, <2>4 DEF ScreenInv, Announced
  <2>8. Truthful'
    BY <2>2, <2>4, <2>5 DEF ScreenInv, Truthful
  <2>9. QED
    BY <2>3, <2>6, <2>7, <2>8 DEF ScreenInv
<1>7. ASSUME NEW c \in Conns, Announce(c)
      PROVE  ScreenInv'
  <2>1. /\ pc[c] = "registered" /\ pc'[c] = "relay" /\ UNCHANGED <<of, listed, clashed>>
        /\ Broadcast("connected", of[c])
        /\ \A d \in Conns : d # c => pc'[d] = pc[d] /\ of'[d] = of[d]
    BY <1>0, <1>7 DEF Announce
  <2>2. \A w : Has(w, here) => Has(w, here)'
    BY <2>1 DEF Has
  <2>3. \A w : w # of[c] /\ Has(w, {"registered"}) => Has(w, {"registered"})'
    BY <2>1 DEF Has
  <2>4. \A w : Has(w, gone) => Has(w, gone)'
    BY <2>1 DEF Has
  <2>5. Has(of[c], gone)'
    BY <2>1 DEF Has
  <2>6. ScreenTypes'
    BY <1>0, <2>1, BroadcastTypes DEF ScreenInv
  <2>7. \A u \in Following' : \A w :
          /\ u \in Following
          /\ WillShow(queue[u], view[u], w)' <=> of[c] = w \/ WillShow(queue[u], view[u], w)
    BY <1>0, <2>1, BroadcastShows DEF ScreenInv
  <2>8. back' = back
    BY <2>1 DEF Broadcast
  <2>9. Held'
    BY <2>1, <2>2 DEF ScreenInv, Held
  <2>10. Announced'
    BY <2>1, <2>3, <2>7 DEF ScreenInv, Announced
  <2>11. Truthful'
    <3>1. ASSUME NEW u \in Following' \ back', NEW w \in Workers,
                 WillShow(queue[u], view[u], w)'
          PROVE  Has(w, gone)'
      <4>1. u \in Following \ back /\ (of[c] = w \/ WillShow(queue[u], view[u], w))
        BY <2>7, <2>8, <3>1
      <4>2. CASE of[c] = w
        BY <2>1, <2>5, <4>2
      <4>3. CASE WillShow(queue[u], view[u], w)
        BY <2>4, <3>1, <4>1, <4>3 DEF ScreenInv, Truthful
      <4>4. QED
        BY <4>1, <4>2, <4>3
    <3>2. QED
      BY <3>1 DEF Truthful
  <2>12. QED
    BY <2>6, <2>9, <2>10, <2>11 DEF ScreenInv
<1>8. ASSUME NEW c \in Conns, Unregister(c)
      PROVE  ScreenInv'
  <2>1. /\ pc[c] = "relay" /\ pc'[c] = "left" /\ UNCHANGED <<of, clashed, ui>>
        /\ listed' = listed \ {of[c]}
        /\ \A d \in Conns : d # c => pc'[d] = pc[d] /\ of'[d] = of[d]
    BY <1>0, <1>8 DEF Unregister
  <2>2. \A w : w # of[c] /\ Has(w, here) => Has(w, here)'
    BY <2>1 DEF Has
  <2>3. \A w : Has(w, {"registered"}) => Has(w, {"registered"})'
    BY <2>1 DEF Has
  <2>4. \A w : Has(w, gone) => Has(w, gone)'
    BY <2>1 DEF Has
  <2>5. \A w \in listed' : Has(w, here)'
    BY <2>1, <2>2 DEF ScreenInv, Held
  <2>6. QED
    BY <1>0, <2>1, <2>3, <2>4, <2>5, QuietKeeps
<1>9. ASSUME NEW c \in Conns, Farewell(c)
      PROVE  ScreenInv'
  <2>1. /\ pc[c] = "left" /\ pc'[c] = "free" /\ UNCHANGED <<of, listed>> /\ Closed(c)
        /\ Broadcast("disconnected", of[c])
        /\ \A d \in Conns : d # c => pc'[d] = pc[d] /\ of'[d] = of[d]
    BY <1>0, <1>9 DEF Farewell
  <2>2. \A w : Has(w, here) => Has(w, here)'
    BY <2>1 DEF Has
  <2>3. \A w : Has(w, {"registered"}) => Has(w, {"registered"})'
    BY <2>1 DEF Has
  <2>4. \A w : w # of[c] /\ Has(w, gone) => Has(w, gone)'
    BY <2>1 DEF Has
  <2>5. listed' \ clashed' = listed \ clashed
    BY <2>1, ClashEnds DEF ScreenInv
  \* A listed worker has another handler under its id: the two clash.
  <2>6. of[c] \notin listed \ clashed
    <3>1. ASSUME of[c] \in listed
          PROVE  of[c] \in clashed
      <4>1. PICK d \in Conns : of[d] = of[c] /\ pc[d] \in here
        BY <3>1 DEF ScreenInv, Held, Has
      <4>2. QED
        BY <2>1, <4>1 DEF RelayInv, Alone
    <3>2. QED
      BY <3>1
  <2>7. ScreenTypes'
    BY <1>0, <2>1, BroadcastTypes DEF ScreenInv
  <2>8. \A u \in Following' : \A w :
          /\ u \in Following
          /\ WillShow(queue[u], view[u], w)' <=> of[c] # w /\ WillShow(queue[u], view[u], w)
    BY <1>0, <2>1, BroadcastShows DEF ScreenInv
  <2>9. back' = back
    BY <2>1 DEF Broadcast
  <2>10. Held'
    BY <2>1, <2>2 DEF ScreenInv, Held
  <2>11. Announced'
    BY <2>3, <2>5, <2>6, <2>8 DEF ScreenInv, Announced
  <2>12. Truthful'
    BY <2>4, <2>8, <2>9 DEF ScreenInv, Truthful
  <2>13. QED
    BY <2>7, <2>10, <2>11, <2>12 DEF ScreenInv
<1>10. ASSUME NEW u \in Uis, UNCHANGED worker,
              \/ ListWorkers(u) \/ Subscribe(u) \/ Deliver(u) \/ DropEvent(u)
              \/ CloseUi(u) \/ LoseUi(u)
       PROVE  ScreenInv'
  <2>0. UNCHANGED <<pc, of, listed, clashed>>
    BY <1>10 DEF worker
  <2>1. \A w, S : Has(w, S)' <=> Has(w, S)
    BY <2>0 DEF Has
  <2>2. Held'
    BY <2>0, <2>1 DEF ScreenInv, Held
  <2>3. /\ uipc \in [Uis -> {"off", "listing", "on"}] /\ queue \in [Uis -> Seq(Events)]
        /\ view \in [Uis -> SUBSET Workers] /\ queue[u] \in Seq(Events)
        /\ uipc[u] # "on" => queue[u] = <<>>
        /\ uipc[u] = "off" /\ u \notin back => view[u] = {}
        /\ <<>> \in Seq(Events)
    BY DEF ScreenInv, ScreenTypes
  <2>4. ASSUME /\ \A v \in Uis : v # u => /\ uipc'[v] = uipc[v] /\ queue'[v] = queue[v]
                                          /\ view'[v] = view[v]
                                          /\ v \in lagged' <=> v \in lagged
                                          /\ v \in back' <=> v \in back,
               u \in Following' =>
                 /\ \A w \in listed \ clashed :
                      ~Has(w, {"registered"}) => WillShow(queue'[u], view'[u], w)
                 /\ u \notin back' =>
                      \A w \in Workers : WillShow(queue'[u], view'[u], w) => Has(w, gone)
        PROVE  Announced' /\ Truthful'
    <3>1. \A v \in Uis : v # u => (v \in Following' <=> v \in Following)
      BY <2>4 DEF Following
    <3>2. Following' \subseteq Uis
      BY DEF Following
    <3>3. Announced'
      <4>1. ASSUME NEW v \in Following', NEW w \in listed \ clashed, ~Has(w, {"registered"})
            PROVE  WillShow(queue'[v], view'[v], w)
        <5>1. CASE v = u
          BY <2>4, <4>1, <5>1
        <5>2. CASE v # u
          <6>1. v \in Following /\ queue'[v] = queue[v] /\ view'[v] = view[v]
            BY <2>4, <3>1, <3>2, <4>1, <5>2
          <6>2. QED
            BY <4>1, <6>1 DEF ScreenInv, Announced
        <5>3. QED
          BY <5>1, <5>2
      <4>2. QED
        BY <2>0, <2>1, <4>1 DEF Announced
    <3>4. Truthful'
      <4>1. ASSUME NEW v \in Following' \ back', NEW w \in Workers,
                   WillShow(queue'[v], view'[v], w)
            PROVE  Has(w, gone)
        <5>1. CASE v = u
          BY <2>4, <4>1, <5>1
        <5>2. CASE v # u
          <6>1. v \in Following \ back /\ queue'[v] = queue[v] /\ view'[v] = view[v]
            BY <2>4, <3>1, <3>2, <4>1, <5>2
          <6>2. QED
            BY <4>1, <6>1 DEF ScreenInv, Truthful
        <5>3. QED
          BY <5>1, <5>2
      <4>2. QED
        BY <2>1, <4>1 DEF Truthful
    <3>5. QED
      BY <3>3, <3>4
  <2>5. CASE ListWorkers(u)
    <3>1. /\ uipc[u] = "off" /\ uipc' = [uipc EXCEPT ![u] = "listing"]
          /\ view' = [view EXCEPT ![u] = @ \cup listed] /\ lagged' = lagged \ {u}
          /\ UNCHANGED <<queue, back>>
      BY <2>5 DEF ListWorkers
    <3>2. view'[u] = view[u] \cup listed /\ queue'[u] = <<>>
      BY <2>3, <3>1
    <3>3. \A w : WillShow(queue'[u], view'[u], w) <=> w \in view[u] \cup listed
      BY <3>2, ShowNothing
    <3>4. u \notin back' => \A w \in Workers : WillShow(queue'[u], view'[u], w) => Has(w, gone)
      <4>1. \A w : Has(w, here) => Has(w, gone)
        BY DEF Has
      <4>2. QED
        BY <2>3, <3>1, <3>3, <4>1 DEF ScreenInv, Held
    <3>5. \A v \in Uis : v # u => /\ uipc'[v] = uipc[v] /\ queue'[v] = queue[v]
                                  /\ view'[v] = view[v]
                                  /\ v \in lagged' <=> v \in lagged
                                  /\ v \in back' <=> v \in back
      BY <2>3, <3>1
    <3>6. Announced' /\ Truthful'
      BY <2>4, <3>3, <3>4, <3>5
    <3>7. ScreenTypes'
      <4>1. view' \in [Uis -> SUBSET Workers]
        BY <1>0, <2>3, <3>1
      <4>2. QED
        BY <2>0, <2>3, <3>1, <4>1 DEF ScreenInv, ScreenTypes
    <3>8. QED
      BY <2>2, <3>6, <3>7 DEF ScreenInv
  <2>6. CASE Subscribe(u)
    <3>1. /\ uipc[u] = "listing" /\ uipc' = [uipc EXCEPT ![u] = "on"]
          /\ UNCHANGED <<queue, view, lagged, back>>
      BY <2>6 DEF Subscribe
    <3>2. Following' = Following
      BY <2>3, <3>1 DEF Following
    <3>3. Announced' /\ Truthful'
      BY <2>0, <2>1, <3>1, <3>2 DEF ScreenInv, Announced, Truthful
    <3>4. ScreenTypes'
      BY <2>0, <2>3, <3>1 DEF ScreenInv, ScreenTypes
    <3>5. QED
      BY <2>2, <3>3, <3>4 DEF ScreenInv
  <2>7. CASE Deliver(u)
    <3>1. /\ queue[u] # <<>> /\ view' = [view EXCEPT ![u] = Shown(@, Head(queue[u]))]
          /\ queue' = [queue EXCEPT ![u] = Tail(@)] /\ UNCHANGED <<uipc, lagged, back>>
      BY <2>7 DEF Deliver
    <3>2. /\ view'[u] = Shown(view[u], Head(queue[u])) /\ queue'[u] = Tail(queue[u])
          /\ Head(queue[u]) \in Events /\ Tail(queue[u]) \in Seq(Events)
          /\ uipc[u] = "on"
      BY <2>3, <3>1
    <3>3. \A w : WillShow(queue'[u], view'[u], w) <=> WillShow(queue[u], view[u], w)
      BY <2>3, <3>1, <3>2, ShowTake
    <3>4. u \in Following' => u \in Following
      BY <3>1 DEF Following
    <3>5. u \in Following' => \A w \in listed \ clashed :
            ~Has(w, {"registered"}) => WillShow(queue'[u], view'[u], w)
      BY <3>3, <3>4 DEF ScreenInv, Announced
    <3>6. u \in Following' /\ u \notin back' =>
            \A w \in Workers : WillShow(queue'[u], view'[u], w) => Has(w, gone)
      BY <3>1, <3>3, <3>4 DEF ScreenInv, Truthful
    <3>7. \A v \in Uis : v # u => /\ uipc'[v] = uipc[v] /\ queue'[v] = queue[v]
                                  /\ view'[v] = view[v]
                                  /\ v \in lagged' <=> v \in lagged
                                  /\ v \in back' <=> v \in back
      BY <2>3, <3>1
    <3>8. Announced' /\ Truthful'
      BY <2>4, <3>5, <3>6, <3>7
    <3>9. ScreenTypes'
      <4>1. Shown(view[u], Head(queue[u])) \in SUBSET Workers
        <5>1. view[u] \in SUBSET Workers
          BY <2>3
        <5>2. \A e \in Events : e.id \in Workers /\ e.type \in {"connected", "disconnected", "event"}
          BY DEF Events
        <5>3. \A e \in Events : Shown(view[u], e) \in SUBSET Workers
          BY <5>1, <5>2 DEF Shown
        <5>4. QED
          BY <3>2, <5>3
      <4>2. view' \in [Uis -> SUBSET Workers] /\ queue' \in [Uis -> Seq(Events)]
        BY <2>3, <3>1, <3>2, <4>1
      <4>3. QED
        BY <2>0, <2>3, <3>1, <3>2, <4>2 DEF ScreenInv, ScreenTypes
    <3>10. QED
      BY <2>2, <3>8, <3>9 DEF ScreenInv
  <2>8. CASE DropEvent(u)
    <3>1. /\ queue[u] # <<>> /\ queue' = [queue EXCEPT ![u] = Tail(@)]
          /\ lagged' = lagged \cup {u} /\ UNCHANGED <<uipc, view, back>>
      BY <2>8 DEF DropEvent
    <3>2. u \notin Following' /\ Tail(queue[u]) \in Seq(Events) /\ uipc[u] = "on"
      BY <2>3, <3>1 DEF Following
    <3>3. \A v \in Uis : v # u => /\ uipc'[v] = uipc[v] /\ queue'[v] = queue[v]
                                  /\ view'[v] = view[v]
                                  /\ v \in lagged' <=> v \in lagged
                                  /\ v \in back' <=> v \in back
      BY <2>3, <3>1
    <3>4. Announced' /\ Truthful'
      BY <2>4, <3>2, <3>3
    <3>5. ScreenTypes'
      BY <2>0, <2>3, <3>1, <3>2 DEF ScreenInv, ScreenTypes
    <3>6. QED
      BY <2>2, <3>4, <3>5 DEF ScreenInv
  <2>9. CASE CloseUi(u) \/ LoseUi(u)
    <3>1. /\ uipc' = [uipc EXCEPT ![u] = "off"] /\ queue' = [queue EXCEPT ![u] = <<>>]
          /\ view' = [view EXCEPT ![u] = {}] \/ (view' = view /\ u \in back')
          /\ lagged' = lagged \/ lagged' = lagged \ {u}
          /\ back' = back \cup {u} \/ back' = back \ {u}
      BY <2>9 DEF CloseUi, LoseUi
    <3>2. u \notin Following'
      BY <2>3, <3>1 DEF Following
    <3>3. \A v \in Uis : v # u => /\ uipc'[v] = uipc[v] /\ queue'[v] = queue[v]
                                  /\ view'[v] = view[v]
                                  /\ v \in lagged' <=> v \in lagged
                                  /\ v \in back' <=> v \in back
      BY <2>3, <3>1
    <3>4. Announced' /\ Truthful'
      BY <2>4, <3>2, <3>3
    <3>5. ScreenTypes'
      <4>1. uipc'[u] = "off" /\ queue'[u] = <<>> /\ (view'[u] = {} \/ u \in back')
        BY <2>3, <3>1
      <4>2. /\ uipc' \in [Uis -> {"off", "listing", "on"}] /\ queue' \in [Uis -> Seq(Events)]
            /\ view' \in [Uis -> SUBSET Workers]
        BY <2>3, <3>1
      <4>3. QED
        BY <2>0, <3>3, <4>1, <4>2 DEF ScreenInv, ScreenTypes
    <3>6. QED
      BY <2>2, <3>4, <3>5 DEF ScreenInv
  <2>10. QED
    BY <1>10, <2>5, <2>6, <2>7, <2>8, <2>9
<1>11. CASE UNCHANGED vars
  BY <1>1, <1>11 DEF vars, worker
<1>12. QED
  <2>1. ASSUME NEW u \in Uis,
               \/ ListWorkers(u) \/ Subscribe(u) \/ Deliver(u) \/ DropEvent(u)
               \/ CloseUi(u) \/ LoseUi(u)
        PROVE  UNCHANGED worker
    BY <2>1 DEF ListWorkers, Subscribe, Deliver, DropEvent, CloseUi, LoseUi
  <2>2. QED
    BY <1>2, <1>3, <1>4, <1>5, <1>6, <1>7, <1>8, <1>9, <1>10, <1>11, <2>1 DEF Next, Handler

LEMMA Screens == Spec => [](RelayInv /\ ScreenInv)
<1>1. RelayInv /\ ScreenInv /\ [Next]_vars => (RelayInv /\ ScreenInv)'
  BY RelayStep, ScreenStep
<1>2. QED
  BY <1>1, InitRelay, InitScreen, PTL DEF Spec

\* A browser that is up to date has nothing left to take.
LEMMA UpToDateShows ==
  ASSUME NEW u \in UpToDate
  PROVE  u \in Following /\ \A w : WillShow(queue[u], view[u], w) <=> w \in view[u]
BY ShowNothing DEF UpToDate, Following

(***************************************************************************)
(* A browser that has taken every event and missed none shows every listed *)
(* worker, whatever sockets it lost: list_workers is sent before the       *)
(* browser is subscribed, and what happens in between makes it lag.        *)
(***************************************************************************)
THEOREM ListedIsShownAlways == Spec => []ListedIsShown
<1>1. ASSUME RelayInv, ScreenInv
      PROVE  ListedIsShown
  <2>1. ASSUME NEW u \in UpToDate, NEW w \in listed \ clashed
        PROVE  w \in view[u]
    <3>1. ~Has(w, {"registered"})
      BY <2>1 DEF UpToDate, Has
    <3>2. u \in Following
      BY <2>1, UpToDateShows
    <3>3. WillShow(queue[u], view[u], w)
      BY <1>1, <2>1, <3>1, <3>2 DEF ScreenInv, Announced
    <3>4. QED
      BY <2>1, <3>3, UpToDateShows
  <2>2. QED
    BY <2>1 DEF ListedIsShown
<1>2. QED
  BY <1>1, Screens, PTL

(***************************************************************************)
(* A browser that is up to date and kept its socket shows no worker but    *)
(* the listed ones: every entry on a screen has a handler that will take   *)
(* it off (handle_worker's clean-up and its WorkerDisconnected).           *)
(***************************************************************************)
THEOREM ShownIsListedAlways == Spec => []ShownIsListed
<1>1. ASSUME RelayInv, ScreenInv
      PROVE  ShownIsListed
  <2>1. ASSUME NEW u \in UpToDate \ back, NEW w \in view[u] \ clashed
        PROVE  w \in listed
    <3>1. u \in Following \ back /\ WillShow(queue[u], view[u], w)
      BY <2>1, UpToDateShows
    <3>2. w \in Workers
      BY <1>1, <2>1 DEF ScreenInv, ScreenTypes, UpToDate
    <3>3. PICK c \in Conns : of[c] = w /\ pc[c] \in {"registered", "relay", "left"}
      BY <1>1, <3>1, <3>2 DEF ScreenInv, Truthful, Has
    <3>4. pc[c] = "relay"
      BY <2>1, <3>3 DEF UpToDate
    <3>5. QED
      BY <1>1, <2>1, <3>3, <3>4 DEF RelayInv, Entered
  <2>2. QED
    BY <2>1 DEF ShownIsListed
<1>2. QED
  BY <1>1, Screens, PTL
=============================================================================
