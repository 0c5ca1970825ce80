--------------------------- MODULE TelemetryProofs ---------------------------
(***************************************************************************)
(* Proofs about Telemetry, for any size of the queue and any backoff.      *)
(***************************************************************************)
EXTENDS Telemetry, SequenceTheorems, FiniteSetTheorems, FunctionTheorems, TLAPS

\* A late message on its way finds no other in the queue.
QueueInv ==
  /\ queue \in Seq(BOOLEAN)
  /\ FreshAfterDrain

LEMMA InitQueue == Init => QueueInv
BY DEF Init, QueueInv, FreshAfterDrain

LEMMA TrySendQueue == QueueInv /\ TrySend => QueueInv'
<1> SUFFICES ASSUME QueueInv, TrySend
             PROVE  QueueInv'
  OBVIOUS
<1> DEFINE late == sender = "late"
<1>1. late \in BOOLEAN /\ sender' = "idle" /\ queue \in Seq(BOOLEAN)
  BY DEF TrySend, QueueInv
<1>2. CASE queue' = queue
  BY <1>1, <1>2 DEF QueueInv, FreshAfterDrain
<1>3. CASE queue' = Append(queue, late)
  <2>1. /\ queue' \in Seq(BOOLEAN) /\ Len(queue) \in Nat
        /\ DOMAIN queue = 1..Len(queue)
        /\ DOMAIN queue' = 1..(Len(queue) + 1)
        /\ queue'[Len(queue) + 1] = late
        /\ \A i \in 1..Len(queue) : queue'[i] = queue[i]
    BY <1>1, <1>3
  <2>2. late => \A i \in DOMAIN queue : ~queue[i]
    BY DEF QueueInv, FreshAfterDrain
  <2>3. \A i, j \in DOMAIN queue : queue[i] /\ queue[j] => i = j
    BY DEF QueueInv, FreshAfterDrain
  <2>4. \A i, j \in DOMAIN queue' : queue'[i] /\ queue'[j] => i = j
    <3> SUFFICES ASSUME NEW i \in DOMAIN queue', NEW j \in DOMAIN queue', queue'[i], queue'[j]
                 PROVE  i = j
      OBVIOUS
    <3>1. CASE i \in DOMAIN queue /\ j \in DOMAIN queue
      BY <2>1, <2>3, <3>1
    <3>2. CASE i = Len(queue) + 1 /\ j = Len(queue) + 1
      BY <3>2
    <3>3. CASE i \in DOMAIN queue /\ j = Len(queue) + 1
      BY <2>1, <2>2, <3>3
    <3>4. CASE j \in DOMAIN queue /\ i = Len(queue) + 1
      BY <2>1, <2>2, <3>4
    <3>5. QED
      BY <2>1, <3>1, <3>2, <3>3, <3>4
  <2>5. QED
    BY <1>1, <2>1, <2>4 DEF QueueInv, FreshAfterDrain
<1>4. QED
  BY <1>2, <1>3 DEF TrySend

LEMMA ForwardQueue == QueueInv /\ Forward => QueueInv'
<1> SUFFICES ASSUME QueueInv, Forward
             PROVE  QueueInv'
  OBVIOUS
<1>1. queue \in Seq(BOOLEAN) /\ queue # <<>> /\ queue' = Tail(queue) /\ sender' = sender
  BY DEF QueueInv, Forward, engineVars
<1>2. /\ queue' \in Seq(BOOLEAN) /\ Len(queue) \in Nat
      /\ DOMAIN queue = 1..Len(queue)
      /\ DOMAIN queue' = 1..(Len(queue) - 1)
      /\ \A i \in 1..(Len(queue) - 1) : queue'[i] = queue[i + 1]
  BY <1>1
<1>3. \A i \in DOMAIN queue' : i \in Int /\ i + 1 \in DOMAIN queue /\ queue'[i] = queue[i + 1]
  BY <1>2
<1>4. \A i, j \in DOMAIN queue' : queue'[i] /\ queue'[j] => i = j
  <2> SUFFICES ASSUME NEW i \in DOMAIN queue', NEW j \in DOMAIN queue', queue'[i], queue'[j]
               PROVE  i = j
    OBVIOUS
  <2>1. i + 1 = j + 1
    BY <1>3 DEF QueueInv, FreshAfterDrain
  <2>2. QED
    BY <1>3, <2>1
<1>5. sender' = "late" => \A i \in DOMAIN queue' : ~queue'[i]
  BY <1>1, <1>3 DEF QueueInv, FreshAfterDrain
<1>6. QED
  BY <1>2, <1>4, <1>5 DEF QueueInv, FreshAfterDrain

LEMMA DrainQueue == QueueInv /\ Drain => QueueInv'
<1> SUFFICES ASSUME Drain
             PROVE  QueueInv'
  OBVIOUS
<1>1. queue' = [i \in DOMAIN <<>> |-> TRUE]
  BY DEF Drain, Drained
<1>2. DOMAIN queue' = {} /\ queue' = <<>>
  BY <1>1
<1>3. QED
  BY <1>2 DEF QueueInv, FreshAfterDrain

LEMMA StepQueue == QueueInv /\ [Next]_vars => QueueInv'
<1> SUFFICES ASSUME QueueInv, [Next]_vars
             PROVE  QueueInv'
  OBVIOUS
<1>1. CASE Check
  BY <1>1 DEF Check, QueueInv, FreshAfterDrain
<1>2. CASE queue' = queue /\ sender' = sender
  BY <1>2 DEF QueueInv, FreshAfterDrain
<1>3. CASE EngineEnds \/ SignalShutdown
  BY <1>2, <1>3 DEF EngineEnds, SignalShutdown
<1>4. CASE Top \/ ConnectFails \/ ConnectOk \/ HandshakeStep \/ HandshakeFails
  BY <1>2, <1>4 DEF Top, ConnectFails, ConnectOk, HandshakeStep, HandshakeFails, engineVars
<1>5. CASE RelayEnds \/ ChannelClosed \/ RelayShutdown \/ Lost \/ BeforeSleep \/ Sleep
  BY <1>2, <1>5 DEF RelayEnds, ChannelClosed, RelayShutdown, Lost, BeforeSleep, Sleep, engineVars
<1>6. CASE Pong \/ Sent \/ Closed
  BY <1>2, <1>6 DEF Pong, Sent, Closed, engineVars
<1>7. CASE UNCHANGED vars
  BY <1>2, <1>7 DEF vars, engineVars
<1>8. QED
  BY <1>1, <1>3, <1>4, <1>5, <1>6, <1>7, TrySendQueue, ForwardQueue, DrainQueue
     DEF Next, Engine, Own, Relay

(***************************************************************************)
(* What was queued before a pause is not sent after it, for any size of    *)
(* the queue: of the old messages, at most the one that was on its way     *)
(* when the queue was drained is ever in it (dashboard.rs, send and the    *)
(* drain after the backoff).                                               *)
(***************************************************************************)
THEOREM FreshAlways == FairSpec => []FreshAfterDrain
<1>1. Init => QueueInv
  BY InitQueue
<1>2. QueueInv /\ [Next]_vars => QueueInv'
  BY StepQueue
<1>3. QueueInv => FreshAfterDrain
  BY DEF QueueInv
<1>4. QED
  BY <1>1, <1>2, <1>3, PTL DEF FairSpec

-----------------------------------------------------------------------------
(* Powers of two *)

\* 2^n is the number of the subsets of 1..n.
LEMMA PowerCounts ==
  ASSUME NEW n \in Nat
  PROVE  2^n \in Nat /\ IsFiniteSet(SUBSET (1..n)) /\ Cardinality(SUBSET (1..n)) = 2^n
<1>1. IsFiniteSet(1..n) /\ Cardinality(1..n) = n
  BY FS_Interval
<1>2. IsFiniteSet(SUBSET (1..n)) /\ Cardinality(SUBSET (1..n)) = 2^Cardinality(1..n)
  BY <1>1, FS_SUBSET
<1>3. Cardinality(SUBSET (1..n)) = 2^n
  BY <1>1, <1>2
<1>4. Cardinality(SUBSET (1..n)) \in Nat
  BY <1>2, FS_CardinalityType
<1>5. QED
  BY <1>2, <1>3, <1>4

LEMMA PowerDoubles ==
  ASSUME NEW n \in Nat
  PROVE  2^(n + 1) = 2 * 2^n
<1> DEFINE S == SUBSET (1..n)
           T == (SUBSET (1..(n + 1))) \ S
           f == [s \in S |-> s \cup {n + 1}]
<1>1. f \in Bijection(S, T)
  <2>0. /\ \A x : x \in 1..(n + 1) <=> x \in 1..n \/ x = n + 1
        /\ n + 1 \notin 1..n
    OBVIOUS
  <2>1. \A s \in S : f[s] \in T /\ f[s] \ {n + 1} = s
    BY <2>0
  <2>2. \A t \in T : t \ {n + 1} \in S /\ f[t \ {n + 1}] = t
    BY <2>0
  <2>3. QED
    <3>1. f \in [S -> T]
      BY <2>1
    <3>2. \A a, b \in S : f[a] = f[b] => a = b
      BY <2>1
    <3>3. \A t \in T : \E s \in S : f[s] = t
      BY <2>2
    <3>4. QED
      BY <3>1, <3>2, <3>3, Zenon DEF Bijection, Injection, Surjection, IsInjective
<1>2. IsFiniteSet(S) /\ Cardinality(S) = 2^n /\ 2^n \in Nat
  BY PowerCounts
<1>3. IsFiniteSet(T) /\ Cardinality(T) = 2^n
  <2>1. ExistsBijection(S, T)
    BY <1>1 DEF ExistsBijection
  <2>2. QED
    BY <1>2, <2>1, FS_Bijection
<1>4. S \cap T = {} /\ S \cup T = SUBSET (1..(n + 1))
  <2>1. \A x : x \in 1..n => x \in 1..(n + 1)
    OBVIOUS
  <2>2. QED
    BY <2>1
<1>5. Cardinality(SUBSET (1..(n + 1))) = 2^(n + 1)
  <2>1. n + 1 \in Nat
    OBVIOUS
  <2>2. QED
    BY <2>1, PowerCounts
<1>6. Cardinality(S \cup T) = Cardinality(S) + Cardinality(T) - Cardinality(S \cap T)
  BY <1>2, <1>3, FS_Union
<1>7. Cardinality(S \cap T) = 0
  BY <1>4, FS_EmptySet
<1> HIDE DEF S, T
<1>8. \A p, q \in Nat : p = q + q - 0 => p = 2 * q
  OBVIOUS
<1>9. 2^(n + 1) = 2^n + 2^n - 0
  BY <1>2, <1>3, <1>4, <1>5, <1>6, <1>7
<1>10. 2^(n + 1) \in Nat
  <2>1. n + 1 \in Nat
    OBVIOUS
  <2>2. QED
    BY <2>1, PowerCounts
<1>11. QED
  BY <1>2, <1>8, <1>9, <1>10

LEMMA PowerGrows ==
  ASSUME NEW n \in Nat
  PROVE  2^n >= n + 1
<1> DEFINE f == [i \in 0..n |-> 1..i]
<1>1. \A i \in 0..n : f[i] \in SUBSET (1..n)
  OBVIOUS
<1>2. \A i, j \in 0..n : f[i] = f[j] => i = j
  <2>1. \A i \in 0..n : \A x \in Int : x \in f[i] <=> 1 <= x /\ x <= i
    OBVIOUS
  <2> HIDE DEF f
  <2>2. \A i, j \in 0..n : f[i] = f[j] => ~(i < j)
    <3> SUFFICES ASSUME NEW i \in 0..n, NEW j \in 0..n, f[i] = f[j], i < j
                 PROVE  FALSE
      OBVIOUS
    <3>1. j \in f[j] /\ j \notin f[i]
      BY <2>1
    <3>2. QED
      BY <3>1
  <2>3. QED
    BY <2>2
<1>3. f \in Injection(0..n, SUBSET (1..n))
  BY <1>1, <1>2, Zenon DEF Injection, IsInjective
<1>4. Cardinality(0..n) = n + 1
  BY FS_Interval
<1>5. QED
  BY <1>3, <1>4, PowerCounts, FS_Injection

LEMMA PowerZero == 2^0 = 1
<1>1. SUBSET (1..0) = {{}}
  OBVIOUS
<1>2. Cardinality({{}}) = 1
  BY FS_Singleton
<1>3. QED
  BY <1>1, <1>2, PowerCounts

-----------------------------------------------------------------------------
(* The pauses *)

\* The pause after k pauses.
Pause(k) == Min({MinBackoff * 2^k, MaxBackoff})

LEMMA MinOfTwo ==
  ASSUME NEW a \in Int, NEW b \in Int
  PROVE  Min({a, b}) = IF a <= b THEN a ELSE b
<1>1. PICK m \in {a, b} : \A y \in {a, b} : m <= y
  OBVIOUS
<1>2. Min({a, b}) \in {a, b} /\ \A y \in {a, b} : Min({a, b}) <= y
  BY <1>1, Zenon DEF Min
<1>3. QED
  BY <1>2

\* The pauses double, up to the cap, which is reached at the latest after as
\* many of them as it is high.
LEMMA PausesDouble ==
  ASSUME NEW k \in Nat
  PROVE  /\ Pause(k) \in Nat \ {0}
         /\ Pause(k + 1) = NextBackoff(Pause(k))
         /\ Pause(0) = MinBackoff
         /\ k + 1 >= MaxBackoff => Pause(k) = MaxBackoff
<1> DEFINE p == 2^k
           q == 2^(k + 1)
<1>1. p \in Nat /\ p >= k + 1 /\ q = 2 * p
  BY PowerCounts, PowerDoubles, PowerGrows
<1>2. MinBackoff \in Nat \ {0} /\ MaxBackoff \in Nat /\ MinBackoff <= MaxBackoff
  BY TelemetryAssumption
<1> HIDE DEF p, q
<1>3. MinBackoff * p \in Nat /\ MinBackoff * p >= p /\ MinBackoff * q = 2 * (MinBackoff * p)
  BY <1>1, <1>2
<1>4. MinBackoff * q \in Nat
  BY <1>3
<1>5. /\ Pause(k) = IF MinBackoff * p <= MaxBackoff THEN MinBackoff * p ELSE MaxBackoff
      /\ Pause(k + 1) = IF MinBackoff * q <= MaxBackoff THEN MinBackoff * q ELSE MaxBackoff
  BY <1>2, <1>3, <1>4, MinOfTwo DEF Pause, p, q
<1>6. Pause(k) \in Nat \ {0}
  BY <1>1, <1>2, <1>3, <1>5
<1>7. NextBackoff(Pause(k)) = IF 2 * Pause(k) <= MaxBackoff THEN 2 * Pause(k) ELSE MaxBackoff
  BY <1>2, <1>6, MinOfTwo DEF NextBackoff
<1>8. Pause(k + 1) = NextBackoff(Pause(k))
  BY <1>2, <1>3, <1>4, <1>5, <1>6, <1>7
<1>9. Pause(0) = MinBackoff
  BY <1>2, PowerZero, MinOfTwo DEF Pause
<1>10. k + 1 >= MaxBackoff => Pause(k) = MaxBackoff
  BY <1>1, <1>2, <1>3, <1>5
<1>11. QED
  BY <1>6, <1>8, <1>9, <1>10

\* The backoff is the pause that the pauses since the last connection lead to,
\* and an attempt that opened none is followed by a pause before the next.
BackoffInv ==
  /\ sleeps \in 0..MaxBackoff /\ rested \in Nat /\ opened \in BOOLEAN
  /\ backoff = Pause(sleeps)
  /\ rested > 0 => sleeps > 0 /\ rested = Pause(sleeps - 1)
  /\ ~opened /\ pc \in {"drain", "top"} => rested > 0
  /\ ~opened => pc \notin {"challenge", "register", "ack", "relay", "sending", "lost"}

LEMMA InitBackoff == Init => BackoffInv
BY PausesDouble, TelemetryAssumption DEF Init, BackoffInv

LEMMA SleepBackoff == BackoffInv /\ Sleep => BackoffInv'
<1> SUFFICES ASSUME BackoffInv, Sleep
             PROVE  BackoffInv'
  OBVIOUS
<1>1. /\ sleeps \in Nat /\ sleeps <= MaxBackoff /\ MaxBackoff \in Nat \ {0}
      /\ backoff = Pause(sleeps) /\ backoff' = NextBackoff(backoff) /\ rested' = backoff
      /\ pc' = "drain" /\ opened' = opened /\ opened \in BOOLEAN
      /\ sleeps' = Min({sleeps + 1, MaxBackoff})
  BY TelemetryAssumption DEF BackoffInv, Sleep, Goto
<1>2. sleeps' = IF sleeps + 1 <= MaxBackoff THEN sleeps + 1 ELSE MaxBackoff
  BY <1>1, MinOfTwo
<1>3. /\ backoff' = Pause(sleeps + 1) /\ rested' = Pause(sleeps) /\ rested' \in Nat \ {0}
  BY <1>1, PausesDouble
<1>4. CASE sleeps + 1 <= MaxBackoff
  <2>1. sleeps' = sleeps + 1 /\ sleeps' - 1 = sleeps /\ sleeps' \in 0..MaxBackoff
    BY <1>1, <1>2, <1>4
  <2>2. /\ backoff' = Pause(sleeps') /\ rested' = Pause(sleeps' - 1)
        /\ rested' \in Nat \ {0} /\ sleeps' > 0
    BY <1>1, <1>3, <2>1
  <2>3. QED
    BY <1>1, <2>1, <2>2 DEF BackoffInv
<1>5. CASE sleeps = MaxBackoff
  <2>1. sleeps' = MaxBackoff /\ sleeps' \in 0..MaxBackoff /\ sleeps' - 1 \in Nat
    BY <1>1, <1>2, <1>5
  <2>2. Pause(sleeps' - 1) = MaxBackoff
    BY <1>1, <2>1, PausesDouble
  <2>3. Pause(sleeps') = MaxBackoff /\ Pause(sleeps) = MaxBackoff
    BY <1>1, <1>5, <2>1, PausesDouble
  <2>4. Pause(sleeps + 1) = MaxBackoff
    <3>1. sleeps + 1 \in Nat /\ (sleeps + 1) + 1 >= MaxBackoff
      BY <1>1, <1>5
    <3>2. QED
      BY <3>1, PausesDouble
  <2>5. QED
    BY <1>1, <1>3, <2>1, <2>2, <2>3, <2>4 DEF BackoffInv
<1>6. QED
  BY <1>1, <1>4, <1>5

LEMMA StepBackoff == BackoffInv /\ [Next]_vars => BackoffInv'
<1> SUFFICES ASSUME BackoffInv, [Next]_vars
             PROVE  BackoffInv'
  OBVIOUS
<1>1. CASE UNCHANGED <<pc, backoff, history>>
  BY <1>1 DEF BackoffInv, history, Pause
<1>2. CASE Check \/ TrySend \/ EngineEnds \/ SignalShutdown \/ UNCHANGED vars
  BY <1>1, <1>2 DEF Check, TrySend, EngineEnds, SignalShutdown, vars
<1>3. CASE ConnectOk
  BY <1>3, PausesDouble, TelemetryAssumption DEF ConnectOk, Goto, BackoffInv
<1>4. CASE ConnectFails
  <2>1. /\ pc' = "backoff" /\ opened' = FALSE /\ rested' = 0
        /\ backoff' = backoff /\ sleeps' = sleeps
    BY <1>4 DEF ConnectFails, Goto
  <2>2. backoff' = Pause(sleeps')
    BY <2>1 DEF BackoffInv
  <2>3. sleeps' \in 0..MaxBackoff
    BY <2>1 DEF BackoffInv
  <2>4. rested' \in Nat /\ ~(rested' > 0)
    BY <2>1
  <2>5. opened' \in BOOLEAN
    BY <2>1, Zenon
  <2>6. pc' \notin {"drain", "top", "challenge", "register", "ack", "relay", "sending", "lost"}
    BY <2>1
  <2>7. QED
    BY <2>2, <2>3, <2>4, <2>5, <2>6 DEF BackoffInv
<1>5. ASSUME UNCHANGED <<backoff, history>>,
             pc' \in {"drain", "top"} => pc \in {"drain", "top"} \/ opened,
             pc' \in {"challenge", "register", "ack", "relay", "sending", "lost"} => opened
      PROVE  BackoffInv'
  BY <1>5 DEF BackoffInv, history, Pause
<1>6. CASE Top \/ HandshakeStep \/ HandshakeFails \/ Forward \/ Pong \/ Sent
  BY <1>5, <1>6 DEF Top, HandshakeStep, HandshakeFails, Forward, Pong, Sent, Goto, BackoffInv
<1>7. CASE RelayEnds \/ ChannelClosed \/ RelayShutdown \/ Closed \/ Lost \/ BeforeSleep \/ Drain
  BY <1>5, <1>7 DEF RelayEnds, ChannelClosed, RelayShutdown, Closed, Lost, BeforeSleep, Drain,
                    Goto, BackoffInv
<1>8. QED
  BY <1>2, <1>3, <1>4, <1>6, <1>7, SleepBackoff DEF Next, Engine, Own, Relay

(***************************************************************************)
(* A relay that cannot be reached is not hammered, whatever the first and  *)
(* the longest pause: after an attempt that opened no connection, the next *)
(* waits for a pause that has doubled with every one since a connection    *)
(* was last opened, up to the cap (dashboard.rs, backoff_ms).              *)
(***************************************************************************)
THEOREM NeverHammeredAlways == FairSpec => NeverHammered
<1>1. BackoffInv /\ [Next]_vars =>
        [Top /\ pc' = "connecting" =>
           /\ ~opened => rested > 0
           /\ rested > 0 => rested = Min({MinBackoff * 2^(sleeps - 1), MaxBackoff})]_vars
  BY DEF Top, Goto, BackoffInv, Pause
<1>2. QED
  BY <1>1, InitBackoff, StepBackoff, PTL DEF FairSpec, NeverHammered
=============================================================================
