-------------------------- MODULE SnapshotLockProofs --------------------------
(***************************************************************************)
(* Proofs about SnapshotLock, for any number of servers and any pool.      *)
(***************************************************************************)
EXTENDS SnapshotLock, FiniteSetTheorems, TLAPS

\* At most one session holds the lock, and one of a capturing server does, as long as
\* its session lives.
LockInv ==
  /\ TypeOK
  /\ \A c, d \in Conns : held[c] > 0 /\ held[d] > 0 => c = d
  /\ \A s \in Servers : pc[s] = "capture" /\ s \notin broken =>
                          \E i \in 1..PoolSize : held[<<s, i>>] > 0

LEMMA InitLock == Init => LockInv
BY PoolAssumption DEF Init, LockInv, TypeOK, Conns

LEMMA StepLock == LockInv /\ [Next]_vars => LockInv'
<1> SUFFICES ASSUME LockInv, [Next]_vars
             PROVE  LockInv'
  OBVIOUS
<1> USE PoolAssumption
<1>1. ASSUME NEW s \in Servers, Lock(s)
      PROVE  LockInv'
  <2> PICK i \in 1..PoolSize : Available(<<s, i>>) /\ held' = [held EXCEPT ![<<s, i>>] = @ + 1]
    BY <1>1 DEF Lock
  <2>1. <<s, i>> \in Conns
    BY DEF Conns
  <2>2. \A d \in Conns : d # <<s, i>> => held[d] = 0 /\ held'[d] = 0
    BY <2>1 DEF Available, LockInv, TypeOK
  <2>3. held'[<<s, i>>] \in 1..MaxHeld /\ held' \in [Conns -> 0..MaxHeld]
    BY <2>1 DEF Available, LockInv, TypeOK
  <2>4. \A z \in Servers \ {s} : pc[z] # "capture" \/ z \in broken
    <3> SUFFICES ASSUME NEW z \in Servers, z # s, pc[z] = "capture", z \notin broken
                 PROVE  FALSE
      OBVIOUS
    <3>1. PICK j \in 1..PoolSize : held[<<z, j>>] > 0
      BY DEF LockInv
    <3>2. <<z, j>> \in Conns /\ <<z, j>> # <<s, i>>
      BY DEF Conns
    <3>3. QED
      BY <2>2, <3>1, <3>2
  <2>5. /\ pc' \in [Servers -> {"sleep", "capture", "unlock"}]
        /\ \A z \in Servers \ {s} : pc'[z] # "capture" \/ z \in broken'
        /\ broken' \subseteq {z \in Servers : pc'[z] = "capture"}
    BY <1>1, <2>4 DEF Lock, Goto, LockInv, TypeOK
  <2>6. TypeOK'
    BY <2>3, <2>5 DEF TypeOK
  <2>7. \A c, d \in Conns : held'[c] > 0 /\ held'[d] > 0 => c = d
    BY <2>2
  <2>8. held'[<<s, i>>] > 0
    BY <2>3
  <2>9. QED
    BY <2>5, <2>6, <2>7, <2>8 DEF LockInv
<1>2. ASSUME NEW s \in Servers, Skip(s) \/ Capture(s)
      PROVE  LockInv'
  BY <1>2 DEF Skip, Capture, Goto, LockInv, TypeOK
<1>3. ASSUME NEW s \in Servers, Unlock(s)
      PROVE  LockInv'
  <2> PICK i \in 1..PoolSize : held' = [held EXCEPT ![<<s, i>>] = IF @ > 0 THEN @ - 1 ELSE 0]
    BY <1>3 DEF Unlock
  <2>1. held' \in [Conns -> 0..MaxHeld]
    BY DEF LockInv, TypeOK, Conns
  <2>2. \A d \in Conns : held'[d] > 0 => held[d] > 0
    BY DEF LockInv, TypeOK
  <2>3. \A z \in Servers, j \in 1..PoolSize : z # s => held'[<<z, j>>] = held[<<z, j>>]
    BY DEF LockInv, TypeOK, Conns
  <2>4. QED
    BY <1>3, <2>1, <2>2, <2>3 DEF Unlock, Goto, LockInv, TypeOK
<1>4. ASSUME NEW s \in Servers, Restart(s)
      PROVE  LockInv'
  <2>1. \A d \in Conns : held'[d] = IF d[1] = s THEN 0 ELSE held[d]
    BY <1>4 DEF Restart
  <2>2. \A z \in Servers, j \in 1..PoolSize : z # s => held'[<<z, j>>] = held[<<z, j>>]
    BY <2>1 DEF Conns
  <2>3. held' \in [Conns -> 0..MaxHeld]
    BY <1>4 DEF Restart, LockInv, TypeOK
  <2>4. /\ pc' \in [Servers -> {"sleep", "capture", "unlock"}]
        /\ \A z \in Servers : pc'[z] = "capture" => z # s /\ pc[z] = "capture"
        /\ broken' = broken \ {s} /\ broken' \subseteq {z \in Servers : pc'[z] = "capture"}
    BY <1>4 DEF Restart, LockInv, TypeOK
  <2>5. \A c, d \in Conns : held'[c] > 0 /\ held'[d] > 0 => c = d
    BY <2>1 DEF LockInv
  <2>6. \A z \in Servers : pc'[z] = "capture" /\ z \notin broken' => \E j \in 1..PoolSize : held'[<<z, j>>] > 0
    BY <2>2, <2>4 DEF LockInv
  <2>7. QED
    BY <2>3, <2>4, <2>5, <2>6 DEF LockInv, TypeOK
<1>5. ASSUME NEW c \in Conns, Recycle(c)
      PROVE  LockInv'
  <2>1. held' \in [Conns -> 0..MaxHeld] /\ \A d \in Conns : held'[d] = IF d = c THEN 0 ELSE held[d]
    BY <1>5 DEF Recycle, LockInv, TypeOK
  <2>2. pc' = pc /\ broken' = broken \cup {s \in {c[1]} : pc[s] = "capture"}
    BY <1>5 DEF Recycle
  <2>3. c[1] \in Servers
    BY DEF Conns
  <2>4. \A z \in Servers, j \in 1..PoolSize :
          pc[z] = "capture" /\ z \notin broken' => held'[<<z, j>>] = held[<<z, j>>]
    BY <2>1, <2>2 DEF Conns
  <2>5. broken' \subseteq {z \in Servers : pc'[z] = "capture"}
    BY <2>2, <2>3 DEF LockInv, TypeOK
  <2>6. QED
    BY <2>1, <2>2, <2>4, <2>5 DEF LockInv, TypeOK
<1>6. CASE UNCHANGED vars
  BY <1>6 DEF vars, LockInv, TypeOK
<1>7. QED
  BY <1>1, <1>2, <1>3, <1>4, <1>5, <1>6 DEF Next, Task

LEMMA AtMostOne ==
  ASSUME NEW S, \A x, y \in S : x = y
  PROVE  Cardinality(S) <= 1
<1>1. CASE S = {}
  BY <1>1, FS_EmptySet
<1>2. CASE S # {}
  <2>1. PICK x \in S : S = {x}
    BY <1>2
  <2>2. Cardinality({x}) = 1
    BY FS_Singleton
  <2>3. QED
    BY <2>1, <2>2
<1>3. QED
  BY <1>1, <1>2

LEMMA LockOne == LockInv => OneCaptures
<1> SUFFICES ASSUME LockInv
             PROVE  OneCaptures
  OBVIOUS
<1>1. \A s, z \in {x \in Servers : pc[x] = "capture" /\ x \notin broken} : s = z
  BY DEF LockInv, Conns
<1>2. Cardinality({x \in Servers : pc[x] = "capture" /\ x \notin broken}) <= 1
  BY <1>1, AtMostOne
<1>3. QED
  BY <1>2 DEF OneCaptures

(***************************************************************************)
(* "only one instance runs snapshots": no two servers capture at a time    *)
(* while the sessions that took the lock for them live, for any number of  *)
(* servers, any pools, whatever connections the locks and unlocks run on,  *)
(* and whenever the pools close one.                                       *)
(***************************************************************************)
THEOREM OneCapturesAlways == Spec => []OneCaptures
<1>1. Init => LockInv
  BY InitLock
<1>2. LockInv /\ [Next]_vars => LockInv'
  BY StepLock
<1>3. LockInv => OneCaptures
  BY LockOne
<1>4. QED
  BY <1>1, <1>2, <1>3, PTL DEF Spec
=============================================================================
