----------------------------- MODULE SnapshotLock -----------------------------
(***************************************************************************)
(* The snapshot task of the servers (extremal-server/src/main.rs) and the  *)
(* advisory lock that is to keep it to one of them (Store::                *)
(* try_advisory_lock, advisory_unlock).  A PostgreSQL advisory lock belongs*)
(* to the session that took it, and counts how often it did; the store     *)
(* runs every query on whatever connection its pool hands out.             *)
(***************************************************************************)
EXTENDS Integers, FiniteSets

CONSTANTS
  Servers,    \* the instances on one database
  PoolSize,   \* connections of each (db_max_connections)
  MaxHeld     \* a bound: how often one session may have taken the lock

ASSUME PoolAssumption == PoolSize \in Nat \ {0} /\ MaxHeld \in Nat \ {0}

Conns == Servers \X (1..PoolSize)

VARIABLES
  held,       \* of each connection, how often its session holds the lock
  pc,         \* of each server's task: "sleep", "capture" or "unlock"
  broken      \* the servers whose locking session ended as they captured (history)

vars == <<held, pc, broken>>

Init ==
  /\ held = [c \in Conns |-> 0]
  /\ pc = [s \in Servers |-> "sleep"]
  /\ broken = {}

Goto(s, from, to) == pc[s] = from /\ pc' = [pc EXCEPT ![s] = to]

\* A mutant of Available: the answer of pg_try_advisory_lock is ignored.
AvailableAlways(c) == held[c] < MaxHeld

\* pg_try_advisory_lock: no other session has it.
Available(c) ==
  /\ \A d \in Conns \ {c} : held[d] = 0
  /\ held[c] < MaxHeld

\* Ten minutes have passed, and the pool's connection gets the lock.
Lock(s) ==
  /\ Goto(s, "sleep", "capture")
  /\ \E i \in 1..PoolSize :
       /\ Available(<<s, i>>)
       /\ held' = [held EXCEPT ![<<s, i>>] = @ + 1]
  /\ UNCHANGED broken

\* "another instance holds the lock, skipping": or the query failed, which counts
\* as no (unwrap_or(false)).
Skip(s) ==
  /\ Goto(s, "sleep", "sleep")
  /\ UNCHANGED <<held, broken>>

\* list_leaderboard_ns, and capture_snapshot for each: errors are logged.
Capture(s) ==
  /\ Goto(s, "capture", "unlock")
  /\ broken' = broken \ {s}
  /\ UNCHANGED held

\* A mutant of Unlock: the task waits for the answer and never gets it.
UnlockHangs(s) == pc[s] = "unlock" /\ UNCHANGED vars

\* pg_advisory_unlock on the connection at hand, which may be another one: then
\* it releases nothing.  Its answer, or its error, is ignored.
Unlock(s) ==
  /\ Goto(s, "unlock", "sleep")
  /\ \E i \in 1..PoolSize :
       held' = [held EXCEPT ![<<s, i>>] = IF @ > 0 THEN @ - 1 ELSE 0]
  /\ UNCHANGED broken

\* idle_timeout (10 min), max_lifetime (30 min), or a broken connection: the session
\* ends, whatever it had locked.
Recycle(c) ==
  /\ held[c] > 0
  /\ held' = [held EXCEPT ![c] = 0]
  /\ broken' = broken \cup {s \in {c[1]} : pc[s] = "capture"}
  /\ UNCHANGED pc

\* The instance stops or dies, and another takes its place.
Restart(s) ==
  /\ pc' = [pc EXCEPT ![s] = "sleep"]
  /\ held' = [c \in Conns |-> IF c[1] = s THEN 0 ELSE held[c]]
  /\ broken' = broken \ {s}

Task(s) == Lock(s) \/ Skip(s) \/ Capture(s) \/ Unlock(s)

Next ==
  \/ \E s \in Servers : Task(s) \/ Restart(s)
  \/ \E c \in Conns : Recycle(c)

Spec == Init /\ [][Next]_vars

\* The task goes on, and wakes up while the lock is to be had; a connection does
\* not live longer than max_lifetime.
FairSpec ==
  /\ Spec
  /\ \A s \in Servers : WF_vars(Lock(s)) /\ WF_vars(Capture(s)) /\ WF_vars(Unlock(s))
  /\ \A c \in Conns : WF_vars(Recycle(c))

-----------------------------------------------------------------------------
\* The types; no session gives back a lock it does not hold.
TypeOK ==
  /\ held \in [Conns -> 0..MaxHeld]
  /\ pc \in [Servers -> {"sleep", "capture", "unlock"}]
  /\ broken \subseteq {s \in Servers : pc[s] = "capture"}

(***************************************************************************)
(* "only one instance runs snapshots": although the unlock may run on      *)
(* another session than the lock, and leave it taken, no two servers       *)
(* capture at a time, but for those whose locking session the pool closed  *)
(* under them: it lies idle there as long as the capture lasts.            *)
(***************************************************************************)
OneCaptures == Cardinality({s \in Servers : pc[s] = "capture" /\ s \notin broken}) <= 1

(***************************************************************************)
(* An unlock on the wrong connection leaves the lock behind, in a session  *)
(* that nobody asks again; it does not stop the snapshots for ever.        *)
(***************************************************************************)
CapturesGoOn == []<>(\E s \in Servers : pc[s] = "capture")
=============================================================================
