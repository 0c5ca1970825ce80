----------------------------- MODULE ControlProofs -----------------------------
(***************************************************************************)
(* Proofs about EngineControl, for any clients, capacity of the channel    *)
(* and number of calls.                                                    *)
(***************************************************************************)
EXTENDS EngineControl, TLAPS

Update(c) == [cmd |-> "update", from |-> c]

\* Nobody has two updates in the channel.
OneEach ==
  pc # "ended" => \A c \in Clients : \A i, j \in DOMAIN queue :
    queue[i] = Update(c) /\ queue[j] = Update(c) => i = j

ControlInv == TypeOK /\ AwaitedIsQueued /\ OneEach

LEMMA InitControl == Init => ControlInv
<1> SUFFICES ASSUME Init
             PROVE  ControlInv
  OBVIOUS
<1>1. <<>> \in Seq([cmd : Commands, from : Clients]) /\ Len(<<>>) = 0
  OBVIOUS
<1>2. TypeOK
  <2>1. queue \in Seq([cmd : Commands, from : Clients])
    BY <1>1 DEF Init
  <2>2. Len(queue) <= QueueSize /\ calls \in 0..MaxCalls
    BY <1>1, QueueAssumption DEF Init
  <2>3. /\ request \in [Clients -> {"none", "sending", "awaiting"}]
        /\ wish \in [Clients -> Commands]
    BY DEF Init, Commands
  <2>4. QED
    BY <2>1, <2>2, <2>3 DEF Init, TypeOK
<1>3. DOMAIN queue = {}
  BY DEF Init
<1>4. QED
  BY <1>2, <1>3 DEF Init, ControlInv, AwaitedIsQueued, OneEach

\* A step that leaves the channel and the requests alone.
LEMMA QuietControl ==
  ASSUME ControlInv, TypeOK', UNCHANGED <<queue, request>>, pc' # "ended" => pc # "ended"
  PROVE  ControlInv'
BY DEF ControlInv, AwaitedIsQueued, OneEach

LEMMA SendControl ==
  ASSUME ControlInv, NEW c \in Clients, Send(c)
  PROVE  ControlInv'
<1> DEFINE e == [cmd |-> wish[c], from |-> c]
           n == Len(queue)
<1>1. /\ queue \in Seq([cmd : Commands, from : Clients]) /\ wish[c] \in Commands
      /\ e \in [cmd : Commands, from : Clients]
      /\ request \in [Clients -> {"none", "sending", "awaiting"}]
  BY DEF ControlInv, TypeOK
<1>2. /\ request[c] = "sending" /\ pc # "ended" /\ pc' = pc /\ n < QueueSize
      /\ queue' = Append(queue, e) /\ UNCHANGED <<state, snapshot, shutdown, wish, calls>>
      /\ request' = [request EXCEPT ![c] = IF wish[c] = "update" THEN "awaiting" ELSE "none"]
      /\ accepted' = IF wish[c] = "update" THEN accepted ELSE wish[c]
  BY DEF Send
<1>3. e.from = c /\ (e = Update(c) <=> wish[c] = "update")
      /\ \A d \in Clients : d # c => e # Update(d)
  BY DEF Update
<1> HIDE DEF e
<1>4. /\ n \in Nat /\ queue' \in Seq([cmd : Commands, from : Clients]) /\ Len(queue') = n + 1
      /\ DOMAIN queue = 1..n /\ DOMAIN queue' = 1..(n + 1)
      /\ queue'[n + 1] = e /\ \A i \in 1..n : queue'[i] = queue[i]
  BY <1>1, <1>2
<1> HIDE DEF n
<1>5. /\ \A i \in 1..n : i \in 1..(n + 1)
      /\ \A i \in 1..(n + 1) : i \in 1..n \/ i = n + 1
      /\ n + 1 \in 1..(n + 1)
  BY <1>4
<1>6. TypeOK'
  <2>1. Len(queue') <= QueueSize
    BY <1>2, <1>4, QueueAssumption
  <2>2. request' \in [Clients -> {"none", "sending", "awaiting"}]
    BY <1>1, <1>2
  <2>3. accepted' \in Commands \cup {"none"}
    BY <1>1, <1>2 DEF ControlInv, TypeOK
  <2>4. QED
    BY <1>2, <1>4, <2>1, <2>2, <2>3 DEF ControlInv, TypeOK
<1>7. \A i \in 1..n : queue[i] # Update(c)
  BY <1>2, <1>4 DEF ControlInv, AwaitedIsQueued, Update
<1>8. AwaitedIsQueued'
  <2>1. ASSUME NEW d \in Clients
        PROVE  request'[d] = "awaiting" <=> \E i \in 1..(n + 1) : queue'[i] = Update(d)
    <3>1. CASE d = c
      <4>1. request'[c] = "awaiting" <=> wish[c] = "update"
        BY <1>1, <1>2
      <4>2. (\E i \in 1..(n + 1) : queue'[i] = Update(c)) <=> e = Update(c)
        BY <1>4, <1>5, <1>7
      <4>3. QED
        BY <1>3, <3>1, <4>1, <4>2
    <3>2. CASE d # c
      <4>1. request'[d] = request[d]
        BY <1>1, <1>2, <3>2
      <4>2. (\E i \in 1..(n + 1) : queue'[i] = Update(d)) <=> (\E i \in 1..n : queue[i] = Update(d))
        BY <1>3, <1>4, <1>5, <3>2
      <4>3. request[d] = "awaiting" <=> \E i \in 1..n : queue[i] = Update(d)
        BY <1>2, <1>4 DEF ControlInv, AwaitedIsQueued, Update
      <4>4. QED
        BY <4>1, <4>2, <4>3
    <3>3. QED
      BY <3>1, <3>2
  <2>2. QED
    BY <1>4, <2>1 DEF AwaitedIsQueued, Update
<1>9. OneEach'
  <2>1. ASSUME NEW d \in Clients, NEW i \in 1..(n + 1), NEW j \in 1..(n + 1),
               queue'[i] = Update(d), queue'[j] = Update(d)
        PROVE  i = j
    <3>1. CASE d = c
      BY <1>4, <1>5, <1>7, <2>1, <3>1
    <3>2. CASE d # c
      <4>1. i \in 1..n /\ j \in 1..n /\ queue[i] = Update(d) /\ queue[j] = Update(d)
        BY <1>3, <1>4, <1>5, <2>1, <3>2
      <4>2. QED
        BY <1>2, <1>4, <4>1 DEF ControlInv, OneEach
    <3>3. QED
      BY <3>1, <3>2
  <2>2. QED
    BY <1>4, <2>1 DEF OneEach, Update
<1>10. QED
  BY <1>6, <1>8, <1>9 DEF ControlInv

LEMMA TakeControl ==
  ASSUME ControlInv, Take, TypeOK', pc # "ended"
  PROVE  ControlInv'
<1> DEFINE Es == [cmd : Commands, from : Clients]
           e == Head(queue)
           n == Len(queue)
<1>1. /\ queue \in Seq(Es) /\ queue # <<>>
      /\ request \in [Clients -> {"none", "sending", "awaiting"}]
      /\ queue' = Tail(queue)
      /\ request' = IF e.cmd = "update" THEN [request EXCEPT ![e.from] = "none"] ELSE request
  BY DEF ControlInv, TypeOK, Take
<1>2. /\ n \in Nat \ {0} /\ DOMAIN queue = 1..n /\ DOMAIN queue' = 1..(n - 1)
      /\ \A i \in 1..(n - 1) : queue'[i] = queue[i + 1]
      /\ queue[1] = e /\ e \in Es
  <2> HIDE DEF Es
  <2>1. QED
    BY <1>1
<1>3. e.from \in Clients /\ (e.cmd = "update" <=> e = Update(e.from))
      /\ \A d \in Clients : e = Update(d) => d = e.from
  BY <1>2 DEF Update
<1> HIDE DEF e, n
<1>4. /\ \A i \in 1..(n - 1) : i + 1 \in 1..n /\ i + 1 # 1
      /\ \A i \in 1..n : i = 1 \/ (i - 1 \in 1..(n - 1) /\ (i - 1) + 1 = i)
      /\ 1 \in 1..n
  BY <1>2
<1>5. \A d \in Clients : request[d] = "awaiting" <=> \E i \in 1..n : queue[i] = Update(d)
  BY <1>2 DEF ControlInv, AwaitedIsQueued, Update
<1>6. \A d \in Clients : \A i, j \in 1..n : queue[i] = Update(d) /\ queue[j] = Update(d) => i = j
  BY <1>2 DEF ControlInv, OneEach
<1>7. ASSUME NEW d \in Clients
      PROVE  request'[d] = "awaiting" <=> \E i \in 1..(n - 1) : queue'[i] = Update(d)
  <2>1. (\E i \in 1..(n - 1) : queue'[i] = Update(d))
          <=> (\E i \in 1..n : i # 1 /\ queue[i] = Update(d))
    <3>1. ASSUME NEW i \in 1..n, i # 1, queue[i] = Update(d)
          PROVE  \E k \in 1..(n - 1) : queue'[k] = Update(d)
      <4>1. i - 1 \in 1..(n - 1) /\ queue'[i - 1] = Update(d)
        BY <1>2, <1>4, <3>1
      <4>2. QED
        BY <4>1
    <3>2. ASSUME NEW i \in 1..(n - 1), queue'[i] = Update(d)
          PROVE  \E k \in 1..n : k # 1 /\ queue[k] = Update(d)
      BY <1>2, <1>4, <3>2
    <3>3. QED
      BY <3>1, <3>2
  <2>2. CASE e = Update(d)
    <3>1. request'[d] = "none"
      BY <1>1, <1>3, <2>2
    <3>2. ~\E i \in 1..n : i # 1 /\ queue[i] = Update(d)
      BY <1>2, <1>4, <1>6, <2>2
    <3>3. QED
      BY <2>1, <3>1, <3>2
  <2>3. CASE e # Update(d)
    <3>1. request'[d] = request[d]
      BY <1>1, <1>3, <2>3
    <3>2. (\E i \in 1..n : i # 1 /\ queue[i] = Update(d)) <=> \E i \in 1..n : queue[i] = Update(d)
      BY <1>2, <2>3
    <3>3. QED
      BY <1>5, <2>1, <3>1, <3>2
  <2>4. QED
    BY <2>2, <2>3
<1>8. AwaitedIsQueued'
  BY <1>2, <1>7 DEF AwaitedIsQueued, Update
<1>9. OneEach'
  <2>1. ASSUME NEW d \in Clients, NEW i \in 1..(n - 1), NEW j \in 1..(n - 1),
               queue'[i] = Update(d), queue'[j] = Update(d)
        PROVE  i = j
    <3>1. i + 1 = j + 1
      BY <1>2, <1>4, <1>6, <2>1
    <3>2. QED
      BY <1>2, <3>1
  <2>2. QED
    BY <1>2, <2>1 DEF OneEach, Update
<1>10. QED
  BY <1>8, <1>9 DEF ControlInv

LEMMA TypeStep == TypeOK /\ [Next]_vars => TypeOK'
<1> SUFFICES ASSUME TypeOK, [Next]_vars
             PROVE  TypeOK'
  OBVIOUS
<1> DEFINE Es == [cmd : Commands, from : Clients]
<1>1. queue \in Seq(Es) /\ Len(queue) \in Nat
  BY DEF TypeOK
<1>2. ASSUME NEW c \in Clients, NEW cmd \in Commands, Call(c, cmd)
      PROVE  TypeOK'
  <2>1. calls' \in 0..MaxCalls
    BY <1>2, QueueAssumption DEF Call, TypeOK
  <2>2. QED
    BY <1>2, <2>1 DEF Call, TypeOK, engine
<1>3. ASSUME NEW c \in Clients, Send(c)
      PROVE  TypeOK'
  <2> DEFINE e == [cmd |-> wish[c], from |-> c]
  <2>1. e \in Es /\ queue' = Append(queue, e) /\ Len(queue) < QueueSize
    BY <1>3 DEF Send, TypeOK
  <2> HIDE DEF e
  <2>2. queue' \in Seq(Es) /\ Len(queue') <= QueueSize
    <3> HIDE DEF Es
    <3>1. queue' \in Seq(Es) /\ Len(queue') = Len(queue) + 1
      BY <1>1, <2>1
    <3>2. QED
      BY <1>1, <2>1, <3>1, QueueAssumption
  <2>3. QED
    BY <1>3, <2>2 DEF Send, TypeOK
<1>4. ASSUME NEW c \in Clients, Refused(c)
      PROVE  TypeOK'
  BY <1>4 DEF Refused, TypeOK, engine
<1>5. CASE CtrlC
  BY <1>5 DEF CtrlC, TypeOK, engine
<1>6. ASSUME Take
      PROVE  /\ queue' \in Seq(Es) /\ Len(queue') <= QueueSize
             /\ request' \in [Clients -> {"none", "sending", "awaiting"}]
             /\ Head(queue).cmd \in Commands
  <2>1. queue # <<>> /\ queue' = Tail(queue) /\ Len(queue) <= QueueSize
    BY <1>6 DEF Take, TypeOK
  <2>2. Head(queue) \in Es
    <3> HIDE DEF Es
    <3>1. QED
      BY <1>1, <2>1
  <2>3. queue' \in Seq(Es) /\ Len(queue') = Len(queue) - 1
    <3> HIDE DEF Es
    <3>1. QED
      BY <1>1, <2>1
  <2>4. QED
    BY <1>1, <1>6, <2>1, <2>2, <2>3, QueueAssumption DEF Take, TypeOK
<1>7. \A cmd \in Commands : StateAfter(cmd) \in {"searching", "paused", "idle"}
  BY DEF StateAfter, Commands, TypeOK
<1>8. CASE TakeCommand
  BY <1>6, <1>7, <1>8 DEF TakeCommand, TypeOK
<1>9. CASE PausedCommand
  <2>1. pc' \in {"round", "ended", "paused"}
    <3>1. Head(queue).cmd \in {"pause", "resume", "stop", "update"}
      BY <1>6, <1>9 DEF PausedCommand, Commands
    <3>2. QED
      BY <1>9, <3>1 DEF PausedCommand
  <2>2. QED
    BY <1>6, <1>7, <1>9, <2>1 DEF PausedCommand, TypeOK
<1>10. CASE NoMoreCommands
  <2>1. pc' \in {"paused", "ended", "round"}
    BY <1>10 DEF NoMoreCommands, TypeOK
  <2>2. QED
    BY <1>10, <2>1 DEF NoMoreCommands, TypeOK
<1>11. CASE Top \/ PausedShutdown \/ EndRound \/ RoundPanics
  BY <1>11 DEF Top, PausedShutdown, EndRound, RoundPanics, TypeOK
<1>12. CASE UNCHANGED vars
  BY <1>12 DEF vars, engine, TypeOK
<1>13. QED
  BY <1>2, <1>3, <1>4, <1>5, <1>8, <1>9, <1>10, <1>11, <1>12 DEF Next, Step

LEMMA ControlStep == ControlInv /\ [Next]_vars => ControlInv'
<1> SUFFICES ASSUME ControlInv, [Next]_vars
             PROVE  ControlInv'
  OBVIOUS
<1>1. TypeOK'
  BY TypeStep DEF ControlInv
<1>2. ASSUME NEW c \in Clients, NEW cmd \in Commands, Call(c, cmd)
      PROVE  ControlInv'
  <2>1. /\ request[c] = "none" /\ request' = [request EXCEPT ![c] = "sending"]
        /\ UNCHANGED <<pc, queue>>
    BY <1>2 DEF Call, engine
  <2>2. \A d \in Clients : request'[d] = "awaiting" <=> request[d] = "awaiting"
    BY <2>1 DEF ControlInv, TypeOK
  <2>3. QED
    BY <1>1, <2>1, <2>2 DEF ControlInv, AwaitedIsQueued, OneEach
<1>3. ASSUME NEW c \in Clients, Refused(c)
      PROVE  ControlInv'
  BY <1>1, <1>3 DEF Refused, engine, ControlInv, AwaitedIsQueued, OneEach
<1>4. CASE CtrlC
  BY <1>1, <1>4, QuietControl DEF CtrlC, engine
<1>5. CASE TakeCommand \/ PausedCommand
  BY <1>1, <1>5, TakeControl DEF TakeCommand, PausedCommand
<1>6. CASE Top \/ NoMoreCommands \/ PausedShutdown \/ EndRound \/ RoundPanics
  BY <1>1, <1>6, QuietControl DEF Top, NoMoreCommands, PausedShutdown, EndRound, RoundPanics
<1>7. CASE UNCHANGED vars
  BY <1>1, <1>7, QuietControl DEF vars, engine
<1>8. QED
  BY <1>2, <1>3, <1>4, <1>5, <1>6, <1>7, SendControl DEF Next, Step

(***************************************************************************)
(* While the engine runs, the callers of update_config that wait for a     *)
(* reply are those whose update is in the command channel: neither a pause *)
(* nor either of the two loops that take commands loses a reply handle.    *)
(***************************************************************************)
THEOREM AwaitedIsQueuedAlways == Spec => []AwaitedIsQueued
<1>1. ControlInv => AwaitedIsQueued
  BY DEF ControlInv
<1>2. QED
  BY <1>1, InitControl, ControlStep, PTL DEF Spec

(***************************************************************************)
(* While the engine is paused, the snapshot that GET status serves says    *)
(* so: it is published before the engine waits, and by nobody else while   *)
(* it does.                                                                *)
(***************************************************************************)
THEOREM PausedIsShownAlways == Spec => []PausedIsShown
<1> DEFINE Inv == TypeOK /\ PausedIsShown
<1>1. Init => Inv
  BY InitControl DEF Init, ControlInv, PausedIsShown
<1>2. ASSUME Inv, [Next]_vars
      PROVE  PausedIsShown'
  <2>1. CASE Top \/ EndRound \/ RoundPanics \/ PausedShutdown
    BY <2>1 DEF Top, EndRound, RoundPanics, PausedShutdown, PausedIsShown
  <2>2. CASE NoMoreCommands
    <3>1. pc' = "paused" => state = "paused"
      BY <1>2, <2>2 DEF NoMoreCommands, TypeOK
    <3>2. QED
      BY <2>2, <3>1 DEF NoMoreCommands, PausedIsShown
  <2>3. CASE TakeCommand \/ PausedCommand \/ UNCHANGED <<pc, snapshot>>
    BY <1>2, <2>3 DEF TakeCommand, PausedCommand, PausedIsShown
  <2>4. QED
    BY <1>2, <2>1, <2>2, <2>3 DEF Next, Step, Call, Send, Refused, CtrlC, vars, engine
<1>3. Inv /\ [Next]_vars => Inv'
  BY <1>2, TypeStep
<1>4. QED
  BY <1>1, <1>3, PTL DEF Spec
=============================================================================
