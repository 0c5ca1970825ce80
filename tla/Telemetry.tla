------------------------------ MODULE Telemetry ------------------------------
(***************************************************************************)
(* The worker's connection to the dashboard relay (dashboard.rs): a task   *)
(* that connects, registers and forwards what the engine queues, and that  *)
(* reconnects with a growing pause; and the engine's send, which looks at  *)
(* the flag "connected" and then at the queue.  The relay may refuse,      *)
(* answer, break off or fall silent at any step.  A queued message is      *)
(* TRUE when it was let in before the last drain of the queue.             *)
(***************************************************************************)
EXTENDS Integers, Sequences, FiniteSetsExt

CONSTANTS
  MaxQueued,                \* MAX_QUEUED_MESSAGES (64 in the code)
  MinBackoff, MaxBackoff    \* backoff_ms at first and max_backoff_ms (1000, 30000)

ASSUME TelemetryAssumption ==
  /\ MaxQueued \in Nat \ {0}
  /\ MinBackoff \in Nat \ {0} /\ MaxBackoff \in Nat /\ MinBackoff <= MaxBackoff

VARIABLES
  pc,           \* where the task is
  connected,    \* the flag the engine looks at
  queue,        \* the channel
  sender,       \* the engine's send: "idle", or past its look at the flag
  closed,       \* the engine is gone, the channel closed
  shutdown,     \* the shutdown signal
  backoff,      \* backoff_ms
  sleeps,       \* history: pauses made since a connection was last opened
  rested,       \* history: the pause made since the last attempt, 0 for none
  opened        \* history: the last attempt opened a connection

engineVars == <<sender, closed, shutdown>>
history == <<sleeps, rested, opened>>
vars == <<pc, connected, queue, engineVars, backoff, history>>

Init ==
  /\ pc = "top" /\ connected = FALSE /\ queue = <<>>
  /\ sender = "idle" /\ closed = FALSE /\ shutdown = FALSE
  /\ backoff = MinBackoff /\ sleeps = 0 /\ rested = 0 /\ opened = TRUE

-----------------------------------------------------------------------------
(* The engine *)

Check ==
  /\ sender = "idle" /\ ~closed /\ connected
  /\ sender' = "checked"
  /\ UNCHANGED <<pc, connected, queue, closed, shutdown, backoff, history>>

\* try_send: dropped when the channel is full or its receiver gone.
TrySend ==
  /\ sender # "idle"
  /\ queue' = IF Len(queue) < MaxQueued /\ pc # "ended" THEN Append(queue, sender = "late") ELSE queue
  /\ sender' = "idle"
  /\ UNCHANGED <<pc, connected, closed, shutdown, backoff, history>>

EngineEnds ==
  /\ sender = "idle" /\ ~closed
  /\ closed' = TRUE
  /\ UNCHANGED <<pc, connected, queue, sender, shutdown, backoff, history>>

SignalShutdown ==
  /\ ~shutdown
  /\ shutdown' = TRUE
  /\ UNCHANGED <<pc, connected, queue, sender, closed, backoff, history>>

-----------------------------------------------------------------------------
(* The task *)

Goto(from, to) == pc = from /\ pc' = to

Top ==
  /\ Goto("top", IF shutdown THEN "ended" ELSE "connecting")
  /\ UNCHANGED <<connected, queue, engineVars, backoff, history>>

ConnectFails ==
  /\ Goto("connecting", "backoff")
  /\ opened' = FALSE /\ rested' = 0
  /\ UNCHANGED <<connected, queue, engineVars, backoff, sleeps>>

ConnectOk ==
  /\ Goto("connecting", "challenge")
  /\ connected' = TRUE /\ backoff' = MinBackoff
  /\ opened' = TRUE /\ rested' = 0 /\ sleeps' = 0
  /\ UNCHANGED <<queue, engineVars>>

\* The challenge (or any other text), the registration, the acknowledgement.
HandshakeStep ==
  /\ \/ Goto("challenge", "register") \/ Goto("register", "ack") \/ Goto("ack", "relay")
  /\ UNCHANGED <<connected, queue, engineVars, backoff, history>>

\* The next attempt follows at once, and the queue is left as it is.
HandshakeFails ==
  /\ pc \in {"challenge", "register", "ack"}
  /\ pc' = "top" /\ connected' = FALSE
  /\ UNCHANGED <<queue, engineVars, backoff, history>>

\* A message is taken from the queue, or a ping is to be answered.
Forward ==
  /\ queue # <<>> /\ Goto("relay", "sending")
  /\ queue' = Tail(queue)
  /\ UNCHANGED <<connected, engineVars, backoff, history>>

Pong ==
  /\ Goto("relay", "sending")
  /\ UNCHANGED <<connected, queue, engineVars, backoff, history>>

\* It is sent, or lost: once the relay takes no more of it, neither.
Sent ==
  /\ Goto("sending", "relay") \/ Goto("sending", "lost")
  /\ UNCHANGED <<connected, queue, engineVars, backoff, history>>

\* The relay closes, the connection fails, or the channel is closed and empty.
RelayEnds ==
  /\ Goto("relay", "lost")
  /\ UNCHANGED <<connected, queue, engineVars, backoff, history>>

ChannelClosed == closed /\ queue = <<>> /\ RelayEnds

\* A mutant: the relay loop does not listen to the shutdown signal.
RelayDeaf == pc = "relay" /\ shutdown /\ UNCHANGED vars

\* The Close message is sent first.
RelayShutdown ==
  /\ shutdown /\ Goto("relay", "closing")
  /\ UNCHANGED <<connected, queue, engineVars, backoff, history>>

Closed ==
  /\ Goto("closing", "ended")
  /\ connected' = FALSE
  /\ UNCHANGED <<queue, engineVars, backoff, history>>

Lost ==
  /\ Goto("lost", "backoff")
  /\ connected' = FALSE
  /\ UNCHANGED <<queue, engineVars, backoff, history>>

BeforeSleep ==
  /\ Goto("backoff", IF shutdown THEN "ended" ELSE "sleep")
  /\ UNCHANGED <<connected, queue, engineVars, backoff, history>>

\* A mutant: the cap is applied before the doubling.
DoubledLate(ms) == 2 * Min({ms, MaxBackoff})

NextBackoff(ms) == Min({2 * ms, MaxBackoff})

Sleep ==
  /\ Goto("sleep", "drain")
  /\ backoff' = NextBackoff(backoff)
  /\ rested' = backoff /\ sleeps' = Min({sleeps + 1, MaxBackoff})
  /\ UNCHANGED <<connected, queue, engineVars, opened>>

\* A mutant: one message is drained, not all.
DrainOne(q) == IF q = <<>> THEN q ELSE Tail(q)

Drained(q) == <<>>

\* What is let in before the drain and still on its way is late after it.
Drain ==
  /\ Goto("drain", "top")
  /\ queue' = [i \in DOMAIN Drained(queue) |-> TRUE]
  /\ sender' = IF sender = "checked" THEN "late" ELSE sender
  /\ UNCHANGED <<connected, closed, shutdown, backoff, history>>

Engine == Check \/ TrySend \/ EngineEnds \/ SignalShutdown
Own == Top \/ Lost \/ BeforeSleep \/ Sleep \/ Drain
Relay == \/ ConnectFails \/ ConnectOk \/ HandshakeStep \/ HandshakeFails
         \/ Forward \/ Pong \/ Sent \/ RelayEnds \/ ChannelClosed \/ RelayShutdown \/ Closed

Next == Engine \/ Own \/ Relay

\* The runtime polls the task, and the select of the relay loop takes a ready branch
\* at random, the shutdown among them.  Nothing obliges the relay: it need not accept
\* a connection, answer, take what is sent, or close, and the task has no timeout.
Fairness == WF_vars(Own) /\ SF_vars(RelayShutdown)

FairSpec == Init /\ [][Next]_vars /\ Fairness

-----------------------------------------------------------------------------

\* What was queued before a pause is not sent after it, however the queueing
\* interleaves with the loss of the connection and with failed handshakes,
\* which leave the queue as it is: at most the one message that was between the
\* look at the flag and the queue survives a drain.
FreshAfterDrain ==
  /\ \A i, j \in DOMAIN queue : queue[i] /\ queue[j] => i = j
  /\ sender = "late" => \A i \in DOMAIN queue : ~queue[i]

\* A relay that cannot be reached is not hammered: whenever an attempt follows
\* one that opened no connection, a pause lay between them, doubled with every
\* pause since a connection was last opened, up to the cap.  (After a failed
\* handshake there is none.)
NeverHammered ==
  [][Top /\ pc' = "connecting" =>
       /\ ~opened => rested > 0
       /\ rested > 0 => rested = Min({MinBackoff * 2^(sleeps - 1), MaxBackoff})]_vars

\* Where the task waits for the relay and for nothing else.
Awaits == {"connecting", "challenge", "register", "ack", "sending", "closing"}

\* Once the shutdown is signalled the task ends, from wherever it is, however busy
\* the queue and the relay keep it, and whether or not the engine has gone before
\* it -- unless the relay, silent in the middle of something, holds it there for
\* ever: only the relay loop listens to the shutdown, and no wait has a timeout.
TelemetryEnds ==
  shutdown ~> \/ pc = "ended" /\ ~connected
              \/ \E await \in Awaits : [](pc = await)
=============================================================================
