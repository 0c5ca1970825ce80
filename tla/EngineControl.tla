---------------------------- MODULE EngineControl ----------------------------
(***************************************************************************)
(* How a worker is controlled: the commands of its HTTP API (api.rs), the  *)
(* channel they wait in, Ctrl+C, and the places of run_engine (engine.rs)  *)
(* where they are looked at.  What a round does is in module Engine.       *)
(***************************************************************************)
EXTENDS Integers, Sequences

CONSTANTS
  Clients,    \* concurrent requests of the worker's API
  QueueSize,  \* capacity of the command channel (32)
  MaxCalls    \* a bound: how many requests the clients make in all

ASSUME QueueAssumption == QueueSize \in Nat \ {0} /\ MaxCalls \in Nat

Commands == {"pause", "resume", "stop", "update"}

VARIABLES
  pc,         \* the engine: "top", "commands", "paused", "round" or "ended"
  state,      \* engine_state
  queue,      \* the command channel: [cmd, from]
  shutdown,   \* the value of the shutdown watch
  snapshot,   \* the state that the snapshot watch holds, and GET status shows
  request,    \* of each client: "none", "sending" or "awaiting" the reply
  wish,       \* the command of its request
  calls,      \* requests made so far
  accepted    \* the last pause, resume or stop that the channel took (history)

engine == <<pc, state, queue, snapshot>>
vars   == <<engine, shutdown, request, wish, calls, accepted>>

Init ==
  /\ pc = "top"
  /\ state = "searching"
  /\ queue = <<>>
  /\ shutdown = FALSE
  /\ snapshot = "searching"
  /\ request = [c \in Clients |-> "none"]
  /\ wish = [c \in Clients |-> "pause"]
  /\ calls = 0
  /\ accepted = "none"

-----------------------------------------------------------------------------
(***************************************************************************)
(* The API and the signal handler.                                         *)
(***************************************************************************)
Call(c, cmd) ==
  /\ request[c] = "none" /\ pc # "ended"
  /\ calls < MaxCalls /\ calls' = calls + 1
  /\ request' = [request EXCEPT ![c] = "sending"]
  /\ wish' = [wish EXCEPT ![c] = cmd]
  /\ UNCHANGED <<engine, shutdown, accepted>>

\* cmd_tx.send: waits while the channel is full.  Only an update awaits a reply.
Send(c) ==
  /\ request[c] = "sending" /\ pc # "ended"
  /\ Len(queue) < QueueSize
  /\ queue' = Append(queue, [cmd |-> wish[c], from |-> c])
  /\ request' = [request EXCEPT ![c] = IF wish[c] = "update" THEN "awaiting" ELSE "none"]
  /\ accepted' = IF wish[c] = "update" THEN accepted ELSE wish[c]
  /\ UNCHANGED <<pc, state, snapshot, shutdown, wish, calls>>

\* The receiver, and with it every reply handle in the channel, was dropped:
\* "engine not running", "engine did not respond".
Refused(c) ==
  /\ request[c] # "none" /\ pc = "ended"
  /\ request' = [request EXCEPT ![c] = "none"]
  /\ UNCHANGED <<engine, shutdown, wish, calls, accepted>>

CtrlC ==
  /\ shutdown' = TRUE
  /\ UNCHANGED <<engine, request, wish, calls, accepted>>

-----------------------------------------------------------------------------
(***************************************************************************)
(* The engine.                                                             *)
(***************************************************************************)
Top ==
  /\ pc = "top"
  /\ pc' = IF shutdown THEN "ended" ELSE "commands"
  /\ UNCHANGED <<state, queue, snapshot, shutdown, request, wish, calls, accepted>>

\* A mutant of Take: an update is not answered.
TakeUnanswered ==
  /\ queue # <<>>
  /\ queue' = Tail(queue)
  /\ UNCHANGED request

\* The next command leaves the channel; an update is answered.
Take ==
  /\ queue # <<>>
  /\ queue' = Tail(queue)
  /\ request' = IF Head(queue).cmd = "update"
                THEN [request EXCEPT ![Head(queue).from] = "none"]
                ELSE request

\* A mutant of StateAfter: the arm for stop is missing.
StateAfterNoStop(cmd) ==
  CASE cmd = "pause"  -> "paused"
    [] cmd = "resume" -> "searching"
    [] OTHER          -> state

\* engine_state after a command.
StateAfter(cmd) ==
  CASE cmd = "pause"  -> "paused"
    [] cmd = "resume" -> "searching"
    [] cmd = "stop"   -> "idle"
    [] cmd = "update" -> state

\* try_recv until the channel is empty: the last command wins.
TakeCommand ==
  /\ pc = "commands"
  /\ Take
  /\ state' = StateAfter(Head(queue).cmd)
  /\ UNCHANGED <<pc, snapshot, shutdown, wish, calls, accepted>>

\* A mutant of NoMoreCommands: the paused state is entered unannounced.
NoMoreCommandsSilently ==
  /\ pc = "commands" /\ queue = <<>>
  /\ pc' = CASE state = "paused"    -> "paused"
             [] state = "idle"      -> "ended"
             [] state = "searching" -> "round"
  /\ UNCHANGED <<state, queue, snapshot, shutdown, request, wish, calls, accepted>>

NoMoreCommands ==
  /\ pc = "commands" /\ queue = <<>>
  /\ pc' = CASE state = "paused"    -> "paused"
             [] state = "idle"      -> "ended"
             [] state = "searching" -> "round"
  /\ snapshot' = IF state = "paused" THEN "paused" ELSE snapshot
  /\ UNCHANGED <<state, queue, shutdown, request, wish, calls, accepted>>

\* The select loop of the paused engine: a round starts as soon as a resume
\* comes, whatever is queued behind it.
PausedCommand ==
  /\ pc = "paused"
  /\ Take
  /\ state' = StateAfter(Head(queue).cmd)
  /\ pc' = CASE Head(queue).cmd = "resume" -> "round"
             [] Head(queue).cmd = "stop"   -> "ended"
             [] OTHER                      -> "paused"
  /\ UNCHANGED <<snapshot, shutdown, wish, calls, accepted>>

\* A mutant of PausedShutdown: the paused engine listens to commands only.
PausedDeaf == FALSE /\ UNCHANGED vars

PausedShutdown ==
  /\ pc = "paused" /\ shutdown
  /\ state' = "idle"
  /\ pc' = "ended"
  /\ UNCHANGED <<queue, snapshot, shutdown, request, wish, calls, accepted>>

\* The signal handler drops its end of the watch once it has sent: from then on
\* has_changed() is an error, which counts as no change, and the round after the
\* signal ends the engine at the top of the loop instead.
EndRound ==
  /\ pc = "round"
  /\ snapshot' = state
  /\ pc' \in IF shutdown THEN {"top", "ended"} ELSE {"top"}
  /\ UNCHANGED <<state, queue, shutdown, request, wish, calls, accepted>>

\* "search task panicked": no snapshot, no look at the shutdown signal.
RoundPanics ==
  /\ pc = "round"
  /\ pc' = "top"
  /\ UNCHANGED <<state, queue, snapshot, shutdown, request, wish, calls, accepted>>

Step ==
  \/ Top \/ TakeCommand \/ NoMoreCommands \/ PausedCommand \/ PausedShutdown
  \/ EndRound \/ RoundPanics

Next ==
  \/ \E c \in Clients :
       \/ \E cmd \in Commands : Call(c, cmd)
       \/ Send(c) \/ Refused(c)
  \/ CtrlC
  \/ Step

Spec == Init /\ [][Next]_vars

\* The engine's task runs, a round ends after max_iters, and the channel serves
\* those who wait for room.  Nothing obliges a client to call.
FairSpec ==
  /\ Spec
  /\ WF_vars(Step)
  /\ \A c \in Clients : WF_vars(Send(c)) /\ WF_vars(Refused(c))

-----------------------------------------------------------------------------
TypeOK ==
  /\ pc \in {"top", "commands", "paused", "round", "ended"}
  /\ state \in {"searching", "paused", "idle"}
  /\ queue \in Seq([cmd : Commands, from : Clients]) /\ Len(queue) <= QueueSize
  /\ shutdown \in BOOLEAN
  /\ snapshot \in {"searching", "paused", "idle"}
  /\ request \in [Clients -> {"none", "sending", "awaiting"}]
  /\ wish \in [Clients -> Commands]
  /\ calls \in 0..MaxCalls
  /\ accepted \in Commands \cup {"none"}

(***************************************************************************)
(* While the engine runs, whoever awaits the reply to an update has it in  *)
(* the channel, and every update in the channel has somebody waiting for   *)
(* its reply: none is answered twice, and none is forgotten by a pause or  *)
(* by the engine's two ways of taking commands.                            *)
(***************************************************************************)
AwaitedIsQueued ==
  pc # "ended" => \A c \in Clients :
    request[c] = "awaiting" <=>
      \E i \in DOMAIN queue : queue[i] = [cmd |-> "update", from |-> c]

(***************************************************************************)
(* While the engine is paused, GET status says so.                         *)
(***************************************************************************)
PausedIsShown == pc = "paused" => snapshot = "paused"

(***************************************************************************)
(* Ctrl+C ends the engine, in whatever state it finds it.                  *)
(***************************************************************************)
ShutdownEnds == shutdown ~> pc = "ended"

(***************************************************************************)
(* Every request of the API is answered, though the channel may be full,   *)
(* the engine paused, or gone with the request still in the channel.       *)
(***************************************************************************)
Answered == \A c \in Clients : request[c] # "none" ~> request[c] = "none"

(***************************************************************************)
(* The last word counts: unless another pause, resume or stop follows, a   *)
(* stop ends the engine, a pause pauses it and a resume lets it search.    *)
(***************************************************************************)
LastWord ==
  /\ accepted = "stop" ~> pc = "ended" \/ accepted # "stop"
  /\ accepted = "pause" ~> pc \in {"paused", "ended"} \/ accepted # "pause"
  /\ accepted = "resume" ~> pc \in {"round", "ended"} \/ accepted # "resume"
=============================================================================
