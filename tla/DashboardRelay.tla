---------------------------- MODULE DashboardRelay ----------------------------
(***************************************************************************)
(* The dashboard relay (extremal-dashboard): the handlers of the workers'  *)
(* and the browsers' WebSockets, the list of connected workers they share, *)
(* and the broadcast channel between them.                                 *)
(***************************************************************************)
EXTENDS Integers, Sequences, FiniteSets

CONSTANTS
  Workers,    \* worker ids
  Conns,      \* the sockets of /ws/worker that may be open at the same time
  Uis,        \* the sockets of /ws/ui
  MaxWorkers, \* max_workers
  BusSize     \* capacity of the broadcast channel (256)

ASSUME RelayAssumption == MaxWorkers \in Nat /\ BusSize \in Nat \ {0}

VARIABLES
  pc,         \* each worker handler: "free", "handshake", "registered", "relay", "left"
  of,         \* the worker id of each socket
  live,       \* the sockets whose other end is still there
  silent,     \* the sockets whose other end went without a word: half open
  listed,     \* the keys of DashboardState.workers
  clashed,    \* the ids carried by two open sockets at once, until all of them are
              \* closed (history): a worker reconnects before the relay has
              \* noticed its loss, or two workers keep the default id
  uipc,       \* each browser handler: "off", "listing" or "on"
  queue,      \* the events each browser's receiver has not taken yet
  view,       \* the workers each browser shows as connected
  lagged,     \* the browsers that missed events since their last list, or between the
              \* list and their subscription (history)
  back        \* the browsers that kept their view over a lost socket (history)

worker == <<pc, of, live, silent, listed, clashed>>
ui     == <<uipc, queue, view, lagged, back>>
vars   == <<worker, ui>>

Init ==
  /\ pc = [c \in Conns |-> "free"]
  /\ of \in [Conns -> Workers]
  /\ live = {} /\ silent = {}
  /\ listed = {} /\ clashed = {}
  /\ uipc = [u \in Uis |-> "off"]
  /\ queue = [u \in Uis |-> <<>>]
  /\ view = [u \in Uis |-> {}]
  /\ lagged = {} /\ back = {}

Goto(c, from, to) == pc[c] = from /\ pc' = [pc EXCEPT ![c] = to]

\* ui_tx.send: a full receiver loses its oldest event.
Broadcast(type, w) ==
  /\ queue' = [u \in Uis |->
       LET q == IF Len(queue[u]) = BusSize THEN Tail(queue[u]) ELSE queue[u]
       IN  IF uipc[u] = "on" THEN Append(q, [type |-> type, id |-> w]) ELSE <<>>]
  /\ lagged' = lagged \cup {u \in Uis : uipc[u] = "on" /\ Len(queue[u]) = BusSize}
                       \cup {u \in Uis : uipc[u] = "listing" /\ type # "event"}
  /\ UNCHANGED <<uipc, view, back>>

-----------------------------------------------------------------------------
(***************************************************************************)
(* handle_worker.                                                          *)
(***************************************************************************)
Open(w) == {c \in Conns : pc[c] # "free" /\ of[c] = w}

Connect(c, w) ==
  /\ Goto(c, "free", "handshake")
  /\ of' = [of EXCEPT ![c] = w]
  /\ live' = live \cup {c}
  /\ clashed' = IF Open(w) = {} THEN clashed ELSE clashed \cup {w}
  /\ UNCHANGED <<silent, listed, ui>>

\* History: the last socket of a clash is closed.
Closed(c) == clashed' = IF Open(of[c]) = {c} THEN clashed \ {of[c]} ELSE clashed

\* The worker's end of the socket goes away, and the relay may never hear of it: it
\* sends nothing of its own, and reads without a timeout.
Lose(c) ==
  /\ c \in live
  /\ live' = live \ {c}
  /\ silent' \in {silent, silent \cup {c}}
  /\ UNCHANGED <<pc, of, listed, clashed, ui>>

\* A mutant of HasRoom: an off-by-one in the capacity check.
HasRoomAndOne(w) == Cardinality(listed) <= MaxWorkers \/ w \in listed

HasRoom(w) == Cardinality(listed) < MaxWorkers \/ w \in listed

\* A mutant of Register: the entry is not written.
RegisterUnlisted(c) ==
  /\ Goto(c, "handshake", "registered")
  /\ HasRoom(of[c])
  /\ UNCHANGED <<of, live, silent, listed, clashed, ui>>

Register(c) ==
  /\ Goto(c, "handshake", "registered")
  /\ HasRoom(of[c])
  /\ listed' = listed \cup {of[c]}
  /\ UNCHANGED <<of, live, silent, clashed, ui>>

\* No Register within 10 s, a key that is not allowed or not verified, no room:
\* the handler returns, and the socket closes.
Reject(c) ==
  /\ Goto(c, "handshake", "free")
  /\ live' = live \ {c}
  /\ silent' = silent \ {c}
  /\ Closed(c)
  /\ UNCHANGED <<of, listed, ui>>

\* WorkerConnected, and the ack.
Announce(c) ==
  /\ Goto(c, "registered", "relay")
  /\ Broadcast("connected", of[c])
  /\ UNCHANGED <<of, live, silent, listed, clashed>>

\* What was received before the loss is relayed after it.
Relay(c) ==
  /\ pc[c] = "relay"
  /\ Broadcast("event", of[c])
  /\ UNCHANGED worker

\* A mutant of Unregister: the entry is left behind.
UnregisterNot(c) ==
  /\ Goto(c, "relay", "left")
  /\ c \notin live
  /\ UNCHANGED <<of, live, silent, listed, clashed, ui>>

\* The handler's recv fails some time after the loss: the cleanup removes the
\* entry under its id, whoever wrote it.
Unregister(c) ==
  /\ Goto(c, "relay", "left")
  /\ c \notin live
  /\ listed' = listed \ {of[c]}
  /\ UNCHANGED <<of, live, silent, clashed, ui>>

\* WorkerDisconnected.
Farewell(c) ==
  /\ Goto(c, "left", "free")
  /\ Broadcast("disconnected", of[c])
  /\ Closed(c)
  /\ silent' = silent \ {c}
  /\ UNCHANGED <<of, live, listed>>

-----------------------------------------------------------------------------
(***************************************************************************)
(* handle_ui.                                                              *)
(***************************************************************************)
\* A mutant of ListWorkers: the browser is only subscribed.
ListNothing(u) ==
  /\ uipc[u] = "off"
  /\ uipc' = [uipc EXCEPT ![u] = "listing"]
  /\ lagged' = lagged \ {u}
  /\ UNCHANGED <<worker, queue, view, back>>

\* list_workers, and its rows sent to the browser as WorkerConnected events.
ListWorkers(u) ==
  /\ uipc[u] = "off"
  /\ uipc' = [uipc EXCEPT ![u] = "listing"]
  /\ view' = [view EXCEPT ![u] = @ \cup listed]
  /\ lagged' = lagged \ {u}
  /\ UNCHANGED <<worker, queue, back>>

Subscribe(u) ==
  /\ uipc[u] = "listing"
  /\ uipc' = [uipc EXCEPT ![u] = "on"]
  /\ UNCHANGED <<worker, queue, view, lagged, back>>

\* A mutant of Shown: a worker that left stays green.
ShownForever(v, e) ==
  IF e.type = "connected" THEN v \cup {e.id} ELSE v

\* What the browser makes of an event.
Shown(v, e) ==
  CASE e.type = "connected"    -> v \cup {e.id}
    [] e.type = "disconnected" -> v \ {e.id}
    [] e.type = "event"        -> v

Deliver(u) ==
  /\ queue[u] # <<>>
  /\ view' = [view EXCEPT ![u] = Shown(@, Head(queue[u]))]
  /\ queue' = [queue EXCEPT ![u] = Tail(@)]
  /\ UNCHANGED <<worker, uipc, lagged, back>>

\* The browser has 100 events pending, and drops this one.
DropEvent(u) ==
  /\ queue[u] # <<>>
  /\ queue' = [queue EXCEPT ![u] = Tail(@)]
  /\ lagged' = lagged \cup {u}
  /\ UNCHANGED <<worker, uipc, view, back>>

\* The page is closed.
CloseUi(u) ==
  /\ uipc[u] # "off"
  /\ uipc' = [uipc EXCEPT ![u] = "off"]
  /\ queue' = [queue EXCEPT ![u] = <<>>]
  /\ view' = [view EXCEPT ![u] = {}]
  /\ lagged' = lagged \ {u}
  /\ back' = back \ {u}
  /\ UNCHANGED worker

\* The socket is lost: the page will connect again, and keeps its workers.
LoseUi(u) ==
  /\ uipc[u] # "off"
  /\ uipc' = [uipc EXCEPT ![u] = "off"]
  /\ queue' = [queue EXCEPT ![u] = <<>>]
  /\ back' = back \cup {u}
  /\ UNCHANGED <<worker, view, lagged>>

\* What a handler does of itself, and when it learns that its socket is lost.
Handler(c) == Announce(c) \/ Farewell(c) \/ (c \notin silent /\ Unregister(c))

Next ==
  \/ \E c \in Conns :
       \/ \E w \in Workers : Connect(c, w)
       \/ Lose(c) \/ Register(c) \/ Reject(c) \/ Relay(c)
       \/ Announce(c) \/ Unregister(c) \/ Farewell(c)
  \/ \E u \in Uis :
       \/ ListWorkers(u) \/ Subscribe(u) \/ Deliver(u) \/ DropEvent(u)
       \/ CloseUi(u) \/ LoseUi(u)

Spec == Init /\ [][Next]_vars

\* Handlers run, a closed or broken socket fails their recv, and a handshake has ten
\* seconds.  A half-open socket may be noticed, and need not be.  Nothing obliges a
\* worker to come, or to stay, or a browser to take its events.
FairSpec ==
  /\ Spec
  /\ \A c \in Conns : WF_vars(Handler(c)) /\ WF_vars(Register(c) \/ Reject(c))

-----------------------------------------------------------------------------
Relaying == {c \in Conns : pc[c] = "relay" /\ c \in live}

(***************************************************************************)
(* "Currently connected workers": every worker whose messages are relayed  *)
(* is in the list, unless two sockets share its id (the clean-up of one    *)
(* then removes the entry of the other).                                   *)
(***************************************************************************)
ConnectedListed == \A c \in Relaying : of[c] \in listed \cup clashed

(***************************************************************************)
(* "Maximum concurrent worker connections": it holds for the ids that no   *)
(* two sockets share; those that share one pass the check uncounted.       *)
(***************************************************************************)
ConnectionBound == Cardinality({c \in Relaying : of[c] \notin clashed}) <= MaxWorkers

\* The browsers that have taken all their events and missed none, when no handler
\* is between the list and its announcement.
UpToDate ==
  {u \in Uis :
    /\ uipc[u] = "on" /\ queue[u] = <<>> /\ u \notin lagged
    /\ \A c \in Conns : pc[c] \notin {"registered", "left"}}

(***************************************************************************)
(* Whatever sockets a browser has lost, it misses no worker that is listed *)
(* (it may show others: it never heard of those who left meanwhile).       *)
(***************************************************************************)
ListedIsShown == \A u \in UpToDate : listed \ clashed \subseteq view[u]

(***************************************************************************)
(* A browser that is up to date and has kept its socket shows no worker    *)
(* but the listed ones.                                                    *)
(***************************************************************************)
ShownIsListed == \A u \in UpToDate \ back : view[u] \ clashed \subseteq listed

(***************************************************************************)
(* A worker that is gone does not stay in the list, reconnections and      *)
(* shared ids notwithstanding.  One that left a half-open socket behind    *)
(* may stay there for ever: the handler (server.rs) waits for messages     *)
(* without a timeout and sends no ping.                                    *)
(***************************************************************************)
GoneIsUnlisted ==
  \A w \in Workers :
    w \in listed ~> w \notin listed \/ \E c \in live \cup silent : of[c] = w
=============================================================================
