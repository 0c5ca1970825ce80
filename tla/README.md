# Extremal in TLA+

Extremal searches for graphs that are extremal for Ramsey-like scores. Workers
run search strategies and submit what they find; a server scores submissions and
keeps, for every number of vertices *n*, a leaderboard of limited capacity in
PostgreSQL; a dashboard relay shows browsers what the workers do. This directory
holds TLA+ models of the parts of that system that are concurrent or fail and
of the algorithms its workers search and score with, the TLC configurations that
check them, and TLAPS proofs of the properties that matter most.

To check a model: `tlc -config <run>.cfg <Module>.tla`. To check proofs:
`tlapm <Module>Proofs.tla`.

## 1. The system

| Part | State | Operations | Talks to |
|---|---|---|---|
| **Store** (`extremal-store`) | tables `graphs`, `scores`, `submissions`, `leaderboard`, `receipts`, `identities`, snapshots | `try_admit` (one transaction), `trim_leaderboard`, one-statement inserts and queries, advisory lock | PostgreSQL through a pool of connections |
| **Server** (`extremal-server`) | leaderboard cache (3 maps with TTL), event broadcast, snapshot task | `submit_graph`, cached reads, verify, identities, history, event stream | store; workers and browsers over HTTP |
| **Worker engine** (`extremal-worker-core`: `engine.rs`, `client.rs`) | threshold, known and server CIDs, sync cursor, submit buffer, state, statistics | the round: sync, search, score, dedup, gate, submit, trims; commands between rounds | server; strategies; control API; telemetry |
| **Worker control** (`api.rs`, `extremal-worker`) | command channel (32), snapshot and shutdown watches | pause, resume, stop, status, update configuration, Ctrl+C | engine |
| **Worker telemetry** (`dashboard.rs`) | message queue (64), connected flag | send, handshake, relay, reconnect | dashboard relay |
| **Dashboard relay** (`extremal-dashboard`) | map of connected workers, broadcast channel (256) | worker and browser WebSocket handlers | workers, browsers |
| **Browser store** (`dashboard/src/lib`) | map of workers, pending events (100) | connect, flush, reconnect | relay |
| **Scoring, graph encoding** (`extremal-scoring`, `extremal-graph`) | none | clique histogram, Goodman gap, automorphisms, score bytes, graph6, CID | everybody |
| **Strategies** (`extremal-strategies`, and `sa.rs` of the experiments) | one search's beam, tabu list, counts, the CIDs and fingerprints it knows | tree search, tabu search, annealing, polish, initial graphs | engine |
| **Identities, CLI, experiments, web** | keys, files, pages | sign, verify, single requests | server |

What makes them correct, and what is hard about it:

* **Admission.** The board must hold the best *capacity* graphs of all that were
  submitted. `try_admit` is eight SQL statements in a READ COMMITTED
  transaction; several run at once, each on what it has read before the others
  committed. Transactions abort, deadlock and are cut off by the request
  timeout.
* **Submission.** `submit_graph` writes five tables in separate transactions and
  then the cache and the event stream; it can end at any await. Cached reads
  race with the invalidation.
* **Engine.** It decides on old information (threshold, CIDs) what not to
  submit. Skipping or forgetting the wrong graph loses a discovery silently.
  Submits fail, answers get lost, buffers and sets are cut at their limits.
* **Control.** Commands wait in a channel for the end of a round; they must be
  answered and obeyed in every state, and Ctrl+C must work in all of them.
* **Relay.** One handler per socket, with shared ids, reconnections, half-open
  sockets and lossy broadcasts: list, capacity and browser view must agree.
* **Snapshot lock.** A session lock taken through a connection pool.
* **Telemetry.** The engine's send and the reconnecting task share a flag and a
  bounded queue; every failure has its own way back to the top of the loop.
* **Searches.** Counts that follow hundreds of flips by deltas, random choices,
  restarts and polishing inside a strategy, one set of known CIDs for all of
  them, cancellation at any moment: what is reported must be valid and new, what
  is returned true, and every search must end.
* **Scoring and encoding.** Bit masks with fast paths, a canonical form that is
  inverted before it is applied, bytes that must order as the scores do, a text
  format whose errors must be found.

## 2. Modules

| Module | Models | Extends |
|---|---|---|
| `Ranking` | the score order, the best *capacity* graphs of a set, and what a `try_admit` keeps (`Keeps`) | |
| `Leaderboard` | abstract specification: one step decides one graph | `Ranking` |
| `Admission` | `try_admit` and `trim_leaderboard`, one step per statement | `Ranking`; instantiates `Leaderboard` |
| `MCAdmission` | symmetry for TLC | `Admission` |
| `Submit` | `submit_graph`, the cached reads and the cache, one step per await | `Ranking` |
| `MCSubmit` | symmetry for TLC | `Submit` |
| `Engine` | the worker's round loop against server and rivals | `Ranking` |
| `EngineControl` | commands, pause, stop, shutdown | |
| `Telemetry` | the worker's connection to the relay, and the engine's send | |
| `DashboardRelay` | the relay's handlers, the broadcast channel and the browser's view | |
| `SnapshotLock` | the snapshot task and the advisory lock on pooled connections | |
| `Graph` | packed triangle, permutation, graph6, canonical form, initial graphs | |
| `Cliques` | neighbour masks, clique counts and deltas, guilty edges, histogram, Goodman gap, score bytes | `Graph` |
| `GraphWalk` | a walk over all graphs of a size by single flips | `Cliques` |
| `SearchJob` | what the strategies share: the job, discoveries, known CIDs, result, cancellation | `Cliques` |
| `Polish` | `polish_valid_graph` and its restarts `ils_polish` | `SearchJob` |
| `Tabu`, `Tree2`, `Annealing` | the tabu search, the beam search, the annealing | `Polish`, `Polish`, `SearchJob` |
| `Search` | a job run by one of them, with its polishing and cancellation | the three |
| `MCGraphWalk`, `MCSearch` | the clique sizes and the jobs for TLC | `GraphWalk`, `Search` |
| `AdmissionProofs`, `SubmitProofs`, `EngineProofs`, `ControlProofs`, `RelayProofs`, `SnapshotLockProofs`, `TelemetryProofs` | theorems (section 4) | the module they are about, TLAPS |
| `SearchProofs` | theorems (section 4) | `Search`, `GraphWalk`, TLAPS |

**Graphs** are numbers in `Admission`, `Submit` and `Engine`: a graph is its
position in the order of `score_bytes`, which ends with the CID and so is total.
That is all that code asks of a graph; a smaller number ranks higher. From
`Graph` to `Search` they are graphs, with the edges as the packed bits of
`adjacency.rs`.

**Admission.** `pc[t]` is the next statement of transaction `t`; `graph`,
`worst`, `newRank` are its variables in the code; `ins[t]`, `del[t]` are its
uncommitted rows and `todo[t]` the rows that its trim has selected and not yet
locked. `View(t)` is what a statement sees (READ COMMITTED); `Holders` are the
transactions whose row locks it waits for. `board` and `rank` are the committed
table. `decided` is a history variable, the graphs for which `try_admit`
returned `Ok`. `Abort` is every way a transaction can fail: an error, the 30 s
timeout that drops the request, a dead server, a deadlock victim.
`BeginTrim` is the trim of over-capacity boards at startup, which is the same
statement as the one at the end of `try_admit`. `Overlap` says which calls may
overlap.

`Submit` and `Engine` do not repeat the statements. They rely on a contract,
`Keeps` of `Ranking`, that the property `EndKeeps` of `Admission` states of every
end of a `try_admit`: of its graph and the rows that were there when it ended,
each is listed, or beaten by *capacity* rows. After two calls for one graph have
overlapped (`clashed`), a call may evict a row and insert nothing, and all that is
left of the contract is that what is gone is outdone by *some* row. The contract
allows every outcome that it does not exclude, so the two modules cover more than
the code does.

**Submit** has one step per await: `Order` is the sequence of table writes. A
cached answer is represented by the boards its queries saw (two for the
threshold, which is a count and a row). `BeginAdmit` and `CommitAdmit` are the
beginning and the end of a `try_admit`, between which others may begin and end;
the board that it leaves is any that the contract allows. `Drop` is an error, the
timeout, or a client that hangs up; `Restart` loses everything but the tables,
and trims the board. `dropped` and `clashed` are history variables.

**Engine** has one action per stage of a round. `answer` is what the server's
threshold endpoint currently says; the two queries behind it are separate steps
at any time, so that cached answers of every age are covered. `Rival` is another
worker's admission. A submission is one step, the end of its transaction. With
`Overlap = "none"` it leaves the best of the board and its graph, and its rank is
exact; with `"any"` it leaves whatever the contract allows, `clashed` becomes true
at any time, and since overlapping counts may give any ranks, all ranks tie and
the row of the threshold may be any. `cursor` is the set of rows dated before the
sync cursor; it may hold rows that are committed later, because rows carry the
time at which their transaction began. A search reports any set of at most `ScoreLimit`
graphs (what it really reports is the subject of `Search`). `sent`, `lost` and
`trimmed` are history variables. The order of the buffer and its cuts are as in
the code.

**EngineControl** has the places where the engine looks at its channel and at
the shutdown watch (`pc`), the channel itself and the clients of the worker's
API. `accepted` is a history variable. A round is one step. After Ctrl+C the
signal handler drops the sender of the watch, so that `has_changed()` is an error
from then on and the round that was under way may go on to the top of the loop,
where the value of the watch is looked at: `EndRound` has both outcomes.

**Telemetry** has the task of `dashboard.rs` with every state it can fail in;
what it does itself (`Own`) is told from what waits for the relay (`Relay`). The
engine's send is two steps, its look at the flag and its `try_send`; a message is
no more than whether it was let in before the last drain of the queue. A relay
that fails the handshake is tried again without a pause and with the queue as it
is (`HandshakeFails`, as in the code); a pause, which ends in the drain, follows
a connection that failed or was lost. The pauses are kept as history, to compare
`backoff` with what it should be.

**DashboardRelay** has a program counter per socket of a worker and of a
browser. Between taking an entry in the list and broadcasting it, handlers
interleave, with half-open sockets and reconnections at any moment. A worker's end
of a socket goes with a sign that the relay gets or without one (`silent`). Three
history variables say what went on: `clashed`, the ids that two open sockets
share (a worker that reconnects before its loss is noticed, or two workers with
the default id); `lagged`, the browsers that missed events; `back`, those that
kept their view over a lost socket. The properties say what holds in spite of
each, so that one run covers them all.

**SnapshotLock** counts, per pooled connection, how often its session holds the
lock. The pool may close any connection at any time, its default `idle_timeout`
(10 minutes) and `max_lifetime` (30 minutes) being left as they are
(`main.rs:81`); `broken` remembers the servers to which that happened as they
captured.

**Graph, Cliques.** The operators are those of `extremal-graph` and
`extremal-scoring` with their control: the order of the packed triangle, the
words and errors of graph6, the fast paths of the clique counts, the masks with
the width of their word (`WordBits`), the clamps of the deltas, the tiers that
`Ord` compares against those that the bytes hold. The canonical form takes what
nauty returns, any labelling that gives the least graph, and inverts and applies
it as the code does; the CID is the canonical graph itself, as blake3 is taken
to be injective. `GraphWalk` makes every state one graph, so that invariants over
its states compare those operators with definitions by sets of vertices.

**SearchJob to Search.** One action per iteration of a strategy and per step of a
polish; random choices are nondeterministic. `known` is the set of CIDs that the
job brought and the search has added, `reported` the sequence of discoveries.
`Cancel` may happen at any moment; the strategies see it where the code looks,
and the polish does not look, although `strategy.rs:20` asks `search` to. `walk`
and `ils` are the locals of the polish and of its restarts; `beam`, `todo`,
`candidates` those of the beam search, whose fingerprints are the low `HashBits`
bits of FNV-1a, collisions included. Annealing's temperature becomes the choice
whether a worsening flip is taken. The tabu search reports its whole budget as
used also when it was cancelled; that number goes to statistics only.

`PROJECT.json` has, for every definition, the lines it models.

## 3. Runs

All bounds are constants of the configurations.

| Run | Checks | Bounds | Shows |
|---|---|---|---|
| `AdmissionSerial` | `BestKept`, `Abstract`, `AnswerTrue` | 5 graphs, capacity 2 | without overlap `try_admit` implements `Leaderboard`, aborts and trims being stutters, keeps the best of what it decided, and its answer, rank included, is true |
| `Admission` | `TopKept`, `StaysBeaten`, `EndKeeps`, `AllEnd` | 3 transactions on distinct graphs, 3 graphs, capacity 1 | overlapping transactions never lose one of the best, and keep the contract; lock waits end |
| `Submit` | `RowsBacked`, `CachedStands`, `AdmissionAnnounced` | 3 graphs, one of them listed from before and two that 2 requests bring, the same or not; capacity 2; 1 reader of the threshold | wherever requests end, listed graphs have all their rows, what a cached answer has seen stands in the board of now (a full board is full until two calls for one graph overlap), and an admission that nobody heard of was cut off |
| `Engine` | `GateKeepsRecord`, `Accounted`, `SubmittedOnce`, `BufferDrains` | 3 graphs, of which rivals submit the best; capacity 2, any overlap, default batch 1, buffer limit 1, at most 2 CIDs kept, all faults | the gate never skips a record, nor a graph that the board has room for until two submissions of one graph overlap; nothing disappears while known; nothing is sent twice; the buffer drains |
| `EngineControl` | `PausedIsShown`, `AwaitedIsQueued`, `ShutdownEnds`, `Answered`, `LastWord` | 2 clients, channel of 2, 5 requests | who waits has its request in the channel and is answered, the last request wins, Ctrl+C works everywhere |
| `Telemetry` | `FreshAfterDrain`, `NeverHammered`, `TelemetryEnds` | queue of 3, pauses from 2 to 12 | a pause clears the queue but for one message; an unreachable relay is tried with doubling pauses; the shutdown ends the task from everywhere but from a wait for a relay that has fallen silent |
| `Relay` | `ConnectedListed`, `ConnectionBound`, `ShownIsListed`, `ListedIsShown`, `GoneIsUnlisted` | 2 workers, 2 sockets, 1 browser, limit 1, channel of 2 | list, limit and view agree, but for shared ids and missed events; a worker stays listed only if it is there or has left a half-open socket |
| `Snapshot` | `OneCaptures`, `CapturesGoOn` | 4 servers with 3 connections | of the servers whose locking session lives one captures at a time, and a lock left behind does not end the captures |
| `GraphWalk` | `CountsExact`, `GuiltyExact`, `TextFaithful`, `CanonicalShared`, `RankedAlike` | every graph of 2 to 5 vertices, clique sizes 3/3, 4/3, 2/5; all relabellings up to 4 vertices | deltas, counts, guilty edges, graph6, canonical form and score order are what they should be |
| `Search` | `ReportsNew`, `CountsTrue`, `PolishGains`, `ResultHonest`, `BudgetKept`, `SearchEnds` | 4 vertices, cliques 4/3; 8 tabu, 7 beam, 3 annealing iterations; beam 2, depth 2 | whatever strategy and however cancelled: discoveries are valid and new, results true, budgets kept, every search ends |

The bounds are small and chosen so that the interesting cases happen: a full
board and one more graph than fits, two requests for one graph beside a row that
they can evict, a transaction more than a pairwise race
needs, a buffer and CID sets that exceed their limits, a channel that fills, a
socket more than the relay admits, pauses that reach their cap after three
doublings. Channel and buffer sizes enter the code only by comparisons, so small
ones meet the same cases as 32, 64, 256 or 500. Three transactions are the least
that form a cycle of lock waits, and the theorems of section 4 cover the safety
properties of every larger instance of the modules they are about.

In `GraphWalk` a flip leads from each graph to all its neighbours, so all 1098
graphs of 2 to 5 vertices are compared, under every pair of clique sizes; five
vertices have two words of graph6 text (ten bits) with padding, and cliques that
pass through every fast path and the recursion. In `Search` the seeds are one
graph per isomorphism class of four vertices, each fresh and already known, and
for the beam search with and without the fingerprints of all its flips carried
in. Cliques 4/3 make tier counts of both kinds, valid and invalid seeds, and
polishes that gain and that do not; the recounts (3), the tenures (3 and 7) and
the limits on polishes and carried fingerprints (1 and 12) are all passed. With
`Restarts = 1` the clause of `ResultHonest` that a valid result of the beam search
was reported has no instance in the run, as it exempts restarted polishes (below):
for the code's default, no restarts, it is checked by the proof only. In
`TextFaithful` a damaged text is one with a byte that graph6 does not use (outside
63 to 126); one of its own bytes changed into another gives another graph.
The shift by `v + 1` in `clique.rs` has the
width of a word in the model; a graph has at most 62 vertices, so the code does
not reach the edge of it, and neither does the run.

With two CIDs kept, the trim of `server_cids` happens in `Engine` and that of
`known_cids`, at twice the number, does not. With `MaxKnown = 1` both do: the
invariants and `SubmittedOnce` hold there too (5.7 million states with
`Overlap = "none"` and two graphs of the rivals, outside the runs listed here), but a submitted graph can then be found and submitted
again, and a buffered one be overtaken for ever by better ones that are
forgotten and found again; hence the `trimmed` in `SubmittedOnce` and
`BufferDrains`.

### Where the code does not do what it says

These runs end in a counterexample, each for one property that a comment or doc
of the repository states (quoted under `findings` in `PROJECT.json`).

| Run | Property | What happens |
|---|---|---|
| `AdmissionSameGraph` | `TopKept` | of two overlapping submissions of graph 1 on an empty board of capacity 2, the first inserts it and commits; a third call lists graph 2 in the room left; the second now counts a full board, evicts graph 2 (`lib.rs:349`) and its insert does nothing, as graph 1 is there (`lib.rs:368`): the board is left with one row of two, while `EXTREMALV1.md:18` says that the server "stores the top M ranking graphs" |
| `EngineGate` | `GateSkipsBeaten` | the rank column is never corrected, so the "worst" row by rank can be any row, and a worker skips graphs that the board would take |

The properties of the passing runs have exceptions where the models go on to
disagree with what one would wish:

* a stop that another command follows in the same batch is lost, since only the
  last state counts (`engine.rs:519`): `LastWord` lets a later pause or resume
  win;
* the cleanup of an old socket removes the entry of the worker that has
  reconnected under its id, and sockets of one id pass the limit uncounted:
  `ConnectedListed` and `ConnectionBound` exempt the ids in `clashed`;
* a browser misses what is broadcast between its list and its subscription, and
  one that reconnects keeps workers that have left: `lagged` and `back` in
  `ShownIsListed` and `ListedIsShown`;
* two submissions of one graph that overlap can leave a full board with fewer than
  *capacity* rows (run `AdmissionSameGraph`). From then on a cached "full" may be
  wrong, and the gate may skip a graph that the board has room for: `CachedStands`
  and `GateKeepsRecord` claim no fullness once `clashed`, only that some row is
  better;
* overlapping transactions on distinct graphs may leave more than *capacity*
  rows (neither trim sees the other's insert), and `try_admit` may report a rank
  for a row that its own trim removed: `AnswerTrue` is checked without overlap;
* the session that took the snapshot lock lies idle in the pool while the server
  captures, and the pool closes idle and old connections (`main.rs:81`): then
  another server captures too. `OneCaptures` is about the servers that this has
  not happened to (not in `broken`);
* the relay sends a worker nothing of its own, and reads without a timeout
  (`server.rs:160`): a worker that is gone without a word stays listed for ever,
  unless it comes back under its id and then leaves properly. `GoneIsUnlisted`
  exempts such a worker as long as its half-open socket is there (`silent`);
* the telemetry task waits for the relay without a timeout in `connect_async`, in
  the reads of the handshake (`dashboard.rs:111`, `:120`, `:184`) and in every
  send, and does not look at the shutdown there: a relay that falls silent holds
  it for ever. `TelemetryEnds` says that nothing else does;
* in `Submit`, a slow read fills the cache after its invalidation, so a cached
  answer may be old until its TTL ends, also when no request is at work.
  `CachedStands` is what remains true of it;
* `engine.rs:155` calls a `max_submissions_per_round` of 0 unlimited, the code takes
  it as 20 (`BatchSize`); `BufferDrains` holds either way;
* a focused tabu search whose guilty edges are all tabu flips one of them back
  though other edges are free (`tabu.rs:278`): the model does the same, and no
  property speaks of the tenure;
* after a failed handshake the telemetry task tries again at once
  (`dashboard.rs:138`, `:180`, `:191`): `NeverHammered` is about relays that do
  not accept the connection;
* a search that has no result of its own may return a valid graph as its best
  invalid one when it knew the CID already: the second part of `ResultHonest`;
* its first part exempts the beam search with restarted polishes. `strategy.rs:21`
  asks for every valid graph found to be given to `on_discovery`, but `ils_polish`
  (`polish.rs:383`) may keep as its best a perturbed graph that no walk improved and
  that no walk has reported. With two restarts, perturbations of two flips and
  walks of one step (`Restarts`, `PerturbFlips`, `PolishSteps`) TLC finds it
  once the exemption is taken out. The engine still pushes the graph,
  behind the discoveries; without restarts what is returned was reported or known.

### Fairness

* `Admission`: strong fairness of each transaction's statements (the database
  answers every statement and hands a row lock to a waiter), weak fairness of
  the deadlock detector. No transaction is obliged to begin or to fail.
* `Engine`: weak fairness of the round (requests have a 30 s timeout and a
  search ends after `max_iters`), strong fairness of `Search`: not every search
  panics. Rivals and cache refills are not fair.
* `EngineControl`: weak fairness of the engine's steps, of a waiting send and of
  the error that a dropped channel gives. Clients and Ctrl+C are not fair.
* `Telemetry`: weak fairness of what the task does of itself (`Own`: the runtime
  polls it), strong fairness of `RelayShutdown`, because the select of the relay
  loop takes one of its ready branches at random and so takes the shutdown some
  time, however busy the others are. Nothing obliges the relay to accept, answer,
  take what is sent, or close, or the engine to send or end.
* `Search` needs none: `SearchEnds` says that each step leaves less ahead, and
  the deadlock check that none is stuck before its result.
* `DashboardRelay`: a handler makes its announcement and its farewell, and hears
  of the loss of a socket that is not `silent`; a handshake has ten seconds. Nothing
  is obliged to notice a half-open socket afterwards. Workers and browsers are not
  obliged to come, to stay, or to take events.
* `SnapshotLock`: the timer fires while the lock is to be had, a capture and the
  unlock after it end, and a connection that has the lock is closed at last
  (`max_lifetime`).

## 4. Proofs

Each theorem holds for every value of the constants that their named assumptions
allow (graphs are positive integers, capacities natural numbers, and so on; TLC
evaluates the assumptions in the runs).

**`AdmissionProofs`**, for every set of graphs, capacity and number of
connections:

* `TypeCorrect`: `Spec => []TypeOK`, under any overlap. It includes that a
  transaction leaves no lock behind.
* `IInvAlways`, `TopKeptAlways`, `GroundKept`: if transactions that overlap are
  on distinct graphs (`DistinctInFlight`), then the inductive invariant `IInv`,
  `TopKept` (what was evicted, trimmed or refused is not among the best
  *capacity*) and `StaysBeaten` (no commit gives ground) always hold. Without
  that hypothesis `TopKept` is false: run `AdmissionSameGraph`.

`TopKept` is not inductive: that a pending commit will not harm the board
depends on what all other pending commits take from it. `IInv` therefore says
for each transaction `t` what the board would be if `t` ended now (`After`),
what `t` takes (`Gone`) and that, whenever it takes anything, at least *capacity*
rows of `After(t)` are better than everything in `Gone(t)` (`Safe`). The step to
prove is that the commit of another transaction `u` keeps this although it
removes rows that `t` counted on. The argument is that **of two transactions, the
one that takes the better row vouches for the other**: if `u` takes a row that
`t` counts among its safe ones, the *capacity* rows that are safe for `u` are
better still, and are not taken by `t`. Lemma `CommitGround` states it, and
`SafeKeeps`, `TrimKeeps` and `TrimSafe` apply it to the statements that extend
what a transaction takes; one lemma per action follows. The rest of `IInv` (`Written`, `Alone`,
`Read`) ties the local variables to the program counter and says what a
transaction may still rely on of what it has read.

`EndKeepsAlways` is the contract of section 2, under any overlap. Until two calls for
one graph have overlapped, the behaviour is one in which only distinct graphs do,
and `IInv` gives the contract (`EndKeepsDistinct`). Afterwards, and so in general,
a weaker invariant holds (`AnyInv`): whatever a transaction takes, some row that it
does not take is better, and again of two transactions the one that takes the better row
vouches for the other (`VouchedKeeps`). With overlap of every kind it is proved, and
TLC has checked it outside the runs listed here.

Its last part: if no two calls overlap (`Overlap = "none"`),
`ImplementsLeaderboard` (`Abstract`: each step is a decision of the abstract
leaderboard or a stutter, under the mapping that reads its variables off the
committed table and `decided`) and `BestKeptAlways`. The invariant `SerialInv`
says that the board is the best of what was decided, that at most one
transaction is active, and (`Serial`) how far that one has come: what it has
read is still true, and what it has written is a prefix of the abstract step.
Every return is then a decision, because of lemma `BestOfMore`: the best of the
best and one more graph is the best of all of them. `SerialBeginTrim` shows that
the startup trim finds nothing to do on such a board. `AnswerTrueAlways` adds
that an admitted graph has the reported rank. Its invariant `PlacedInv` keeps the
rank that was counted and fewer than *capacity* better rows together until the
commit, and lemma `BestHasPlaced` says that the best of the board and such a
graph hold it at that place. It assumes a capacity: a board of none inserts,
trims what it inserted, and answers with a rank all the same.

**`SubmitProofs`**, for any number of requests and readers: `RowsBackedAlways`,
`AnnouncedAlways`, `CachedStandsAlways`. `RequestInv` ties the tables behind a
request to its program counter (a request at `admit` has its three rows).
`CacheInv` says of every cached answer, and of every read that is under way, that
it is `Honest`: what each of its boards has seen stands in the later ones and in the
board of now. A call keeps that because of its contract (`KeepsStands`: what is gone
has a better row, and a row beaten by *capacity* others leaves a full board), the
trim of a restart because it keeps the best (`TrimStands`), and a query because it
appends the board of now (`AppendHonest`). Fills, expiries and invalidations only
move such answers or drop them, in whatever order (`KeptStep`).

**`EngineProofs`**, for any graphs, capacity, limits, batch sizes and number of
CIDs kept: `GateKeepsRecordAlways`, `AccountedAlways`, `SubmittedOnceAlways`.
`GateInv` says what old knowledge is still worth: a count that was full is full
now, until submissions of one graph overlap (`Filled`), and a row that was once
read is listed or outdone (`Kept`). The contract keeps both, whoever submits
(`AdmitBoard`), so that every stage may hand on what it has from the one before. `OnceInv` says that, as
long as the trims have forgotten nothing, what is queued or sent is known, nothing
is in two places, and nothing is queued twice; the sorts and cuts of the buffer
keep that because they permute and then split it. `Sorted` is the set of all
sorted arrangements of the buffer: the code sorts by a total order, so the set has
one member, but nothing in the proofs depends on that.

**`ControlProofs`**, for any clients, channel and number of requests:
`AwaitedIsQueuedAlways` and `PausedIsShownAlways`. That a client waits exactly if
its request is in the channel is inductive only with `OneEach`, that nobody has
two there: otherwise taking one would leave another to be answered to nobody.

**`RelayProofs`**, for any workers, sockets, browsers, limit and channel:
`ConnectedListedAlways` and `ConnectionBoundAlways`. `RelayInv` adds to what they
say that open sockets of one id are known as a clash until the last of them closes
(`Alone`; lemma `CloseKeeps`: nobody else is open when a clash ends), and that the
list itself is within the limit (`Room`). The bound on sockets follows by the
injection that takes each socket to its entry. `ListedIsShownAlways` and
`ShownIsListedAlways` are about the far end of a queue of events. `WillShow` is
what the view becomes when the browser has taken all that is queued; `ScreenInv`
says of a browser that missed nothing that it will show every listed worker whose
handler has announced it (`Announced`), and that whoever it will show still has a
handler that will send the farewell (`Truthful`). An event changes that for its own
worker only (`ShowAppend`), and taking one changes nothing (`ShowTake`).

**`SnapshotLockProofs`**: `OneCapturesAlways`, for any number of servers and any
pool, whenever it closes a connection. `LockInv`: one session at most holds the
lock, and while a server captures that is not `broken` it is one of its own.

**`TelemetryProofs`**: `FreshAlways`, for any queue and backoff. The property is
inductive once the queue has its type (`QueueInv`): the drain empties the queue
and leaves the send that is past its look at the flag as the only one from before
the pause, and that send is over when its message is in the queue. `NeverHammeredAlways`
is about the pauses: `BackoffInv` ties `backoff` and the last pause to the number
of pauses since a connection, and lemma `PausesDouble` gives the arithmetic. The
prover knows nothing of powers, so the lemmas before it take 2^n as the number of
subsets of n elements: one more element doubles it, and n elements have more
subsets than elements, which bounds the number of pauses until the longest.

**`SearchProofs`**, for graphs of any number of vertices that a word holds
(`JobAssumption`, `SizesAssumption`: below `WordBits`; the code has 62 and 64),
cliques of any size and any parameters of the strategies. It begins with the
operators of `Cliques` and `Graph`, in four groups of lemmas:

* `CliquesFromLeast`: the cliques of a mask are, for each member, that member put
  to the smaller cliques among what is above and joined to it. `CliquesByLeast`
  counts them: the parts are disjoint, so `SumOfCards` gives the sum that the code
  computes. `CountInMaskExact` and `CountExact` follow for every size, the fast
  paths for pairs and triangles included, and `CliquesFound` for the search that
  marks the guilty edges.
* `BitsApart`: no two slots share a bit of the packed triangle. Hence a packed
  graph has the edges that were packed, its masks are those it was packed from,
  and a complement's are the complements (`MasksBack`).
* `CountThrough`: what `count_cliques_through_edge_assuming` counts are the cliques
  on *u* and *v* if these were joined, by the bijection that takes *u* and *v*
  out.
* `FlipCounts` and `DeltaExact`: a flip of *uv* adds or removes just those
  cliques, so the delta is the change of both counts. They never go below zero
  by it, and the clamp at zero in the strategies does nothing.

The recursions are recursive functions of the size only, each step an operator
of its own (`CountsOf`, `Extensions`): the prover takes a function apart by
`CHOOSE`, which the lemmas do by exhibiting the function that satisfies the
recursive equation, and then goes up the sizes by the induction principle for
subsets of the natural numbers. `PerturbsValid` does the same with the flips of a
perturbation.

The second part is about `Search`. `SearchInv` has a part for each strategy and
for the polish: the masks carried along are those of a graph of the job's size and
of its complement (`BothMasks`), the counts are those of a recount, each candidate
has the counts of the graph that its flip of its parent makes (`CandidateTrue`),
a walk stands on a valid graph and `ils` holds nothing but valid graphs with their
scores (`IlsTrue`), the places of the beam search are within their limits, and
every flip scored has added a fingerprint (`SeenInv`). The properties need all of
it together: that a count is true after a flip needs the masks, that a polish
returns a valid graph needs that what it was handed by a strategy is one, which
needs that this strategy's counts were true. One lemma per action keeps the parts
it moves, and frames (`FrameTree`, `FramePolish`, ...) the rest. From it follow
`CountsTrueAlways`, `PolishGainsAlways`, `BudgetKeptAlways`, and with it
`SearchEndsAlways`: each action lowers one of the ten numbers of `Remaining` and
leaves those before it (`Falls`), and none is ever below zero. `FirstLeast` and
`Ordered`, which stand for the loops that keep the first of the best moves and for
the sort of the candidates, give one of these and an arrangement of those because
the keys differ and are ordered totally (`LexTransitive`, `LexTotal`, `LeastKeyed`,
`OrderedLists`).

`ReportsNewAlways` and `ResultHonestAlways` need a second invariant, `HonestInv`,
next to `SearchInv`: what was reported is valid and makes up, with what the job
brought, what is known (`ReportInv`); and each place where a graph waits to become
the result, the best of a walk, of an annealing, of a strategy, holds a known one
(`WalkFound`, `AnnealFound`, `BestFound`). Without restarts, that is: a walk begun
from a perturbed graph has reported nothing of its beginning, so its graph
may be returned unreported (section 3). These two theorems need nothing of CIDs but
that they are functions of the graph; what they name comes with `NoneTwiceAlways`
below.

The third part is the walk of `GraphWalk`: `CountsExactAlways` and
`GuiltyExactAlways`. `WalkInv` says that `adj` and `comp` are the masks of a graph
and of its complement (`MasksOn`, `Others`) and that the two counts are the numbers
of cliques of these masks (`CliquesIn`).

The other three properties of `GraphWalk` say what recursive definitions over
sequences and bits compute for the graph the walk stands on. Each rests on a theorem
about every graph, whatever walk led to it.

*The canonical form* (`CanonicalForAll`, `CanonicalSharedAlways`). nauty is external;
the model's takes the labelling under which the graph weighs least, as a number with
a bit for each slot. Relabelling is an action of the permutations of the vertices, so
a graph and its relabellings have the same relabelled graphs and the same least
weight. That this leaves one graph needs that sets of bits of one weight are equal:
two different ones differ at a greatest bit, which outweighs all below it together.
`2^b` is again the number of subsets of b elements (`PowerDoubles`), so a weight
counts the sets whose greatest element is one of the bits (`WeightCounts`).
`CidNamesGraphs` adds the text: two graphs have one canonical CID just when one is
the other with its vertices permuted (blake3 is taken to be injective).

*The text* (`TextForAll`, `TextFaithfulAlways`). Groups of six bits packed by a fold
come back out of the byte (`UnpackedIs`), and a sequence flattened from pieces of one
length is indexed by quotient and remainder. So `Decode(Encode(g)) = g`, up to the 62
vertices of a size byte. The refusals follow from the length, from the characters,
and from the size sent along.

*The rank* (`RankedForAll`, `RankedAlikeAlways`). `Ord` compares tier by tier from the
highest tier that either histogram has, the bytes compare tier by tier from `max_k`.
Between the two starts both histograms count nothing, and in front of the place where
two sequences first differ the pieces are equal (`LexBehind`, `LexInParts`). Hence
the two orders agree for any two graphs, of one size or two, and any `max_k`.

*Goodman's bound* (`GoodmanBound`). A cherry is a vertex with one neighbour joined to
it and one that is not. A vertex with *d* neighbours is in *d(n-1-d)* of them, which is
at most `(n-1)^2 div 4`; a triple that is neither in the graph nor in its complement a
triangle has exactly two. So the triples of two colours are at most half of *n* times
that, `TriplesAre` counts all triples by induction on *n*, and the rest is what
`goodman_minimum` computes. The gap, an unsigned difference in the code, never
saturates.

The last theorem puts the two halves of the module together. `ReportsNew` tells
graphs apart by CID; `NoneTwiceAlways` says it of the graphs: whatever the strategy,
its polish, its restarts and its random choices, no reported graph is another one with
its vertices permuted, nor a graph that the job knew with its vertices permuted. It
needs that reports are packed triangles of the job's size (`StepTells`,
`GraphsReported`), that these have no bits but those of slots (`BitHasSlot`: as many
slots as bits, and no two share one), and then `CanonicalForAll`.

Only model-checked: the eight liveness properties (temporal reasoning with fairness
and `ENABLED` is out of the prover's reach: `AllEnd`, `BufferDrains`, `ShutdownEnds`,
`Answered`, `LastWord`, `GoneIsUnlisted`, `CapturesGoOn`, `TelemetryEnds`), and that a
search is never stuck before its result, which is the deadlock check of its run. Every
other property of a passing run is a theorem.

## 5. What the models leave out

* `Submit` and `Engine` have of `try_admit` its contract (section 2), not its
  statements; these are in `Admission`. Where calls may overlap `Engine` also lets
  all ranks tie, more than the code can do.
* In `Engine`, a full CID sync without a cursor reads the board, not the cached
  list. Offline mode, seed graphs and carry state are left out: they change what
  a search finds, and the model lets it find anything. Which 200 of the raw
  discoveries are scored is left to the search's choice.
* Worker and server are assumed to score with the same `max_k`.
* Tables are sets of graphs: how many submissions or receipts a graph has is not
  told apart.
* Authentication, signatures and validation appear as rejections.
* `EngineControl` counts requests (`MaxCalls`); the content of a configuration
  patch is not modelled.
* In `Telemetry` and `DashboardRelay` messages have no content but their kind.
* In `Search`, the Paley graph as a seed (`GraphWalk` starts from it), parameter
  defaults and schemas, progress reports and statistics. `from_bits` and
  `packed_bits`, which hand out the bytes of a graph, are left out of `Graph`.
* PostgreSQL, tokio's channels, the connection pool and nauty are modelled from
  how the code uses them (entries marked external in `PROJECT.json`).
* Not modelled at all: identities and signatures (cryptography, key files and one
  upsert), history, event and verification endpoints (reads without state of
  their own), the command line and the experiment harness (single requests,
  files), the web pages (presentation).

## 6. Plan

1. *Engine* with the cached CID list, offline mode, changing configuration, and a
   worker whose `max_k` is not the server's.
2. *Composition* of `Telemetry` and `DashboardRelay`: one worker's task and its
   handler over a socket with delays.
3. *Proofs*: the types of `EngineControl` and `DashboardRelay` as theorems of
   their own; that the server, which deduplicates by CID, holds no graph under two
   labellings, from `CidNamesGraphs`.
