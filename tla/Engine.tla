------------------------------- MODULE Engine -------------------------------
(***************************************************************************)
(* The round loop of a worker (run_engine, extremal-worker-core) against   *)
(* the leaderboard that it and its rivals submit to: threshold and CID     *)
(* sync, search, dedup and threshold gate, the submit buffer, the trims.   *)
(* Pause, stop and shutdown are in module EngineControl.                   *)
(*                                                                         *)
(* A submission is one step, the end of its transaction (module Admission  *)
(* has the statements): what it makes of the board is what EndKeeps of     *)
(* Admission allows.  The ranks it stores, and the cached answers, go      *)
(* stale as in the code.                                                   *)
(***************************************************************************)
EXTENDS Ranking, Sequences, TLC, SequencesExt

CONSTANTS
  MaxSubmissions, \* max_submissions_per_round, 0 meaning the default
  DefaultBatch,   \* that default (20 in the code)
  ScoreLimit,     \* MAX_SCORE_PER_ROUND (200)
  BufferHigh,     \* the buffer is cut when longer than this (500) ...
  BufferKeep,     \* ... to this (200)
  MaxKnown,       \* max_known_cids
  Overlap,        \* which submissions overlap: "none" or "any"
  Theirs,         \* what the rivals of the worker submit
  Faults          \* what may go wrong: a subset of {"lost", "unanswered", "panic"}

ASSUME SubmissionsAssumption == MaxSubmissions \in Nat /\ DefaultBatch \in Nat \ {0}
ASSUME OverlapAssumption == Overlap \in {"none", "any"}
ASSUME TheirsAssumption == Theirs \subseteq Graphs
ASSUME LimitsAssumption ==
  /\ ScoreLimit \in Nat /\ MaxKnown \in Nat
  /\ BufferHigh \in Nat /\ BufferKeep \in 0..BufferHigh

None == 0       \* no graph, no threshold

VARIABLES
  board,          \* the leaderboard's rows
  rank,           \* the rank stored when a graph was admitted, 0 if it never was
  clashed,        \* two submissions of one graph have overlapped (history)
  counted,        \* whether the last threshold query of the server saw a full board
  answer,         \* what GET threshold answers now: [full, row]
  pc,             \* where the round is
  full,           \* leaderboard_full
  threshold,      \* threshold_score_bytes
  known,          \* known_cids
  server,         \* server_cids
  cursor,         \* cid_sync_cursor: the graphs whose rows are dated before it
  buffer,         \* submit_buffer
  batch,          \* the rest of to_submit
  sent,           \* graphs whose POST /api/submit left the worker (history)
  lost,           \* graphs of a batch that a failed submit cut short (history)
  trimmed         \* whether a trim of known_cids dropped any (history)

store == <<board, rank, clashed, counted, answer>>
sync  == <<full, threshold, known, server, cursor>>
past  == <<sent, lost, trimmed>>
vars  == <<store, pc, sync, buffer, batch, past>>

Admitted == {g \in Graphs : rank[g] > 0}

Contents(s) == {s[i] : i \in DOMAIN s}

\* sort_by: the entries of s, the best first.
Sorted(s) ==
  {r \in {[i \in DOMAIN s |-> s[p[i]]] : p \in Bijection(DOMAIN s, DOMAIN s)} :
     \A i, j \in DOMAIN s : i < j => r[i] <= r[j]}

-----------------------------------------------------------------------------
(***************************************************************************)
(* The server.                                                             *)
(***************************************************************************)
\* A count of the rows better than g, made before the transaction ends.  Of those
\* that overlap the count may be old: there the ranks tie, and the highest rank is
\* of any row.
NewRank(g) == IF Overlap = "none" THEN Cardinality({b \in board : b < g}) + 1 ELSE 1

\* try_admit ends.  Alone, it leaves the best of what the board was and g; a listed
\* graph is answered "not admitted".
Admit(g) ==
  \E C \in SUBSET (board \cup {g}) :
    /\ clashed' \in {clashed, TRUE}
    /\ Keeps(clashed', board, {g}, C)
    /\ Overlap = "none" => ~clashed' /\ IsBest(C, board \cup {g})
    /\ board' = C
    /\ rank' = IF g \in C \ board THEN [rank EXCEPT ![g] = NewRank(g)] ELSE rank

\* Another worker submits.
Rival(g) ==
  /\ Admit(g)
  /\ UNCHANGED <<counted, answer, pc, sync, buffer, batch, past>>

\* get_threshold refills its cache: leaderboard_count, then, later,
\* leaderboard_threshold.  How long the entry is served is left open.
QueryCount ==
  /\ counted' = (Cardinality(board) >= Capacity)
  /\ UNCHANGED <<board, rank, clashed, answer, pc, sync, buffer, batch, past>>

\* ORDER BY rank DESC LIMIT 1
WorstRanked == {x \in board : \A y \in board : rank[y] <= rank[x]}

QueryThreshold ==
  /\ \E row \in IF board = {} THEN {None} ELSE WorstRanked :
       answer' = [full |-> counted, row |-> row]
  /\ UNCHANGED <<board, rank, clashed, counted, pc, sync, buffer, batch, past>>

-----------------------------------------------------------------------------
(***************************************************************************)
(* The worker's round.                                                     *)
(***************************************************************************)
Goto(from, to) == pc = from /\ pc' = to

FetchThreshold ==
  /\ Goto("threshold", "cids")
  /\ full' = answer.full
  /\ threshold' = answer.row
  /\ UNCHANGED <<store, known, server, cursor, buffer, batch, past>>

\* "threshold fetch failed": the round goes on with the old one.
FetchThresholdFails ==
  /\ "lost" \in Faults
  /\ Goto("threshold", "cids")
  /\ UNCHANGED <<store, sync, buffer, batch, past>>

\* The rows admitted since the cursor.
FetchCids ==
  LET cids == board \ cursor
  IN  /\ Goto("cids", IF cids = {} THEN "search" ELSE "cursor")
      /\ known' = known \cup cids
      /\ server' = server \cup cids
      /\ UNCHANGED <<store, full, threshold, cursor, buffer, batch, past>>

\* The cursor is the worker's clock when it has the answer.  Rows are stamped
\* with the time their transaction began (DEFAULT NOW()), by another clock: some
\* that are committed later fall before the cursor all the same.
AdvanceCursor ==
  /\ Goto("cursor", "search")
  /\ \E late \in SUBSET (Graphs \ Admitted) : cursor' = Admitted \cup late
  /\ UNCHANGED <<store, full, threshold, known, server, buffer, batch, past>>

FetchCidsFails ==
  /\ "lost" \in Faults
  /\ Goto("cids", "search")
  /\ UNCHANGED <<store, sync, buffer, batch, past>>

\* A mutant of Gated: the gate also closes when the board has room.
GatedAlways(g) == threshold # None /\ g >= threshold

Gated(g) == full /\ threshold # None /\ g >= threshold

\* A mutant of Fresh: the dedup is dropped.
FreshUnchecked(S) == S

Fresh(S) == S \ (known \cup server)

\* A mutant of BatchSize: 0 is taken at its word.
BatchSizeRaw == MaxSubmissions

BatchSize == IF MaxSubmissions > 0 THEN MaxSubmissions ELSE DefaultBatch

\* The search reports graphs; the first ScoreLimit are scored, deduplicated
\* and gated; what passes is known from now on, and queued best first.
Search ==
  /\ Goto("search", "submit")
  /\ \E scored \in SUBSET Graphs :
       LET new == {g \in Fresh(scored) : ~Gated(g)}
       IN  /\ IsFiniteSet(scored) /\ Cardinality(scored) <= ScoreLimit
           /\ known' = known \cup new
           /\ \E all \in Sorted(buffer \o SetToSeq(new)) :
                LET take == IF Len(all) < BatchSize THEN Len(all) ELSE BatchSize
                IN  /\ batch' = SubSeq(all, 1, take)
                    /\ buffer' = SubSeq(all, take + 1, Len(all))
  /\ UNCHANGED <<store, full, threshold, server, cursor, past>>

\* "search task panicked": straight to the next round.
SearchPanics ==
  /\ "panic" \in Faults
  /\ Goto("search", "threshold")
  /\ UNCHANGED <<store, sync, buffer, batch, past>>

Submit ==
  /\ pc = "submit" /\ batch # <<>>
  /\ Admit(Head(batch))
  /\ server' = server \cup {Head(batch)}
  /\ sent' = sent \cup {Head(batch)}
  /\ batch' = Tail(batch)
  /\ UNCHANGED <<counted, answer, pc, full, threshold, known, cursor, buffer, lost, trimmed>>

\* "submit failed": the rest of the batch is dropped with it.  The server may
\* have admitted the graph and the answer be lost or late.
SubmitFails ==
  /\ pc = "submit" /\ batch # <<>>
  /\ \/ "lost" \in Faults /\ UNCHANGED <<board, rank, clashed>>
     \/ "unanswered" \in Faults /\ Admit(Head(batch))
  /\ sent' = sent \cup {Head(batch)}
  /\ lost' = lost \cup Contents(batch)
  /\ batch' = <<>>
  /\ UNCHANGED <<counted, answer, pc, sync, buffer, trimmed>>

\* A mutant of CutBuffer: what is dropped stays known.
CutBufferSilently ==
  IF Len(buffer) > BufferHigh
  THEN [keep |-> SubSeq(buffer, Len(buffer) - BufferKeep + 1, Len(buffer)), drop |-> {}]
  ELSE [keep |-> buffer, drop |-> {}]

\* Cap buffer: drain(..len - BufferKeep), and the dropped are forgotten.
CutBuffer ==
  IF Len(buffer) > BufferHigh
  THEN LET cut == Len(buffer) - BufferKeep
       IN  [keep |-> SubSeq(buffer, cut + 1, Len(buffer)),
            drop |-> Contents(SubSeq(buffer, 1, cut))]
  ELSE [keep |-> buffer, drop |-> {}]

\* Above the limit, all but target members go, in the order of a hash set.
Trims(S, limit, target) ==
  IF Cardinality(S) > limit THEN {T \in SUBSET S : Cardinality(T) = target} ELSE {S}

EndRound ==
  /\ pc = "submit" /\ batch = <<>>
  /\ pc' = "threshold"
  /\ buffer' = CutBuffer.keep
  /\ known' \in Trims(known \ CutBuffer.drop, 2 * MaxKnown, MaxKnown)
  /\ server' \in Trims(server, MaxKnown, MaxKnown \div 2)
  /\ trimmed' = (trimmed \/ known' # known \ CutBuffer.drop)
  /\ UNCHANGED <<store, full, threshold, cursor, batch, sent, lost>>

Round ==
  \/ FetchThreshold \/ FetchThresholdFails
  \/ FetchCids \/ AdvanceCursor \/ FetchCidsFails
  \/ Search \/ SearchPanics
  \/ Submit \/ SubmitFails \/ EndRound

Init ==
  /\ board = {}
  /\ rank = [g \in Graphs |-> 0]
  /\ clashed = FALSE
  /\ counted = FALSE
  /\ answer = [full |-> FALSE, row |-> None]
  /\ pc = "threshold"
  /\ full = FALSE
  /\ threshold = None
  /\ known = {} /\ server = {} /\ cursor = {}
  /\ buffer = <<>> /\ batch = <<>>
  /\ sent = {} /\ lost = {} /\ trimmed = FALSE

Next ==
  \/ \E g \in Theirs : Rival(g)
  \/ QueryCount \/ QueryThreshold
  \/ Round

Spec == Init /\ [][Next]_vars

\* Requests time out after 30 s and a search ends after max_iters: the round
\* always goes on, and not every search panics.  Nothing obliges a rival, or the
\* cache, to do anything.
FairSpec == Spec /\ WF_vars(Round) /\ SF_vars(Search)

-----------------------------------------------------------------------------
\* What the gate skips of what the search may find.
Skipped == IF pc = "search" THEN {g \in Fresh(Graphs) : Gated(g)} ELSE {}

(***************************************************************************)
(* However stale the threshold, and though it may not be the worst row,    *)
(* what the gate skips is never a new record: it is listed, or some row is *)
(* better.  Nor has the board room for it, unless two submissions of one   *)
(* graph have overlapped and left a full board with too few rows.          *)
(***************************************************************************)
GateKeepsRecord ==
  \A g \in Skipped :
    /\ g \in board \/ Outdone(g, board)
    /\ clashed \/ Cardinality(board) >= Capacity

(***************************************************************************)
(* "skip submissions that can't beat it": what the gate skips is listed,   *)
(* or has the whole board above it.                                        *)
(***************************************************************************)
GateSkipsBeaten == \A g \in Skipped : g \in board \/ Beaten(g, board)

(***************************************************************************)
(* "never re-submit known CIDs": a graph leaves the worker once, until a   *)
(* trim of known_cids forgets some.                                        *)
(***************************************************************************)
SubmittedOnce ==
  [][Submit \/ SubmitFails => trimmed \/ Head(batch) \notin sent]_vars

(***************************************************************************)
(* No discovery that passed the gate disappears while it counts as known:  *)
(* it waits in the buffer or the batch, or the server has decided it, or a *)
(* failed submit dropped its batch.  The cut of the buffer gives back what *)
(* it drops.                                                               *)
(***************************************************************************)
Accounted ==
  known \subseteq Admitted \cup sent \cup lost \cup Contents(batch) \cup Contents(buffer)

(***************************************************************************)
(* While the trims forget nothing, a buffered discovery is submitted or    *)
(* dropped some day: the better ones that overtake it in the queue come    *)
(* only once.  (What is forgotten can be found, queued and submitted       *)
(* again, for ever.)                                                       *)
(***************************************************************************)
BufferDrains ==
  \A g \in Graphs :
    g \in Contents(buffer) ~> g \notin Contents(buffer) \/ trimmed
=============================================================================
