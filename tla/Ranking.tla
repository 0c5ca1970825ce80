------------------------------- MODULE Ranking -------------------------------
(***************************************************************************)
(* The order of the graphs of one leaderboard.  A graph is its position in *)
(* the order of score_bytes: the bytes end with the CID, so two different  *)
(* graphs never tie, and the smaller bytes rank higher.                    *)
(***************************************************************************)
EXTENDS Integers, FiniteSets

CONSTANTS
  Graphs,     \* the graphs that may be submitted, by position in the score order
  Capacity    \* leaderboard_capacity of the server's configuration

ASSUME GraphsAssumption == Graphs \subseteq Nat \ {0}
ASSUME CapacityAssumption == Capacity \in Nat

AtMost(k, S) == IF Cardinality(S) <= k THEN Cardinality(S) ELSE k

\* B is the best Capacity of S, or all of it.
IsBest(B, S) ==
  /\ B \subseteq S
  /\ Cardinality(B) = AtMost(Capacity, S)
  /\ \A x \in B, y \in S \ B : x < y

\* g is out of the best Capacity of S.
Beaten(g, S) == Cardinality({b \in S : b < g}) >= Capacity

\* Some row of S is better than g.
Outdone(g, S) == Capacity = 0 \/ \E b \in S : b < g

(***************************************************************************)
(* What one try_admit may make of the rows B and of S, its graph, by the   *)
(* time it ends, whatever the others have done since it began.  What is    *)
(* gone is beaten by Capacity rows; but after two calls for one graph have *)
(* overlapped, only by some row.  Module Admission shows that its          *)
(* statements keep to this, and the modules of those who call it rely on   *)
(* nothing else.                                                           *)
(***************************************************************************)
Keeps(clash, B, S, C) ==
  /\ C \subseteq B \cup S
  /\ \A x \in (B \cup S) \ C : IF clash THEN Outdone(x, C) ELSE Beaten(x, C)
=============================================================================
