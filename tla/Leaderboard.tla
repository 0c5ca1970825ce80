----------------------------- MODULE Leaderboard -----------------------------
(***************************************************************************)
(* What the leaderboard of one vertex count promises: it keeps the best    *)
(* Capacity graphs of all that were ever offered.  This is the abstract    *)
(* specification of Store::try_admit (extremal-store/src/lib.rs) with the  *)
(* whole transaction as one step; module Admission has the transaction     *)
(* statement by statement.                                                 *)
(***************************************************************************)
EXTENDS Ranking

VARIABLES
  board,      \* the rows of the leaderboard table for this n
  offered     \* every graph whose admission was decided so far

vars == <<board, offered>>

-----------------------------------------------------------------------------
Init ==
  /\ board = {}
  /\ offered = {}

Offer(g) ==
  /\ \E B \in SUBSET (board \cup {g}) : IsBest(B, board \cup {g}) /\ board' = B
  /\ offered' = offered \cup {g}

Next == \E g \in Graphs : Offer(g)

Spec == Init /\ [][Next]_vars

-----------------------------------------------------------------------------
(***************************************************************************)
(* The board is the best Capacity of everything offered, in whatever order *)
(* the offers came: try_admit only ever compares with the worst row of the *)
(* moment, and a graph once evicted or refused is never reconsidered.      *)
(***************************************************************************)
KeepsBest == IsBest(board, offered)
=============================================================================
