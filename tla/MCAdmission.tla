---------------------------- MODULE MCAdmission ----------------------------
(***************************************************************************)
(* Admission for TLC: the connections of the pool are interchangeable.     *)
(***************************************************************************)
EXTENDS Admission, TLC

Symmetry == Permutations(Txs)
=============================================================================
