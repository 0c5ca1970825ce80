------------------------------- MODULE MCSubmit -------------------------------
(* Model-checking definitions for Submit.                                    *)
EXTENDS Submit, TLC

\* Nothing distinguishes the requests before one arrives in them.
Symmetry == Permutations(Requests)
=============================================================================
