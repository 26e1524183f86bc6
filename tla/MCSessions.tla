------------------------------- MODULE MCSessions -------------------------------
(* Accounts and runs are interchangeable.                                   *)
EXTENDS Sessions, TLC
Symmetry == Permutations(Accounts) \cup Permutations(Runs)
=============================================================================
