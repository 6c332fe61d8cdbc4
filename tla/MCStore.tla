------------------------------ MODULE MCStore ------------------------------
(***************************************************************************)
(* Small instances of Store for TLC.                                       *)
(***************************************************************************)
EXTENDS Store, TLC

\* Players and requests are interchangeable: no definition names one.
Symmetry == Permutations(Players) \cup Permutations(Requests)
RequestSymmetry == Permutations(Requests)
=============================================================================
