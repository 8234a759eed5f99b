----------------------------- MODULE MCSupport -----------------------------
(* A small instance of Support for TLC.                                      *)
EXTENDS Support, TLC

\* The slots differ in nothing, nor do the administrators of the web.
Symmetry == Permutations(Slot) \cup Permutations(Web)
=============================================================================
