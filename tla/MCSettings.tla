----------------------------- MODULE MCSettings -----------------------------
(* A small instance of Settings for TLC.                                     *)
EXTENDS Settings, TLC

\* The threads differ in nothing.
Symmetry == Permutations(Worker)
=============================================================================
