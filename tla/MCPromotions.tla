---------------------------- MODULE MCPromotions ----------------------------
(* A small instance of Promotions for TLC.                                   *)
EXTENDS Promotions, TLC

\* The slots differ in nothing, nor do the names of codes.
Symmetry == Permutations(Slot) \cup Permutations(Code)
=============================================================================
