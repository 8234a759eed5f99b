----------------------------- MODULE MCCatalogue -----------------------------
(* A small instance of Catalogue for TLC.                                    *)
EXTENDS Catalogue, TLC

\* The slots differ in nothing.
Symmetry == Permutations(Slot)
=============================================================================
