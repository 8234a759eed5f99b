----------------------------- MODULE MCFulfillment -----------------------------
(* Instances of Fulfillment: two orders of one and two pieces of a variant.   *)
EXTENDS Fulfillment, TLC

CONSTANTS o1, o2

MCQty == [o \in Order |-> IF o = o1 THEN 1 ELSE 2]
MCDeltas == {1, -1}

Symmetry == Permutations(Admin)
=============================================================================
