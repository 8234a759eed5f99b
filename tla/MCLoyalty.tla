-------------------------------- MODULE MCLoyalty --------------------------------
(* Instances of Loyalty: two orders of one customer, the second of which costs   *)
(* nothing in the end, and a friend of the customer's.                           *)
EXTENDS Loyalty

CONSTANTS ann, eve, o1, o2

MCBuyer == [o \in Order |-> ann]
MCFinal == [o \in Order |-> IF o = o1 THEN 3 ELSE 0]
MCShipping == [o \in Order |-> IF o = o1 THEN 1 ELSE 0]
MCBase == [o \in Order |-> 2]

\* One point per toman, two from the tier that begins at two points.
MCTiers == <<[min |-> 0, mult |-> 100], [min |-> 2, mult |-> 200]>>
MCInvitations == {<<ann, eve>>}
MCCorrections == {-1}
=============================================================================
