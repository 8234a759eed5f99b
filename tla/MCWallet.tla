--------------------------------- MODULE MCWallet ---------------------------------
(* Instances of Wallet: eve follows the link of ann, or of bob, or of both; bob   *)
(* follows the link of ann.                                                      *)
EXTENDS Wallet

CONSTANTS ann, bob, eve, o1, o2

MCLink == {<<ann, eve>>, <<bob, eve>>, <<ann, bob>>}
MCBuyer == [o \in Order |-> IF o = o1 THEN eve ELSE bob]
MCCommission == [o \in Order |-> IF o = o1 THEN 1 ELSE 2]
MCOwner == [t \in TopUp |-> bob]
MCAmount == [t \in TopUp |-> 5]
=============================================================================
