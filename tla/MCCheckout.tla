------------------------------- MODULE MCCheckout -------------------------------
(* Instances of Checkout: the prices, the codes and the stock of small shops. *)
EXTENDS CheckoutShop, TLC

\* Everything costs 2, a purse holds 2: the wallet pays for one item.
MCPrice == 2
MCCartTotal(rows) == MapThenSumSet(LAMBDA r : r.qty * MCPrice, rows)

\* Every code takes 1 off, and never more than the total.
MCDiscountOff(c, total) == Least(1, total)

MCStock == [i \in Physical |-> 2]
MCScarce == [i \in Physical |-> 1]
MCMaxUses == [c \in Code |-> 1]
MCPurse == [u \in User |-> 2]

Symmetry == Permutations(Worker) \cup Permutations(User)
=============================================================================
