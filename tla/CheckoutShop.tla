------------------------------ MODULE CheckoutShop ------------------------------
(* Checkout implements Shop. The rows a worker is buying count as still in the *)
(* basket, so that the purchase happens at the one step that makes the order.  *)
EXTENDS Checkout

\* A customer's cart and what workers have claimed of it.
Basket ==
  [u \in User |->
     cart[u] \cup UNION {task[w].rows : w \in {v \in Worker : task[v] # Idle /\ task[v].user = u}}]

\* The orders without their idempotency keys.
Entry == [user : User, rows : SUBSET Row, wallet : Nat, code : Code \cup {NoCode},
          status : {"pending", "approved", "rejected"}]

ASSUME EntryAssumption == NoOrder \notin Entry

Book ==
  [o \in OrderId |->
     IF order[o] = NoOrder THEN NoOrder
     ELSE [user |-> order[o].user, rows |-> order[o].rows, wallet |-> order[o].wallet,
           code |-> order[o].code, status |-> order[o].status]]

\* Only a discount code breaks the transaction in which the cart is claimed.
S == INSTANCE Shop WITH basket <- Basket, book <- Book, Loses <- Code # {}

\* The checkout is a shop: whatever steps the workers take, customers see orders
\* appear in one step with everything that belongs to them. Without codes no row
\* ever vanishes from a basket; with codes it may, and that is all that differs.
ImplementsShop == S!Spec
=============================================================================
