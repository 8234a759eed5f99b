---------------------------------- MODULE Shop ----------------------------------
(*****************************************************************************)
(* What a shop promises its customers, without processes or transactions: a  *)
(* purchase is one step that moves rows of a basket into an order, takes the *)
(* wallet's share, counts the use of the code and reserves the goods, all or *)
(* nothing.  Checkout is shown to implement it (module CheckoutShop).        *)
(*                                                                           *)
(* Loses says whether rows may also vanish from a basket: not when a         *)
(* checkout is one transaction.                                              *)
(*****************************************************************************)
EXTENDS Integers

CONSTANTS
  User, Row, Code, NoCode, Physical, OrderId, NoOrder,
  Stock, MaxUses, Purse,
  Demand(_, _),    \* how much of an item a set of rows asks for
  Loses            \* whether a basket may lose rows

VARIABLES
  basket,    \* the rows a customer has put together and not yet bought
  dropped,   \* ids of the rows the customers took out again
  credit,    \* wallets
  used,      \* uses of the codes
  reserved,  \* goods promised
  book       \* the orders

vars == <<basket, dropped, credit, used, reserved, book>>

Ids(rows) == {r.id : r \in rows}

Init ==
  /\ basket = [u \in User |-> {}] /\ dropped = {}
  /\ credit = Purse /\ used = [c \in Code |-> 0]
  /\ reserved = [i \in Physical |-> 0]
  /\ book = [o \in OrderId |-> NoOrder]

\* A customer adds a row that was never sold, or changes one.
Fill(u) ==
  /\ \E r \in Row, old \in SUBSET basket[u] :
       /\ \A q \in old : q.id = r.id
       /\ \A o \in OrderId : book[o] # NoOrder => r.id \notin Ids(book[o].rows)
       /\ basket' = [basket EXCEPT ![u] = (@ \ old) \cup {r}]
  /\ UNCHANGED <<dropped, credit, used, reserved, book>>

\* A customer takes rows out.
Drop(u) ==
  /\ \E rows \in SUBSET basket[u] :
       /\ basket' = [basket EXCEPT ![u] = @ \ rows]
       /\ dropped' = dropped \cup Ids(rows)
  /\ UNCHANGED <<credit, used, reserved, book>>

\* A purchase that fails takes the rows with it.
Lose(u) ==
  /\ Loses
  /\ \E rows \in SUBSET basket[u] : basket' = [basket EXCEPT ![u] = @ \ rows]
  /\ UNCHANGED <<dropped, credit, used, reserved, book>>

Buy(u) ==
  \E rows \in (SUBSET basket[u]) \ {{}}, pay \in 0..credit[u], c \in Code \cup {NoCode},
     o \in OrderId, s \in {"pending", "approved"} :
    /\ book[o] = NoOrder
    /\ c # NoCode => (MaxUses[c] = 0 \/ used[c] < MaxUses[c])
    /\ \A i \in Physical : reserved[i] + Demand(rows, i) <= Stock[i]
    /\ basket' = [basket EXCEPT ![u] = @ \ rows]
    /\ book' = [book EXCEPT ![o] =
         [user |-> u, rows |-> rows, wallet |-> pay, code |-> c, status |-> s]]
    /\ credit' = [credit EXCEPT ![u] = @ - pay]
    /\ used' = [k \in Code |-> IF k = c THEN used[k] + 1 ELSE used[k]]
    /\ reserved' = [i \in Physical |-> reserved[i] + Demand(rows, i)]
    /\ UNCHANGED dropped

\* The shop decides on an order once; a rejection gives everything back.
Approve(o) ==
  /\ book[o] # NoOrder /\ book[o].status = "pending"
  /\ book' = [book EXCEPT ![o].status = "approved"]
  /\ UNCHANGED <<basket, dropped, credit, used, reserved>>

Reject(o) ==
  /\ book[o] # NoOrder /\ book[o].status = "pending"
  /\ book' = [book EXCEPT ![o].status = "rejected"]
  /\ credit' = [credit EXCEPT ![book[o].user] = @ + book[o].wallet]
  /\ used' = [k \in Code |-> IF k = book[o].code THEN used[k] - 1 ELSE used[k]]
  /\ reserved' = [i \in Physical |-> reserved[i] - Demand(book[o].rows, i)]
  /\ UNCHANGED <<basket, dropped>>

Next ==
  \/ \E u \in User : Fill(u) \/ Drop(u) \/ Lose(u) \/ Buy(u)
  \/ \E o \in OrderId : Approve(o) \/ Reject(o)

Spec == Init /\ [][Next]_vars
=============================================================================
