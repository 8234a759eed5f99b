----------------------------- MODULE CheckoutProofs -----------------------------
(* What the checkout guarantees for any number of customers, workers, items,  *)
(* codes, rows and orders, and any prices.                                    *)
EXTENDS CheckoutShop, SumTheorems, TLAPS

-----------------------------------------------------------------------------
(* The operators the checkout is built from.                                  *)

\* The smaller of two amounts is an amount, and at most each of them.
LEMMA LeastBounds ==
  ASSUME NEW a \in Nat, NEW b \in Nat
  PROVE  Least(a, b) \in Nat /\ Least(a, b) <= a /\ Least(a, b) <= b
BY DEF Least

\* MAX(..., 0) in SQL gives an amount.
LEMMA Floor0Nat ==
  ASSUME NEW n \in Int
  PROVE  Floor0(n) \in Nat
BY DEF Floor0

\* A set of rows asks for an amount of an item, and for nothing of an item that
\* is in no row.
LEMMA DemandNat ==
  ASSUME NEW rows \in SUBSET Row, NEW i
  PROVE  Demand(rows, i) \in Nat
<1>1. CASE \E r \in rows : r.item = i
  <2>1. (CHOOSE r \in rows : r.item = i) \in rows
    BY <1>1
  <2>2. (CHOOSE r \in rows : r.item = i).qty \in 1..MaxQty
    BY <2>1 DEF Row
  <2> QED BY <1>1, <2>2, CheckoutAssumption DEF Demand
<1>2. CASE ~ \E r \in rows : r.item = i
  BY <1>2 DEF Demand
<1> QED BY <1>1, <1>2

\* Rows that are in stock leave room for what they ask for.
LEMMA DemandFits ==
  ASSUME NEW rows \in SUBSET Row, InStock(rows), NEW i \in Physical,
         reserved \in [Physical -> Nat], reserved[i] <= Stock[i]
  PROVE  reserved[i] + Demand(rows, i) <= Stock[i]
<1>1. CASE \E r \in rows : r.item = i
  <2> DEFINE q == CHOOSE r \in rows : r.item = i
  <2>1. q \in rows /\ q.item = i
    BY <1>1
  <2>2. reserved[i] + q.qty <= Stock[i]
    BY <2>1 DEF InStock
  <2> QED BY <1>1, <2>2 DEF Demand
<1>2. CASE ~ \E r \in rows : r.item = i
  BY <1>2, CheckoutAssumption DEF Demand
<1> QED BY <1>1, <1>2

-----------------------------------------------------------------------------
(* Types.                                                                     *)

\* What Place writes is well typed when the payment is an amount the customer has.
LEMMA PlaceTypes ==
  ASSUME TypeOK, NEW w \in Worker, task[w] # Idle,
         NEW rows \in SUBSET Row, NEW off \in Nat, NEW pay \in Nat,
         pay <= credit[task[w].user],
         Place(w, rows, off, pay)
  PROVE  /\ credit' \in [User -> Nat] /\ used' \in [Code -> Nat]
         /\ reserved' \in [Physical -> Nat]
         /\ order' \in [OrderId -> Order \cup {NoOrder}]
         /\ nextOrder' \in 1..(MaxOrder + 1)
         /\ idem' \in [Key -> 0..MaxOrder]
         /\ task' \in [Worker -> Task \cup {Idle}]
<1> DEFINE t == task[w]
<1>1. t \in Task
  BY DEF TypeOK
<1>2. /\ t.user \in User /\ t.code \in Code \cup {NoCode} /\ t.key \in Key
  BY <1>1 DEF Task
<1>3. credit' \in [User -> Nat]
  <2>1. credit[t.user] - pay \in Nat
    BY <1>2 DEF TypeOK
  <2> QED BY <2>1 DEF TypeOK, Place
<1>4. used' \in [Code -> Nat]
  BY DEF TypeOK, Place
<1>5. reserved' \in [Physical -> Nat]
  BY DemandNat DEF TypeOK, Place
<1>6. nextOrder \in OrderId
  BY CheckoutAssumption DEF Place, TypeOK, OrderId
<1>7. order' \in [OrderId -> Order \cup {NoOrder}]
  <2>1. PICK auto \in BOOLEAN :
          order' = [order EXCEPT ![nextOrder] =
            [user |-> t.user, rows |-> rows, wallet |-> pay, code |-> t.code, key |-> t.key,
             status |-> IF auto /\ Due(rows, off, pay) <= 0 THEN "approved" ELSE "pending"]]
    BY DEF Place
  <2>2. [user |-> t.user, rows |-> rows, wallet |-> pay, code |-> t.code, key |-> t.key,
         status |-> IF auto /\ Due(rows, off, pay) <= 0 THEN "approved" ELSE "pending"]
          \in Order
    BY <1>2 DEF Order
  <2> QED BY <2>1, <2>2, <1>6 DEF TypeOK
<1>8. nextOrder' \in 1..(MaxOrder + 1)
  BY CheckoutAssumption DEF Place, TypeOK
<1>9. idem' \in [Key -> 0..MaxOrder]
  <2>1. nextOrder \in 0..MaxOrder
    BY <1>6 DEF OrderId
  <2> QED BY <2>1, <1>2 DEF TypeOK, Place
<1>10. task' \in [Worker -> Task \cup {Idle}]
  BY DEF TypeOK, Place, Return, Go
<1> QED BY <1>3, <1>4, <1>5, <1>7, <1>8, <1>9, <1>10

\* A new or changed row is a row; a cart without some of its rows is a cart.
LEMMA CustomerTypes ==
  ASSUME TypeOK, NEW u \in User, Customer(u)
  PROVE  TypeOK'
<1>1. ASSUME NEW i \in Item, NEW q \in 1..MaxQty, PutInCart(u, i, q)
      PROVE  TypeOK'
  <2>1. UNCHANGED <<dropped, onSale, credit, used, reserved, order, nextOrder, idem, task>>
    BY <1>1 DEF PutInCart, books
  <2>2. CASE \E r \in cart[u] :
               /\ r.item = i
               /\ cart' = [cart EXCEPT ![u] = (@ \ {r}) \cup {[r EXCEPT !.qty = q]}]
               /\ UNCHANGED nextRow
    <3>1. PICK r \in cart[u] :
            /\ cart' = [cart EXCEPT ![u] = (@ \ {r}) \cup {[r EXCEPT !.qty = q]}]
            /\ UNCHANGED nextRow
      BY <2>2
    <3>2. r \in Row
      BY DEF TypeOK
    <3>3. [r EXCEPT !.qty = q] \in Row
      BY <3>2 DEF Row
    <3>4. cart' \in [User -> SUBSET Row]
      BY <3>1, <3>3 DEF TypeOK
    <3> QED BY <2>1, <3>1, <3>4 DEF TypeOK
  <2>3. CASE /\ nextRow <= MaxRow
             /\ cart' = [cart EXCEPT ![u] = @ \cup {[id |-> nextRow, item |-> i, qty |-> q]}]
             /\ nextRow' = nextRow + 1
    <3>1. [id |-> nextRow, item |-> i, qty |-> q] \in Row
      BY <2>3, CheckoutAssumption DEF TypeOK, Row
    <3>2. cart' \in [User -> SUBSET Row]
      BY <2>3, <3>1 DEF TypeOK
    <3>3. nextRow' \in 1..(MaxRow + 1)
      BY <2>3, CheckoutAssumption DEF TypeOK
    <3> QED BY <2>1, <3>2, <3>3 DEF TypeOK
  <2> QED BY <1>1, <2>2, <2>3 DEF PutInCart
<1>2. ASSUME NEW rows \in SUBSET cart[u], RemoveFromCart(u, rows)
      PROVE  TypeOK'
  <2>1. cart' \in [User -> SUBSET Row]
    BY <1>2 DEF TypeOK, RemoveFromCart
  <2>2. RowIds(rows) \subseteq 1..MaxRow
    BY DEF TypeOK, RowIds, Row
  <2> QED BY <1>2, <2>1, <2>2 DEF TypeOK, RemoveFromCart, books
<1> QED BY <1>1, <1>2 DEF Customer

\* A worker that has claimed a cart in a transaction of its own brings a code.
SplitHasCode ==
  \A w \in Worker :
    task[w] # Idle /\ task[w].pc \in {"claimed", "quoted"} => task[w].code \in Code

\* Every step of a worker inside checkout_cart keeps the types: in particular no
\* wallet goes below zero, whatever happened since its credit was read.
LEMMA RunTypes ==
  ASSUME TypeOK, SplitHasCode, NEW w \in Worker, Run(w)
  PROVE  TypeOK'
<1> DEFINE t == task[w]
<1>1. task[w] # Idle /\ t \in Task
  BY DEF TypeOK, Run, FastPath, PreCheck, Refuse, CheckoutPlain, ClaimCart, Quote, Settle, At
<1>2. t.user \in User /\ t.rows \in SUBSET Row /\ t.pay \in Nat /\ t.code \in Code \cup {NoCode}
  BY <1>1 DEF Task
<1>3. CASE FastPath(w) \/ PreCheck(w) \/ Refuse(w)
  <2>1. [t EXCEPT !.pc = "new"] \in Task /\ [t EXCEPT !.pc = "ready"] \in Task
    BY <1>1 DEF Task
  <2>2. task' \in [Worker -> Task \cup {Idle}]
    BY <1>3, <2>1 DEF TypeOK, FastPath, PreCheck, Refuse, Return, Go
  <2> QED BY <1>3, <2>2 DEF TypeOK, FastPath, PreCheck, Refuse, shop, books
<1>4. CASE CheckoutPlain(w)
  <2>1. CASE Return(w) /\ UNCHANGED <<cart, books>>
    BY <1>4, <2>1 DEF TypeOK, CheckoutPlain, Return, Go, books
  <2>2. CASE /\ cart' = [cart EXCEPT ![t.user] = Unclaimed(cart[t.user])]
             /\ Place(w, cart[t.user], 0, Least(credit[t.user], CartTotal(cart[t.user])))
    <3>1. cart[t.user] \in SUBSET Row /\ credit[t.user] \in Nat
      BY <1>2 DEF TypeOK
    <3>2. CartTotal(cart[t.user]) \in Nat
      BY <3>1, PricingAssumption
    <3> DEFINE pay == Least(credit[t.user], CartTotal(cart[t.user]))
    <3>3. pay \in Nat /\ pay <= credit[t.user]
      BY <3>1, <3>2, LeastBounds
    <3> HIDE DEF pay
    <3>4. /\ credit' \in [User -> Nat] /\ used' \in [Code -> Nat]
          /\ reserved' \in [Physical -> Nat]
          /\ order' \in [OrderId -> Order \cup {NoOrder}]
          /\ nextOrder' \in 1..(MaxOrder + 1)
          /\ idem' \in [Key -> 0..MaxOrder]
          /\ task' \in [Worker -> Task \cup {Idle}]
      <4>1. Place(w, cart[t.user], 0, pay)
        BY <2>2 DEF pay
      <4> QED BY <1>1, <3>1, <3>3, <4>1, PlaceTypes
    <3>5. cart' \in [User -> SUBSET Row]
      BY <2>2 DEF TypeOK, Unclaimed
    <3>6. UNCHANGED <<nextRow, dropped, onSale>>
      BY <1>4 DEF CheckoutPlain
    <3> QED BY <3>4, <3>5, <3>6 DEF TypeOK
  <2> QED BY <1>4, <2>1, <2>2 DEF CheckoutPlain
<1>5. CASE ClaimCart(w)
  <2>1. cart' \in [User -> SUBSET Row] /\ cart[t.user] \in SUBSET Row
    BY <1>2, <1>5 DEF TypeOK, ClaimCart, Unclaimed
  <2>2. [t EXCEPT !.pc = "claimed", !.rows = cart[t.user]] \in Task
    BY <1>1, <2>1 DEF Task
  <2>3. task' \in [Worker -> Task \cup {Idle}]
    BY <1>5, <2>2 DEF TypeOK, ClaimCart, Return, Go
  <2> QED BY <1>5, <2>1, <2>3 DEF TypeOK, ClaimCart, books
<1>6. CASE Quote(w)
  <2>1. CASE Return(w)
    BY <1>6, <2>1 DEF TypeOK, Quote, Return, Go, shop, books
  <2>2. CASE Go(w, [t EXCEPT !.pc = "quoted",
                             !.pay = Least(credit[t.user], CartTotal(t.rows) - Off(t))])
    <3> DEFINE pay == Least(credit[t.user], CartTotal(t.rows) - Off(t))
    <3>1. t.code \in Code
      BY <1>2, <1>6 DEF SplitHasCode, Quote, At
    <3>2. CartTotal(t.rows) \in Nat /\ Off(t) \in 0..CartTotal(t.rows)
      BY <1>2, <3>1, PricingAssumption DEF Off
    <3>3. CartTotal(t.rows) - Off(t) \in Nat /\ credit[t.user] \in Nat
      BY <1>2, <3>2 DEF TypeOK
    <3>4. pay \in Nat
      BY <3>3, LeastBounds
    <3>5. [t EXCEPT !.pc = "quoted", !.pay = pay] \in Task
      <4> HIDE DEF pay
      <4> QED BY <1>1, <3>4 DEF Task
    <3>6. task' \in [Worker -> Task \cup {Idle}]
      BY <2>2, <3>5 DEF TypeOK, Go
    <3> QED BY <1>6, <3>6 DEF TypeOK, Quote, shop, books
  <2> QED BY <1>6, <2>1, <2>2 DEF Quote
<1>7. CASE Settle(w)
  <2>1. CASE Return(w) /\ UNCHANGED books
    BY <1>7, <2>1 DEF TypeOK, Settle, Return, Go, shop, books
  <2>2. CASE CanDebit(t.user, t.pay) /\ Place(w, t.rows, Off(t), t.pay)
    <3>1. t.pay <= credit[t.user]
      BY <1>2, <2>2 DEF CanDebit, TypeOK
    <3>2. Off(t) \in Nat
      <4>1. t.code \in Code
        BY <1>2, <1>7 DEF SplitHasCode, Settle, At
      <4> QED BY <1>2, <4>1, PricingAssumption DEF Off
    <3>3. /\ credit' \in [User -> Nat] /\ used' \in [Code -> Nat]
          /\ reserved' \in [Physical -> Nat]
          /\ order' \in [OrderId -> Order \cup {NoOrder}]
          /\ nextOrder' \in 1..(MaxOrder + 1)
          /\ idem' \in [Key -> 0..MaxOrder]
          /\ task' \in [Worker -> Task \cup {Idle}]
      BY <1>1, <1>2, <2>2, <3>1, <3>2, PlaceTypes
    <3> QED BY <1>7, <3>3 DEF TypeOK, Settle, shop
  <2> QED BY <1>7, <2>1, <2>2 DEF Settle
<1> QED BY <1>3, <1>4, <1>5, <1>6, <1>7 DEF Run

LEMMA DecideTypes ==
  ASSUME TypeOK, NEW o \in OrderId, Approve(o) \/ Reject(o)
  PROVE  TypeOK'
<1>1. order[o] \in Order
  BY DEF TypeOK, Approve, Reject, CanDecide, Placed
<1>2. [order[o] EXCEPT !.status = "approved"] \in Order
  /\ [order[o] EXCEPT !.status = "rejected"] \in Order
  BY <1>1 DEF Order
<1>3. CASE Approve(o)
  BY <1>2, <1>3 DEF TypeOK, Approve, shop
<1>4. CASE Reject(o)
  <2>1. order[o].user \in User /\ order[o].wallet \in Nat /\ order[o].rows \in SUBSET Row
    BY <1>1 DEF Order
  <2>2. credit' \in [User -> Nat]
    <3>1. Floor0(credit[order[o].user] + order[o].wallet) \in Nat
      BY <2>1, Floor0Nat DEF TypeOK
    <3> QED BY <1>4, <3>1 DEF TypeOK, Reject
  <2>3. used' \in [Code -> Nat]
    <3>1. \A c \in Code : Floor0(used[c] - 1) \in Nat
      BY Floor0Nat DEF TypeOK
    <3> QED BY <1>4, <3>1 DEF TypeOK, Reject
  <2>4. reserved' \in [Physical -> Nat]
    <3>1. \A i \in Physical : Floor0(reserved[i] - Demand(order[o].rows, i)) \in Nat
      BY <2>1, DemandNat, Floor0Nat DEF TypeOK
    <3> QED BY <1>4, <3>1 DEF TypeOK, Reject
  <2>5. order' \in [OrderId -> Order \cup {NoOrder}]
    BY <1>2, <1>4 DEF TypeOK, Reject
  <2> QED BY <1>4, <2>2, <2>3, <2>4, <2>5 DEF TypeOK, Reject, shop
<1> QED BY <1>3, <1>4

\* Only the claim of a cart and the quote bring a worker into the split checkout.
LEMMA SplitOnlyBy ==
  ASSUME TypeOK, [Next]_vars, NEW v \in Worker, task'[v] # task[v],
         task'[v] # Idle, task'[v].pc \in {"claimed", "quoted"}
  PROVE  ClaimCart(v) \/ Quote(v)
<1>1. ASSUME NEW w \in Worker, Run(w) PROVE ClaimCart(v) \/ Quote(v)
  <2>1. task[w] \in Task
    BY <1>1 DEF TypeOK, Run, FastPath, PreCheck, Refuse, CheckoutPlain, ClaimCart, Quote, Settle, At
  <2>2. CASE FastPath(w) \/ PreCheck(w)
    <3>1. [task[w] EXCEPT !.pc = "new"].pc = "new" /\ [task[w] EXCEPT !.pc = "ready"].pc = "ready"
      BY <2>1 DEF Task
    <3> QED BY <2>2, <3>1 DEF TypeOK, FastPath, PreCheck, Return, Go
  <2>3. CASE Refuse(w) \/ CheckoutPlain(w) \/ Settle(w)
    BY <2>3 DEF TypeOK, Refuse, CheckoutPlain, Settle, Place, Return, Go, books
  <2>4. CASE ClaimCart(w) \/ Quote(w)
    <3>1. w = v
      BY <2>4 DEF TypeOK, ClaimCart, Quote, Return, Go
    <3> QED BY <2>4, <3>1
  <2> QED BY <1>1, <2>2, <2>3, <2>4 DEF Run
<1>2. ASSUME NEW w \in Worker, NEW u \in User, NEW c \in Code \cup {NoCode}, NEW s \in Ship,
             Call(w, u, c, s)
      PROVE  FALSE
  BY <1>2 DEF TypeOK, Call, Go
<1>3. ASSUME NEW w \in Worker, Crash(w) PROVE FALSE
  BY <1>3 DEF TypeOK, Crash, Go
<1>4. ASSUME NEW u \in User, Customer(u) PROVE FALSE
  BY <1>4 DEF Customer, PutInCart, RemoveFromCart
<1>5. ASSUME NEW x \in Switchable, Switch(x) PROVE FALSE
  BY <1>5 DEF Switch
<1>6. ASSUME NEW o \in OrderId, Approve(o) \/ Reject(o) PROVE FALSE
  BY <1>6 DEF Approve, Reject
<1>7. CASE UNCHANGED vars
  BY <1>7 DEF vars
<1> QED BY <1>1, <1>2, <1>3, <1>4, <1>5, <1>6, <1>7 DEF Next

\* A worker carries a code into the split checkout and keeps it.
LEMMA SplitStep ==
  ASSUME TypeOK, TypeOK', SplitHasCode, [Next]_vars
  PROVE  SplitHasCode'
<1> SUFFICES ASSUME NEW v \in Worker, task'[v] # Idle, task'[v].pc \in {"claimed", "quoted"}
             PROVE  task'[v].code \in Code
  BY DEF SplitHasCode
<1>1. CASE task'[v] = task[v]
  BY <1>1 DEF SplitHasCode
<1>2. CASE task'[v] # task[v]
  <2>1. task'[v] \in Task
    BY DEF TypeOK
  <2>2. CASE ClaimCart(v)
    <3>1. task[v] \in Task /\ task[v].code # NoCode
      BY <2>2 DEF ClaimCart, At, TypeOK
    <3>2. task'[v] = [task[v] EXCEPT !.pc = "claimed", !.rows = cart[task[v].user]]
      BY <2>2 DEF ClaimCart, Return, Go, TypeOK
    <3> QED BY <3>1, <3>2 DEF Task
  <2>3. CASE Quote(v)
    <3>1. task[v] \in Task /\ task[v].code \in Code
      BY <2>3 DEF SplitHasCode, Quote, At, TypeOK
    <3>2. PICK pay : task'[v] = [task[v] EXCEPT !.pc = "quoted", !.pay = pay]
      BY <2>3 DEF Quote, Return, Go, TypeOK
    <3> QED BY <3>1, <3>2 DEF Task
  <2> QED BY <1>2, <2>2, <2>3, SplitOnlyBy
<1> QED BY <1>1, <1>2

\* The invariant that proves the types: TypeOK alone is not inductive, because a
\* worker that quotes without a code would have no discount to take off.
LEMMA TypeAndSplit == Spec => [](TypeOK /\ SplitHasCode)
<1>1. Init => TypeOK /\ SplitHasCode
  <2> SUFFICES ASSUME Init PROVE TypeOK /\ SplitHasCode
    OBVIOUS
  <2>1. nextRow \in 1..(MaxRow + 1) /\ nextOrder \in 1..(MaxOrder + 1) /\ 0 \in 0..MaxOrder
    BY CheckoutAssumption DEF Init
  <2>2. TypeOK
    BY <2>1, CheckoutAssumption DEF Init, TypeOK
  <2> QED BY <2>2 DEF Init, SplitHasCode
<1>2. TypeOK /\ SplitHasCode /\ [Next]_vars => TypeOK' /\ SplitHasCode'
  <2> SUFFICES ASSUME TypeOK, SplitHasCode, [Next]_vars PROVE TypeOK' /\ SplitHasCode'
    OBVIOUS
  <2>1. TypeOK'
    <3>1. ASSUME NEW x \in Switchable, Switch(x) PROVE TypeOK'
      BY <3>1, CheckoutAssumption DEF TypeOK, Switch, books
    <3>2. ASSUME NEW w \in Worker, NEW u \in User, NEW c \in Code \cup {NoCode}, NEW s \in Ship,
                 Call(w, u, c, s)
          PROVE  TypeOK'
      <4>1. PICK n \in 0..MaxRow :
              Go(w, [pc |-> "called", user |-> u, code |-> c, ship |-> s,
                     key |-> <<u, n>>, rows |-> {}, pay |-> 0])
        BY <3>2 DEF Call
      <4>2. [pc |-> "called", user |-> u, code |-> c, ship |-> s,
             key |-> <<u, n>>, rows |-> {}, pay |-> 0] \in Task
        BY CheckoutAssumption DEF Task, Key
      <4>3. task' \in [Worker -> Task \cup {Idle}]
        BY <4>1, <4>2 DEF TypeOK, Go
      <4> QED BY <3>2, <4>3 DEF TypeOK, Call, shop, books
    <3>3. ASSUME NEW w \in Worker, Crash(w) PROVE TypeOK'
      BY <3>3 DEF TypeOK, Crash, Go, shop, books
    <3>4. CASE UNCHANGED vars
      BY <3>4 DEF TypeOK, vars
    <3> QED BY <3>1, <3>2, <3>3, <3>4, CustomerTypes, RunTypes, DecideTypes DEF Next
  <2>2. SplitHasCode'
    BY <2>1, SplitStep
  <2> QED BY <2>1, <2>2
<1> QED BY <1>1, <1>2, PTL DEF Spec

\* Every table keeps its type: no wallet, use count or reservation goes below
\* zero, and no worker is anywhere but at a step of checkout_cart.
THEOREM TypeCorrect == Spec => []TypeOK
BY TypeAndSplit, PTL

-----------------------------------------------------------------------------
(* A row is sold once. A row id is held by one holder at a time: a cart, a    *)
(* worker in the split checkout, or an order. A step lets go of ids, moves    *)
(* all ids of one holder to another, or gives a cart the next fresh id.       *)

Holder == ({"cart"} \X User) \cup ({"task"} \X Worker) \cup ({"order"} \X OrderId)

Ids(h) ==
  CASE h[1] = "cart" -> RowIds(cart[h[2]])
    [] h[1] = "task" -> IF task[h[2]] = Idle THEN {} ELSE RowIds(task[h[2]].rows)
    [] h[1] = "order" -> IF order[h[2]] = NoOrder THEN {} ELSE RowIds(order[h[2]].rows)

RowsApart ==
  /\ \A g, h \in Holder : g # h => Ids(g) \cap Ids(h) = {}
  /\ \A h \in Holder : \A n \in Ids(h) : n < nextRow

LEMMA IdsOf ==
  /\ \A u \in User : <<"cart", u>> \in Holder /\ Ids(<<"cart", u>>) = RowIds(cart[u])
  /\ \A w \in Worker :
       /\ <<"task", w>> \in Holder
       /\ Ids(<<"task", w>>) = IF task[w] = Idle THEN {} ELSE RowIds(task[w].rows)
  /\ \A o \in OrderId :
       /\ <<"order", o>> \in Holder
       /\ Ids(<<"order", o>>) = IF order[o] = NoOrder THEN {} ELSE RowIds(order[o].rows)
BY DEF Ids, Holder

LEMMA IdsOfNext ==
  /\ \A u \in User : Ids(<<"cart", u>>)' = RowIds(cart'[u])
  /\ \A w \in Worker :
       Ids(<<"task", w>>)' = IF task'[w] = Idle THEN {} ELSE RowIds(task'[w].rows)
  /\ \A o \in OrderId :
       Ids(<<"order", o>>)' = IF order'[o] = NoOrder THEN {} ELSE RowIds(order'[o].rows)
BY DEF Ids, RowIds

LEMMA IdsSame ==
  /\ \A u \in User : cart'[u] = cart[u] => Ids(<<"cart", u>>)' = Ids(<<"cart", u>>)
  /\ \A w \in Worker : task'[w] = task[w] => Ids(<<"task", w>>)' = Ids(<<"task", w>>)
  /\ \A o \in OrderId : order'[o] = order[o] => Ids(<<"order", o>>)' = Ids(<<"order", o>>)
<1>1. ASSUME NEW u \in User, cart'[u] = cart[u]
      PROVE  Ids(<<"cart", u>>)' = Ids(<<"cart", u>>)
  BY <1>1, IdsOf, IdsOfNext
<1>2. ASSUME NEW w \in Worker, task'[w] = task[w]
      PROVE  Ids(<<"task", w>>)' = Ids(<<"task", w>>)
  BY <1>2, IdsOf, IdsOfNext
<1>3. ASSUME NEW o \in OrderId, order'[o] = order[o]
      PROVE  Ids(<<"order", o>>)' = Ids(<<"order", o>>)
  BY <1>3, IdsOf, IdsOfNext
<1> QED BY <1>1, <1>2, <1>3

\* A holder is a cart, a worker or an order.
LEMMA HolderKinds ==
  ASSUME NEW h \in Holder
  PROVE  \/ \E u \in User : h = <<"cart", u>>
         \/ \E w \in Worker : h = <<"task", w>>
         \/ \E o \in OrderId : h = <<"order", o>>
BY DEF Holder

LEMMA IdsAreNumbers ==
  ASSUME TypeOK, NEW h \in Holder, NEW n \in Ids(h)
  PROVE  n \in Nat
<1>1. \A rows \in SUBSET Row : RowIds(rows) \subseteq Nat
  BY DEF RowIds, Row
<1>2. \A u \in User : cart[u] \in SUBSET Row
  BY DEF TypeOK
<1>3. \A w \in Worker : task[w] # Idle => task[w].rows \in SUBSET Row
  BY DEF TypeOK, Task
<1>4. \A o \in OrderId : order[o] # NoOrder => order[o].rows \in SUBSET Row
  BY DEF TypeOK, Order
<1> QED BY <1>1, <1>2, <1>3, <1>4, HolderKinds, IdsOf

\* Ids that are let go keep the others apart.
LEMMA IdsShrink ==
  ASSUME RowsApart, \A h \in Holder : Ids(h)' \subseteq Ids(h), nextRow' = nextRow
  PROVE  RowsApart'
BY DEF RowsApart

\* So do ids that move from one holder to another.
LEMMA IdsMove ==
  ASSUME RowsApart, NEW a \in Holder, NEW b \in Holder, a # b,
         Ids(a)' = {}, Ids(b)' \subseteq Ids(a), nextRow' = nextRow,
         \A h \in Holder \ {b} : Ids(h)' \subseteq Ids(h)
  PROVE  RowsApart'
BY DEF RowsApart

\* So does an id that no holder has.
LEMMA IdsFresh ==
  ASSUME RowsApart, nextRow \in Nat, NEW a \in Holder,
         Ids(a)' \subseteq Ids(a) \cup {nextRow}, nextRow' = nextRow + 1,
         \A h \in Holder : \A n \in Ids(h) : n \in Nat,
         \A h \in Holder \ {a} : Ids(h)' \subseteq Ids(h)
  PROVE  RowsApart'
BY DEF RowsApart

LEMMA CustomerApart ==
  ASSUME TypeOK, RowsApart, NEW u \in User, Customer(u)
  PROVE  RowsApart'
<1>1. ASSUME NEW h \in Holder, h # <<"cart", u>>
      PROVE  Ids(h)' \subseteq Ids(h)
  <2>1. \A v \in User \ {u} : cart'[v] = cart[v]
    BY DEF Customer, PutInCart, RemoveFromCart, TypeOK
  <2>2. UNCHANGED <<order, task>>
    BY DEF Customer, PutInCart, RemoveFromCart, books
  <2> QED BY <1>1, <2>1, <2>2, HolderKinds, IdsOf, IdsOfNext
<1>2. ASSUME NEW i \in Item, NEW q \in 1..MaxQty, PutInCart(u, i, q)
      PROVE  RowsApart'
  <2>1. CASE \E r \in cart[u] :
               /\ cart' = [cart EXCEPT ![u] = (@ \ {r}) \cup {[r EXCEPT !.qty = q]}]
               /\ UNCHANGED nextRow
    <3>1. PICK r \in cart[u] :
            /\ cart' = [cart EXCEPT ![u] = (@ \ {r}) \cup {[r EXCEPT !.qty = q]}]
            /\ UNCHANGED nextRow
      BY <2>1
    <3>2. [r EXCEPT !.qty = q].id = r.id
      BY DEF TypeOK, Row
    <3>3. RowIds(cart'[u]) \subseteq RowIds(cart[u])
      BY <3>1, <3>2 DEF RowIds, TypeOK
    <3> QED BY <1>1, <3>1, <3>3, IdsOf, IdsOfNext, IdsShrink
  <2>2. CASE /\ cart' = [cart EXCEPT ![u] = @ \cup {[id |-> nextRow, item |-> i, qty |-> q]}]
             /\ nextRow' = nextRow + 1
    <3>1. RowIds(cart'[u]) \subseteq RowIds(cart[u]) \cup {nextRow}
      BY <2>2 DEF RowIds, TypeOK
    <3>2. \A h \in Holder : \A n \in Ids(h) : n \in Nat
      BY IdsAreNumbers
    <3>3. nextRow \in Nat
      BY DEF TypeOK
    <3> QED BY <1>1, <2>2, <3>1, <3>2, <3>3, IdsOf, IdsOfNext, IdsFresh
  <2> QED BY <1>2, <2>1, <2>2 DEF PutInCart
<1>3. ASSUME NEW rows \in SUBSET cart[u], RemoveFromCart(u, rows)
      PROVE  RowsApart'
  <2>1. RowIds(cart'[u]) \subseteq RowIds(cart[u])
    BY <1>3 DEF RemoveFromCart, RowIds, TypeOK
  <2> QED BY <1>1, <1>3, <2>1, IdsOf, IdsOfNext, IdsShrink DEF RemoveFromCart
<1> QED BY <1>2, <1>3 DEF Customer

\* The rows of an order are those its worker bought.
LEMMA PlaceIds ==
  ASSUME TypeOK, NEW w \in Worker, NEW rows, NEW off, NEW pay, Place(w, rows, off, pay)
  PROVE  \E o \in OrderId :
           /\ Ids(<<"order", o>>)' \subseteq RowIds(rows)
           /\ Ids(<<"task", w>>)' = {}
           /\ \A p \in OrderId \ {o} : Ids(<<"order", p>>)' = Ids(<<"order", p>>)
           /\ \A v \in Worker \ {w} : Ids(<<"task", v>>)' = Ids(<<"task", v>>)
<1>1. PICK o \in OrderId : o = nextOrder
  BY CheckoutAssumption DEF Place, TypeOK, OrderId
<1>2. PICK rec : rec.rows = rows /\ order' = [order EXCEPT ![o] = rec]
  BY <1>1 DEF Place
<1>3. order'[o] = rec /\ \A p \in OrderId \ {o} : order'[p] = order[p]
  BY <1>2 DEF TypeOK
<1>4. task'[w] = Idle /\ \A v \in Worker \ {w} : task'[v] = task[v]
  BY DEF Place, Return, Go, TypeOK
<1>5. Ids(<<"order", o>>)' \subseteq RowIds(rows)
  BY <1>2, <1>3, IdsOfNext
<1>6. Ids(<<"task", w>>)' = {}
  BY <1>4, IdsOfNext
<1>7. \A p \in OrderId \ {o} : Ids(<<"order", p>>)' = Ids(<<"order", p>>)
  BY <1>3, IdsSame
<1>8. \A v \in Worker \ {w} : Ids(<<"task", v>>)' = Ids(<<"task", v>>)
  BY <1>4, IdsSame
<1> QED BY <1>5, <1>6, <1>7, <1>8

LEMMA RunApart ==
  ASSUME TypeOK, RowsApart, NEW w \in Worker, Run(w)
  PROVE  RowsApart'
<1>1. PICK t : t = task[w]
  OBVIOUS
<1>2. t # Idle /\ t \in Task
  BY <1>1 DEF TypeOK, Run, FastPath, PreCheck, Refuse, CheckoutPlain, ClaimCart, Quote, Settle, At
<1>3. t.user \in User /\ <<"cart", t.user>> \in Holder
  BY <1>2, IdsOf DEF Task
<1>4. nextRow' = nextRow
  BY DEF Run, FastPath, PreCheck, Refuse, CheckoutPlain, ClaimCart, Quote, Settle, shop
<1>5. ASSUME UNCHANGED <<cart, order>>,
             Return(w) \/ \E x \in Task : Go(w, x) /\ x.rows = t.rows
      PROVE  RowsApart'
  <2>1. \A v \in Worker \ {w} : task'[v] = task[v]
    BY <1>5 DEF TypeOK, Return, Go
  <2>2. task'[w] = Idle \/ task'[w].rows = t.rows
    BY <1>5 DEF TypeOK, Return, Go
  <2>3. \A u \in User : Ids(<<"cart", u>>)' \subseteq Ids(<<"cart", u>>)
    BY <1>5, IdsOf, IdsOfNext
  <2>4. \A o \in OrderId : Ids(<<"order", o>>)' \subseteq Ids(<<"order", o>>)
    BY <1>5, IdsOf, IdsOfNext
  <2>5. \A v \in Worker : Ids(<<"task", v>>)' \subseteq Ids(<<"task", v>>)
    BY <1>1, <1>2, <2>1, <2>2, IdsOf, IdsOfNext
  <2>6. \A h \in Holder : Ids(h)' \subseteq Ids(h)
    BY <2>3, <2>4, <2>5, HolderKinds
  <2> QED BY <1>4, <2>6, IdsShrink
<1>6. CASE FastPath(w) \/ PreCheck(w) \/ Refuse(w)
  <2>1. /\ [t EXCEPT !.pc = "new"] \in Task /\ [t EXCEPT !.pc = "new"].rows = t.rows
        /\ [t EXCEPT !.pc = "ready"] \in Task /\ [t EXCEPT !.pc = "ready"].rows = t.rows
    BY <1>2 DEF Task
  <2> QED BY <1>1, <1>5, <1>6, <2>1 DEF FastPath, PreCheck, Refuse, shop, books
<1>7. CASE CheckoutPlain(w)
  <2>1. CASE Return(w) /\ UNCHANGED <<cart, books>>
    BY <1>5, <2>1 DEF books
  <2>2. CASE /\ cart' = [cart EXCEPT ![t.user] = {}]
             /\ Place(w, cart[t.user], 0, Least(credit[t.user], CartTotal(cart[t.user])))
    <3>1. PICK o \in OrderId :
            /\ Ids(<<"order", o>>)' \subseteq RowIds(cart[t.user])
            /\ Ids(<<"task", w>>)' = {}
            /\ \A p \in OrderId \ {o} : Ids(<<"order", p>>)' = Ids(<<"order", p>>)
            /\ \A v \in Worker \ {w} : Ids(<<"task", v>>)' = Ids(<<"task", v>>)
      BY <2>2, PlaceIds
    <3> DEFINE a == <<"cart", t.user>>
               b == <<"order", o>>
    <3>2. a \in Holder /\ b \in Holder /\ a # b /\ Ids(b)' \subseteq Ids(a)
      BY <1>3, <3>1, IdsOf
    <3>3. cart'[t.user] = {} /\ \A u \in User \ {t.user} : cart'[u] = cart[u]
      BY <1>3, <2>2 DEF TypeOK
    <3>4. Ids(a)' = {}
      BY <1>3, <3>3, IdsOfNext DEF RowIds
    <3>5. \A u \in User : Ids(<<"cart", u>>)' \subseteq Ids(<<"cart", u>>)
      BY <1>3, <3>3, <3>4, IdsSame
    <3>6. \A h \in Holder \ {b} : Ids(h)' \subseteq Ids(h)
      BY <3>1, <3>5, HolderKinds
    <3> QED BY <1>4, <3>2, <3>4, <3>6, IdsMove
  <2> QED BY <1>1, <1>7, <2>1, <2>2 DEF CheckoutPlain, Unclaimed
<1>8. CASE ClaimCart(w)
  <2> DEFINE a == <<"cart", t.user>>
             b == <<"task", w>>
  <2>1. /\ \A u \in User \ {t.user} : cart'[u] = cart[u]
        /\ \A v \in Worker \ {w} : task'[v] = task[v]
        /\ cart'[t.user] = {} /\ UNCHANGED order
    BY <1>1, <1>3, <1>8 DEF TypeOK, ClaimCart, Unclaimed, Return, Go, books
  <2>2. task'[w] = Idle \/ task'[w].rows = cart[t.user]
    <3>1. [t EXCEPT !.pc = "claimed", !.rows = cart[t.user]].rows = cart[t.user]
      BY <1>2 DEF Task
    <3> QED BY <1>1, <1>8, <3>1 DEF TypeOK, ClaimCart, Return, Go
  <2>3. a \in Holder /\ b \in Holder /\ a # b
    BY <1>3, IdsOf
  <2>4. Ids(b)' \subseteq Ids(a)
    BY <1>3, <2>2, IdsOf, IdsOfNext
  <2>5. Ids(a)' = {}
    BY <1>3, <2>1, IdsOfNext DEF RowIds
  <2>6. \A u \in User : Ids(<<"cart", u>>)' \subseteq Ids(<<"cart", u>>)
    BY <1>3, <2>1, <2>5, IdsSame
  <2>7. \A o \in OrderId : Ids(<<"order", o>>)' \subseteq Ids(<<"order", o>>)
    BY <2>1, IdsOf, IdsOfNext
  <2>8. \A v \in Worker \ {w} : Ids(<<"task", v>>)' \subseteq Ids(<<"task", v>>)
    BY <2>1, IdsSame
  <2>9. \A h \in Holder \ {b} : Ids(h)' \subseteq Ids(h)
    BY <2>6, <2>7, <2>8, HolderKinds
  <2> QED BY <1>4, <2>3, <2>4, <2>5, <2>9, IdsMove
<1>9. CASE Quote(w)
  <2>1. CASE Return(w)
    BY <1>5, <1>9, <2>1 DEF Quote, shop, books
  <2>2. CASE ~Return(w)
    <3>1. PICK pay : Go(w, [t EXCEPT !.pc = "quoted", !.pay = pay])
      BY <1>1, <1>9, <2>2 DEF Quote
    <3>2. task'[w] = [t EXCEPT !.pc = "quoted", !.pay = pay]
          /\ \A v \in Worker \ {w} : task'[v] = task[v]
      BY <3>1 DEF TypeOK, Go
    <3>3. task'[w].rows = t.rows
      BY <1>2, <3>2 DEF Task
    <3>4. UNCHANGED <<cart, order>>
      BY <1>9 DEF Quote, shop, books
    <3>5. \A v \in Worker : Ids(<<"task", v>>)' \subseteq Ids(<<"task", v>>)
      <4>1. Ids(<<"task", w>>)' \subseteq Ids(<<"task", w>>)
        BY <1>1, <1>2, <3>3, IdsOf, IdsOfNext
      <4> QED BY <3>2, <4>1, IdsSame
    <3>6. \A u \in User : Ids(<<"cart", u>>)' \subseteq Ids(<<"cart", u>>)
      BY <3>4, IdsOf, IdsOfNext
    <3>7. \A o \in OrderId : Ids(<<"order", o>>)' \subseteq Ids(<<"order", o>>)
      BY <3>4, IdsOf, IdsOfNext
    <3>8. \A h \in Holder : Ids(h)' \subseteq Ids(h)
      BY <3>5, <3>6, <3>7, HolderKinds
    <3> QED BY <1>4, <3>8, IdsShrink
  <2> QED BY <2>1, <2>2
<1>10. CASE Settle(w)
  <2>1. CASE Return(w) /\ UNCHANGED books
    BY <1>5, <1>10, <2>1 DEF Settle, shop, books
  <2>2. CASE Place(w, t.rows, Off(t), t.pay)
    <3>1. PICK o \in OrderId :
            /\ Ids(<<"order", o>>)' \subseteq RowIds(t.rows)
            /\ Ids(<<"task", w>>)' = {}
            /\ \A p \in OrderId \ {o} : Ids(<<"order", p>>)' = Ids(<<"order", p>>)
            /\ \A v \in Worker \ {w} : Ids(<<"task", v>>)' = Ids(<<"task", v>>)
      BY <2>2, PlaceIds
    <3> DEFINE a == <<"task", w>>
               b == <<"order", o>>
    <3>2. a \in Holder /\ b \in Holder /\ a # b /\ Ids(b)' \subseteq Ids(a)
      BY <1>1, <1>2, <3>1, IdsOf
    <3>3. UNCHANGED cart
      BY <1>10 DEF Settle, shop
    <3>4. \A u \in User : Ids(<<"cart", u>>)' \subseteq Ids(<<"cart", u>>)
      BY <3>3, IdsOf, IdsOfNext
    <3>5. \A h \in Holder \ {b} : Ids(h)' \subseteq Ids(h)
      BY <3>1, <3>4, HolderKinds
    <3> QED BY <1>4, <3>1, <3>2, <3>5, IdsMove
  <2> QED BY <1>1, <1>10, <2>1, <2>2 DEF Settle
<1> QED BY <1>6, <1>7, <1>8, <1>9, <1>10 DEF Run

LEMMA OtherApart ==
  ASSUME TypeOK, RowsApart, UNCHANGED <<cart, nextRow>>,
         \A w \in Worker : task'[w] = Idle \/ task'[w] = task[w] \/ task'[w].rows = {},
         \A o \in OrderId : order[o] = NoOrder => order'[o] = NoOrder,
         \A o \in OrderId : order[o] # NoOrder => order'[o].rows = order[o].rows
  PROVE  RowsApart'
<1>1. \A u \in User : Ids(<<"cart", u>>)' \subseteq Ids(<<"cart", u>>)
  BY IdsOf, IdsOfNext
<1>2. \A w \in Worker : Ids(<<"task", w>>)' \subseteq Ids(<<"task", w>>)
  BY IdsOf, IdsOfNext DEF RowIds
<1>3. \A o \in OrderId : Ids(<<"order", o>>)' \subseteq Ids(<<"order", o>>)
  BY IdsOf, IdsOfNext
<1> QED BY <1>1, <1>2, <1>3, HolderKinds, IdsShrink

LEMMA ApartStep ==
  ASSUME TypeOK, RowsApart, [Next]_vars
  PROVE  RowsApart'
<1>1. ASSUME NEW w \in Worker, NEW u \in User, NEW c \in Code \cup {NoCode}, NEW s \in Ship,
             Call(w, u, c, s)
      PROVE  RowsApart'
  <2>1. PICK n \in 0..MaxRow :
          Go(w, [pc |-> "called", user |-> u, code |-> c, ship |-> s,
                 key |-> <<u, n>>, rows |-> {}, pay |-> 0])
    BY <1>1 DEF Call
  <2>2. task'[w].rows = {} /\ \A v \in Worker \ {w} : task'[v] = task[v]
    BY <2>1 DEF Go, TypeOK
  <2> QED BY <1>1, <2>2, OtherApart DEF Call, shop, books
<1>2. ASSUME NEW w \in Worker, Crash(w) PROVE RowsApart'
  <2>1. \A v \in Worker : task'[v] = Idle \/ task'[v] = task[v]
    BY <1>2 DEF Crash, Go, TypeOK
  <2> QED BY <1>2, <2>1, OtherApart DEF Crash, shop, books
<1>3. ASSUME NEW x \in Switchable, Switch(x) PROVE RowsApart'
  BY <1>3, OtherApart DEF Switch, books
<1>4. ASSUME NEW o \in OrderId, Approve(o) \/ Reject(o) PROVE RowsApart'
  <2>1. order[o] \in Order
    BY <1>4 DEF TypeOK, Approve, Reject, CanDecide, Placed
  <2>2. PICK s \in {"approved", "rejected"} : order' = [order EXCEPT ![o].status = s]
    BY <1>4 DEF Approve, Reject
  <2>3. order'[o].rows = order[o].rows /\ \A p \in OrderId \ {o} : order'[p] = order[p]
    BY <2>1, <2>2 DEF TypeOK, Order
  <2>4. order[o] # NoOrder
    BY <2>1, SentinelAssumption
  <2> QED BY <1>4, <2>3, <2>4, OtherApart DEF Approve, Reject, shop
<1>5. CASE UNCHANGED vars
  BY <1>5, OtherApart DEF vars
<1> QED BY <1>1, <1>2, <1>3, <1>4, <1>5, CustomerApart, RunApart DEF Next

\* Carts, hands and orders never have a row in common.
LEMMA ApartHolds == Spec => []RowsApart
<1>1. Init => RowsApart
  <2> SUFFICES ASSUME Init PROVE RowsApart
    OBVIOUS
  <2>1. \A h \in Holder : Ids(h) = {}
    BY HolderKinds, IdsOf DEF Init, RowIds
  <2> QED BY <2>1 DEF RowsApart
<1>2. TypeOK /\ RowsApart /\ [Next]_vars => RowsApart'
  BY ApartStep
<1> QED BY <1>1, <1>2, TypeCorrect, PTL DEF Spec

\* Nobody buys a row twice, and no bought row stays in a cart, for any number of
\* customers, workers and orders, any interleaving and any crash: the ids are apart
\* from the first row on, and a worker takes the whole cart in one step.
THEOREM SoldOnce == Spec => []RowSoldOnce
<1>1. RowsApart => RowSoldOnce
  <2> SUFFICES ASSUME RowsApart PROVE RowSoldOnce
    OBVIOUS
  <2>1. \A o, p \in Placed : o # p => Ids(<<"order", o>>) \cap Ids(<<"order", p>>) = {}
    BY IdsOf DEF RowsApart, Placed
  <2>2. \A o \in Placed, u \in User : Ids(<<"order", o>>) \cap Ids(<<"cart", u>>) = {}
    BY IdsOf DEF RowsApart, Placed
  <2>3. \A o \in Placed : Ids(<<"order", o>>) = RowIds(order[o].rows)
    BY IdsOf DEF Placed
  <2> QED BY <2>1, <2>2, <2>3, IdsOf DEF RowSoldOnce
<1> QED BY <1>1, ApartHolds, PTL

-----------------------------------------------------------------------------
(* Limits. The guarded UPDATEs look again at what earlier reads promised.     *)

Limits == CodeWithinLimit /\ NeverOversold

LEMMA PlaceLimits ==
  ASSUME TypeOK, Limits, NEW w \in Worker, NEW rows \in SUBSET Row, NEW off, NEW pay,
         task[w].code # NoCode => Usable(task[w].code), InStock(rows),
         Place(w, rows, off, pay)
  PROVE  Limits'
<1>1. CodeWithinLimit'
  <2> SUFFICES ASSUME NEW c \in Code, MaxUses[c] # 0 PROVE used'[c] <= MaxUses[c]
    BY DEF CodeWithinLimit
  <2>1. used[c] \in Nat /\ MaxUses[c] \in Nat /\ used[c] <= MaxUses[c] /\ c # NoCode
    BY CheckoutAssumption DEF TypeOK, Limits, CodeWithinLimit
  <2>2. used'[c] = IF c = task[w].code THEN used[c] + 1 ELSE used[c]
    BY DEF Place
  <2> QED BY <2>1, <2>2 DEF Usable
<1>2. NeverOversold'
  <2> SUFFICES ASSUME NEW i \in Physical PROVE reserved'[i] <= Stock[i]
    BY DEF NeverOversold
  <2>1. reserved[i] + Demand(rows, i) <= Stock[i]
    BY DemandFits DEF TypeOK, Limits, NeverOversold
  <2> QED BY <2>1 DEF Place
<1> QED BY <1>1, <1>2 DEF Limits

LEMMA LimitsStep ==
  ASSUME TypeOK, Limits, [Next]_vars
  PROVE  Limits'
<1>1. CASE UNCHANGED <<used, reserved>>
  BY <1>1 DEF Limits, CodeWithinLimit, NeverOversold
<1>2. ASSUME NEW w \in Worker, Run(w) PROVE Limits'
  <2>1. task[w] \in Task
    BY <1>2 DEF TypeOK, Run, FastPath, PreCheck, Refuse, CheckoutPlain, ClaimCart, Quote, Settle, At
  <2>2. task[w].user \in User /\ task[w].rows \in SUBSET Row
    BY <2>1 DEF Task
  <2>3. CASE CheckoutPlain(w)
    <3>1. CASE UNCHANGED books
      BY <1>1, <3>1 DEF books
    <3>2. CASE ~UNCHANGED books
      <4>1. cart[task[w].user] \in SUBSET Row
        BY <2>2 DEF TypeOK
      <4> QED BY <2>3, <3>2, <4>1, PlaceLimits DEF CheckoutPlain
    <3> QED BY <3>1, <3>2
  <2>4. CASE Settle(w)
    <3>1. CASE UNCHANGED books
      BY <1>1, <3>1 DEF books
    <3>2. CASE ~UNCHANGED books
      BY <2>2, <2>4, <3>2, PlaceLimits DEF Settle
    <3> QED BY <3>1, <3>2
  <2>5. CASE FastPath(w) \/ PreCheck(w) \/ Refuse(w) \/ ClaimCart(w) \/ Quote(w)
    BY <1>1, <2>5 DEF FastPath, PreCheck, Refuse, ClaimCart, Quote, books
  <2> QED BY <1>2, <2>3, <2>4, <2>5 DEF Run
<1>3. ASSUME NEW o \in OrderId, Reject(o) PROVE Limits'
  <2>1. order[o].rows \in SUBSET Row
    BY <1>3 DEF TypeOK, Reject, CanDecide, Placed, Order
  <2>2. \A c \in Code : used'[c] <= used[c] /\ used'[c] \in Nat
    BY <1>3 DEF TypeOK, Reject, Floor0
  <2>3. \A i \in Physical : reserved'[i] <= reserved[i] /\ reserved'[i] \in Nat
    BY <1>3, <2>1, DemandNat DEF TypeOK, Reject, Floor0
  <2>4. /\ \A c \in Code : used[c] \in Nat /\ MaxUses[c] \in Nat
        /\ \A i \in Physical : reserved[i] \in Nat /\ Stock[i] \in Nat
    BY CheckoutAssumption DEF TypeOK
  <2> QED BY <2>2, <2>3, <2>4 DEF Limits, CodeWithinLimit, NeverOversold
<1>4. ASSUME NEW o \in OrderId, Approve(o) PROVE Limits'
  BY <1>1, <1>4 DEF Approve
<1>5. ASSUME NEW u \in User, Customer(u) PROVE Limits'
  BY <1>1, <1>5 DEF Customer, PutInCart, RemoveFromCart, books
<1>6. ASSUME NEW x \in Switchable, Switch(x) PROVE Limits'
  BY <1>1, <1>6 DEF Switch, books
<1>7. ASSUME NEW w \in Worker, NEW u \in User, NEW c \in Code \cup {NoCode}, NEW s \in Ship,
             Call(w, u, c, s)
      PROVE  Limits'
  BY <1>1, <1>7 DEF Call, books
<1>8. ASSUME NEW w \in Worker, Crash(w) PROVE Limits'
  BY <1>1, <1>8 DEF Crash, books
<1>9. CASE UNCHANGED vars
  BY <1>1, <1>9 DEF vars
<1> QED BY <1>2, <1>3, <1>4, <1>5, <1>6, <1>7, <1>8, <1>9 DEF Next

LEMMA LimitsHold == Spec => []Limits
<1>1. Init => Limits
  BY CheckoutAssumption DEF Init, Limits, CodeWithinLimit, NeverOversold
<1>2. TypeOK /\ Limits /\ [Next]_vars => Limits'
  BY LimitsStep
<1> QED BY <1>1, <1>2, TypeCorrect, PTL DEF Spec

\* No code is used beyond its limit and no variant is promised beyond its stock,
\* for any numbers: both are checked by the UPDATE that counts them, so it does not
\* matter how many workers passed the earlier checks.
THEOREM WithinLimits == Spec => [](CodeWithinLimit /\ NeverOversold)
<1>1. Limits => CodeWithinLimit /\ NeverOversold
  BY DEF Limits
<1> QED BY <1>1, LimitsHold, PTL

-----------------------------------------------------------------------------
(* Idempotency without discount codes.                                        *)

KeysKnown == \A o \in Placed : idem[order[o].key] # 0

LEMMA KeyStep ==
  ASSUME Code = {}, TypeOK, SplitHasCode, OneOrderPerKey, KeysKnown, [Next]_vars
  PROVE  OneOrderPerKey' /\ KeysKnown'
<1>1. CASE /\ \A o \in OrderId : order[o] = NoOrder => order'[o] = NoOrder
           /\ \A o \in OrderId : order[o] # NoOrder => order'[o].key = order[o].key
           /\ UNCHANGED idem
  BY <1>1 DEF OneOrderPerKey, KeysKnown, Placed
<1>2. ASSUME NEW w \in Worker, CheckoutPlain(w), ~UNCHANGED books
      PROVE  OneOrderPerKey' /\ KeysKnown'
  <2>1. PICK t : t = task[w]
    OBVIOUS
  <2>2. t \in Task /\ idem[t.key] = 0
    BY <1>2, <2>1 DEF TypeOK, CheckoutPlain, At, Admitted, KeyUnused
  <2>3. t.key \in Key
    BY <2>2 DEF Task
  <2>4. PICK o \in OrderId : o = nextOrder
    BY <1>2, CheckoutAssumption DEF CheckoutPlain, Place, TypeOK, OrderId
  <2>5. PICK rec : rec.key = t.key /\ order' = [order EXCEPT ![o] = rec]
    BY <1>2, <2>1, <2>4 DEF CheckoutPlain, Place
  <2>6. idem' = [idem EXCEPT ![t.key] = o]
    BY <1>2, <2>1, <2>2, <2>3, <2>4 DEF CheckoutPlain, Place, TypeOK
  <2>7. order'[o].key = t.key /\ \A p \in OrderId \ {o} : order'[p] = order[p]
    BY <2>5 DEF TypeOK
  <2>8. idem'[t.key] # 0 /\ \A k \in Key : idem[k] # 0 => idem'[k] # 0
    BY <2>3, <2>6 DEF TypeOK, OrderId
  <2>9. \A p \in Placed : order[p].key \in Key /\ order[p].key # t.key
    BY <2>2 DEF KeysKnown, Placed, TypeOK, Order
  <2>10. \A p \in Placed' : p = o \/ (p \in Placed /\ order'[p] = order[p])
    BY <2>7 DEF Placed
  <2> QED BY <2>7, <2>8, <2>9, <2>10 DEF OneOrderPerKey, KeysKnown
<1>3. ASSUME NEW w \in Worker, Run(w) PROVE OneOrderPerKey' /\ KeysKnown'
  <2>1. ~ClaimCart(w) /\ ~Settle(w) /\ ~Quote(w)
    BY DEF ClaimCart, Settle, Quote, At, TypeOK, Task, SplitHasCode
  <2>2. CASE UNCHANGED books
    BY <1>1, <2>2 DEF books
  <2>3. CASE CheckoutPlain(w) /\ ~UNCHANGED books
    BY <1>2, <2>3
  <2> QED BY <1>3, <2>1, <2>2, <2>3 DEF Run, FastPath, PreCheck, Refuse
<1>4. ASSUME NEW o \in OrderId, Approve(o) \/ Reject(o)
      PROVE  OneOrderPerKey' /\ KeysKnown'
  <2>1. order[o] \in Order
    BY <1>4 DEF TypeOK, Approve, Reject, CanDecide, Placed
  <2>2. PICK s \in {"approved", "rejected"} : order' = [order EXCEPT ![o].status = s]
    BY <1>4 DEF Approve, Reject
  <2>3. order'[o].key = order[o].key /\ \A p \in OrderId \ {o} : order'[p] = order[p]
    BY <2>1, <2>2 DEF TypeOK, Order
  <2>4. order[o] # NoOrder /\ UNCHANGED idem
    BY <1>4, <2>1, SentinelAssumption DEF Approve, Reject
  <2> QED BY <1>1, <2>3, <2>4
<1>5. ASSUME NEW u \in User, Customer(u) PROVE OneOrderPerKey' /\ KeysKnown'
  BY <1>1, <1>5 DEF Customer, PutInCart, RemoveFromCart, books
<1>6. ASSUME NEW x \in Switchable, Switch(x) PROVE OneOrderPerKey' /\ KeysKnown'
  BY <1>1, <1>6 DEF Switch, books
<1>7. ASSUME NEW w \in Worker, NEW u \in User, NEW c \in Code \cup {NoCode}, NEW s \in Ship,
             Call(w, u, c, s)
      PROVE  OneOrderPerKey' /\ KeysKnown'
  BY <1>1, <1>7 DEF Call, books
<1>8. ASSUME NEW w \in Worker, Crash(w) PROVE OneOrderPerKey' /\ KeysKnown'
  BY <1>1, <1>8 DEF Crash, books
<1>9. CASE UNCHANGED vars
  BY <1>1, <1>9 DEF vars
<1> QED BY <1>3, <1>4, <1>5, <1>6, <1>7, <1>8, <1>9 DEF Next

\* Where no discount code exists, an idempotency key makes one order at most,
\* however many workers carry it: the key is looked up again under the write lock.
THEOREM KeyMakesOneOrder == Code = {} => (Spec => []OneOrderPerKey)
<1> SUFFICES ASSUME Code = {} PROVE Spec => []OneOrderPerKey
  OBVIOUS
<1>1. Init => OneOrderPerKey /\ KeysKnown
  BY DEF Init, OneOrderPerKey, KeysKnown, Placed
<1>2. TypeOK /\ SplitHasCode /\ OneOrderPerKey /\ KeysKnown /\ [Next]_vars
        => OneOrderPerKey' /\ KeysKnown'
  BY KeyStep
<1> QED BY <1>1, <1>2, TypeAndSplit, PTL DEF Spec

-----------------------------------------------------------------------------
(* What becomes of a cart without discount codes.                             *)

\* Without codes no worker takes rows out of a cart before it makes the order of them,
\* and the next order's number is free: the order buries no other.
NothingTaken == \A w \in Worker : task[w] # Idle => task[w].rows = {}
NextIsFree == \A o \in OrderId : o >= nextOrder => order[o] = NoOrder

\* A row is in a cart, in an order, or was removed.
Kept(n) ==
  \/ \E u \in User : n \in RowIds(cart[u])
  \/ \E o \in Placed : n \in RowIds(order[o].rows)
  \/ n \in dropped

CartsInv == NothingTaken /\ NextIsFree /\ \A n \in 1..(nextRow - 1) : Kept(n)

\* Rows stay where they are, or go to another place.
LEMMA RowsStay ==
  ASSUME CartsInv, NothingTaken', NextIsFree', UNCHANGED nextRow,
         \A n \in 1..(nextRow - 1) : Kept(n) => Kept(n)'
  PROVE  CartsInv'
BY DEF CartsInv

\* Steps that leave carts and orders alone, but for the status of an order.
LEMMA CartsAlone ==
  ASSUME TypeOK, CartsInv, NothingTaken', UNCHANGED <<shop, nextOrder>>,
         \A o \in OrderId : order[o] = NoOrder => order'[o] = NoOrder,
         \A o \in OrderId : order[o] # NoOrder =>
           order'[o] # NoOrder /\ order'[o].rows = order[o].rows
  PROVE  CartsInv'
<1>1. NextIsFree'
  BY DEF CartsInv, NextIsFree
<1>2. \A n : Kept(n) => Kept(n)'
  BY DEF Kept, Placed, RowIds, shop
<1> QED BY <1>1, <1>2, RowsStay DEF shop

\* Where a row may be afterwards.
LEMMA KeptNext ==
  /\ \A n : \A v \in User : n \in RowIds(cart'[v]) => Kept(n)'
  /\ \A n : n \in dropped' => Kept(n)'
BY DEF Kept, RowIds

LEMMA CustomerKeeps ==
  ASSUME TypeOK, CartsInv, NEW u \in User, Customer(u)
  PROVE  CartsInv'
<1>1. UNCHANGED <<books, task>>
  BY DEF Customer, PutInCart, RemoveFromCart
<1>2. NothingTaken' /\ NextIsFree'
  BY <1>1 DEF CartsInv, NothingTaken, NextIsFree, books
<1>3. \A n : (\E o \in Placed : n \in RowIds(order[o].rows)) => Kept(n)'
  BY <1>1 DEF Kept, Placed, RowIds, books
<1>4. ASSUME NEW r \in cart[u], NEW q, UNCHANGED <<nextRow, dropped>>,
             cart' = [cart EXCEPT ![u] = (@ \ {r}) \cup {[r EXCEPT !.qty = q]}]
      PROVE  CartsInv'
  <2>1. [r EXCEPT !.qty = q].id = r.id
    BY DEF TypeOK, Row
  <2>2. cart'[u] = (cart[u] \ {r}) \cup {[r EXCEPT !.qty = q]}
        /\ \A v \in User : v # u => cart'[v] = cart[v]
    BY <1>4 DEF TypeOK
  <2>3. \A n : \A v \in User : n \in RowIds(cart[v]) => n \in RowIds(cart'[v])
    BY <2>1, <2>2 DEF RowIds
  <2>4. \A n : Kept(n) => Kept(n)'
    BY <1>3, <1>4, <2>3, KeptNext DEF Kept
  <2> QED BY <1>2, <1>4, <2>4, RowsStay
<1>5. ASSUME NEW i, NEW q, nextRow' = nextRow + 1, UNCHANGED dropped,
             cart' = [cart EXCEPT ![u] = @ \cup {[id |-> nextRow, item |-> i, qty |-> q]}]
      PROVE  CartsInv'
  <2>1. cart'[u] = cart[u] \cup {[id |-> nextRow, item |-> i, qty |-> q]}
        /\ \A v \in User : v # u => cart'[v] = cart[v]
    BY <1>5 DEF TypeOK
  <2>2. \A n : \A v \in User : n \in RowIds(cart[v]) => n \in RowIds(cart'[v])
    BY <2>1 DEF RowIds
  <2>3. nextRow \in RowIds(cart'[u])
    BY <2>1 DEF RowIds
  <2>4. \A n : Kept(n) \/ n = nextRow => Kept(n)'
    BY <1>3, <1>5, <2>2, <2>3, KeptNext DEF Kept
  <2>5. \A n \in 1..(nextRow' - 1) : n = nextRow \/ n \in 1..(nextRow - 1)
    BY <1>5, CheckoutAssumption DEF TypeOK
  <2> QED BY <1>2, <2>4, <2>5 DEF CartsInv
<1>6. ASSUME NEW rows \in SUBSET cart[u], RemoveFromCart(u, rows)
      PROVE  CartsInv'
  <2>1. cart'[u] = cart[u] \ rows /\ \A v \in User : v # u => cart'[v] = cart[v]
    BY <1>6 DEF TypeOK, RemoveFromCart
  <2>2. dropped' = dropped \cup RowIds(rows) /\ UNCHANGED nextRow
    BY <1>6 DEF RemoveFromCart
  <2>3. \A n : \A v \in User : n \in RowIds(cart[v]) => n \in RowIds(cart'[v]) \/ n \in dropped'
    BY <2>1, <2>2 DEF RowIds
  <2>4. \A n : Kept(n) => Kept(n)'
    BY <1>3, <2>2, <2>3, KeptNext DEF Kept
  <2> QED BY <1>2, <2>2, <2>4, RowsStay
<1> QED BY <1>4, <1>5, <1>6 DEF Customer, PutInCart

\* The one transaction: all rows of the cart go into the order, or none goes anywhere.
LEMMA PlainKeeps ==
  ASSUME TypeOK, CartsInv, NEW w \in Worker, CheckoutPlain(w)
  PROVE  CartsInv'
<1> DEFINE u == task[w].user
           rows == cart[u]
<1>1. u \in User
  BY DEF TypeOK, Task, CheckoutPlain, At
<1>2. UNCHANGED <<nextRow, dropped, onSale>>
  BY DEF CheckoutPlain
<1>3. Return(w)
  BY DEF CheckoutPlain, Place
<1>4. NothingTaken'
  BY <1>3 DEF TypeOK, CartsInv, NothingTaken, Return, Go
<1>5. CASE UNCHANGED <<cart, books>>
  BY <1>2, <1>4, <1>5, CartsAlone DEF shop, books
<1>6. ASSUME NEW rec, rec.rows = rows, rec \in Order, nextOrder \in OrderId,
             order' = [order EXCEPT ![nextOrder] = rec], nextOrder' = nextOrder + 1,
             cart' = [cart EXCEPT ![u] = {}]
      PROVE  CartsInv'
  <2>1. order'[nextOrder] = rec /\ \A o \in OrderId : o # nextOrder => order'[o] = order[o]
    BY <1>6 DEF TypeOK
  <2>2. NextIsFree'
    BY <1>6, <2>1 DEF CartsInv, NextIsFree, OrderId
  <2>3. order[nextOrder] = NoOrder /\ rec # NoOrder
    BY <1>6, SentinelAssumption DEF CartsInv, NextIsFree, OrderId
  <2>4. /\ nextOrder \in Placed'
        /\ \A o \in Placed : o \in Placed' /\ order'[o] = order[o]
    BY <1>6, <2>1, <2>3 DEF Placed
  <2>5. \A n : n \in RowIds(rows) => n \in RowIds(order'[nextOrder].rows)
    BY <1>6, <2>1
  <2>6. \A v \in User : v # u => cart'[v] = cart[v]
    BY <1>6 DEF TypeOK
  <2> HIDE DEF u, rows
  <2>7. ASSUME NEW n, Kept(n)
        PROVE  Kept(n)'
    <3>1. CASE n \in dropped
      BY <1>2, <3>1 DEF Kept
    <3>2. ASSUME NEW o \in Placed, n \in RowIds(order[o].rows)
          PROVE  Kept(n)'
      BY <2>4, <3>2 DEF Kept, RowIds
    <3>3. ASSUME NEW v \in User, n \in RowIds(cart[v])
          PROVE  Kept(n)'
      <4>1. CASE v = u
        <5>1. n \in RowIds(rows)
          BY <3>3, <4>1 DEF rows
        <5>2. n \in RowIds(order'[nextOrder].rows)
          BY <2>5, <5>1
        <5> QED BY <2>4, <5>2 DEF Kept, RowIds
      <4>2. CASE v # u
        BY <2>6, <3>3, <4>2 DEF Kept, RowIds
      <4> QED BY <4>1, <4>2
    <3> QED BY <2>7, <3>1, <3>2, <3>3 DEF Kept
  <2> QED BY <1>2, <1>4, <2>2, <2>7, RowsStay
<1>7. CASE ~UNCHANGED <<cart, books>>
  <2> DEFINE pay == Least(credit[u], CartTotal(rows))
  <2>1. Place(w, rows, 0, pay) /\ cart' = [cart EXCEPT ![u] = {}]
    BY <1>7 DEF CheckoutPlain, Unclaimed
  <2>2. rows \in SUBSET Row /\ credit[u] \in Nat
    BY <1>1 DEF TypeOK
  <2>3. CartTotal(rows) \in Nat
    BY <2>2, PricingAssumption
  <2>4. pay \in Nat
    BY <2>2, <2>3, LeastBounds
  <2> HIDE DEF pay, rows
  <2>5. PICK auto \in BOOLEAN :
          order' = [order EXCEPT ![nextOrder] =
            [user |-> u, rows |-> rows, wallet |-> pay, code |-> task[w].code,
             key |-> task[w].key,
             status |-> IF auto /\ Due(rows, 0, pay) <= 0 THEN "approved" ELSE "pending"]]
    BY <2>1 DEF Place
  <2> DEFINE rec == [user |-> u, rows |-> rows, wallet |-> pay, code |-> task[w].code,
                     key |-> task[w].key,
                     status |-> IF auto /\ Due(rows, 0, pay) <= 0 THEN "approved" ELSE "pending"]
  <2>6. task[w].code \in Code \cup {NoCode} /\ task[w].key \in Key
    BY DEF TypeOK, Task, CheckoutPlain, At
  <2>7. rec \in Order /\ rec.rows = rows
    BY <1>1, <2>2, <2>4, <2>6 DEF Order
  <2>8. nextOrder \in OrderId /\ nextOrder' = nextOrder + 1
    BY <2>1, CheckoutAssumption DEF Place, TypeOK, OrderId
  <2> QED BY <1>6, <2>1, <2>5, <2>7, <2>8 DEF rows
<1> QED BY <1>5, <1>7

LEMMA CartsStep ==
  ASSUME Code = {}, TypeOK, SplitHasCode, CartsInv, [Next]_vars
  PROVE  CartsInv'
<1>1. ASSUME UNCHANGED <<shop, nextOrder, order>>, NothingTaken'
      PROVE  CartsInv'
  BY <1>1, CartsAlone
<1>2. ASSUME NEW w \in Worker, Run(w) PROVE CartsInv'
  <2>1. ~ClaimCart(w) /\ ~Settle(w) /\ ~Quote(w)
    BY DEF ClaimCart, Settle, Quote, At, TypeOK, Task, SplitHasCode
  <2>2. CASE CheckoutPlain(w)
    BY <2>2, PlainKeeps
  <2>3. CASE FastPath(w) \/ PreCheck(w) \/ Refuse(w)
    <3>1. task[w] \in Task /\ task[w].rows = {} /\ UNCHANGED <<shop, books>>
      BY <2>3 DEF TypeOK, CartsInv, NothingTaken, FastPath, PreCheck, Refuse, At
    <3>2. \A p : [task[w] EXCEPT !.pc = p].rows = {}
      BY <3>1 DEF Task
    <3>3. \/ Go(w, Idle) \/ Go(w, [task[w] EXCEPT !.pc = "new"])
          \/ Go(w, [task[w] EXCEPT !.pc = "ready"])
      BY <2>3 DEF FastPath, PreCheck, Refuse, Return
    <3>4. NothingTaken'
      BY <3>2, <3>3 DEF TypeOK, CartsInv, NothingTaken, Go
    <3> QED BY <1>1, <3>1, <3>4 DEF books
  <2> QED BY <1>2, <2>1, <2>2, <2>3 DEF Run
<1>3. ASSUME NEW o \in OrderId, Approve(o) \/ Reject(o)
      PROVE  CartsInv'
  <2>1. order[o] \in Order
    BY <1>3 DEF TypeOK, Approve, Reject, CanDecide, Placed
  <2>2. PICK s \in {"approved", "rejected"} : order' = [order EXCEPT ![o].status = s]
    BY <1>3 DEF Approve, Reject
  <2>3. /\ order'[o] \in Order /\ order'[o].rows = order[o].rows
        /\ \A p \in OrderId \ {o} : order'[p] = order[p]
    BY <2>1, <2>2 DEF TypeOK, Order
  <2>4. order[o] # NoOrder /\ order'[o] # NoOrder
    BY <2>1, <2>3, SentinelAssumption
  <2>5. UNCHANGED <<shop, nextOrder, task>>
    BY <1>3 DEF Approve, Reject
  <2>6. NothingTaken'
    BY <2>5 DEF CartsInv, NothingTaken
  <2> QED BY <2>3, <2>4, <2>5, <2>6, CartsAlone
<1>4. ASSUME NEW u \in User, Customer(u) PROVE CartsInv'
  BY <1>4, CustomerKeeps
<1>5. ASSUME NEW x \in Switchable, Switch(x) PROVE CartsInv'
  <2>1. UNCHANGED <<cart, nextRow, dropped, books, task>>
    BY <1>5 DEF Switch
  <2>2. NothingTaken' /\ NextIsFree'
    BY <2>1 DEF CartsInv, NothingTaken, NextIsFree, books
  <2>3. \A n : Kept(n) => Kept(n)'
    BY <2>1 DEF Kept, Placed, RowIds, books
  <2> QED BY <2>1, <2>2, <2>3, RowsStay
<1>6. ASSUME NEW w \in Worker, NEW u \in User, NEW c \in Code \cup {NoCode}, NEW s \in Ship,
             Call(w, u, c, s)
      PROVE  CartsInv'
  <2>1. UNCHANGED <<shop, books>>
    BY <1>6 DEF Call
  <2>2. NothingTaken'
    BY <1>6 DEF TypeOK, CartsInv, NothingTaken, Call, Go
  <2> QED BY <1>1, <2>1, <2>2 DEF books
<1>7. ASSUME NEW w \in Worker, Crash(w) PROVE CartsInv'
  <2>1. UNCHANGED <<shop, books>> /\ Go(w, Idle)
    BY <1>7 DEF Crash
  <2>2. NothingTaken'
    BY <2>1 DEF TypeOK, CartsInv, NothingTaken, Go
  <2> QED BY <1>1, <2>1, <2>2 DEF books
<1>8. CASE UNCHANGED vars
  <2>1. UNCHANGED <<shop, books, task>>
    BY <1>8 DEF vars, shop, books
  <2>2. NothingTaken'
    BY <2>1 DEF CartsInv, NothingTaken
  <2> QED BY <1>1, <2>1, <2>2 DEF books
<1> QED BY <1>2, <1>3, <1>4, <1>5, <1>6, <1>7, <1>8 DEF Next

\* Where no discount code exists, a row leaves a cart only into an order or by its
\* customer's hand: no refusal and no crash costs a customer the cart. With codes this
\* is false, because looking a code up commits the claim of the cart.
THEOREM CartsAreKept == Code = {} => (Spec => []NoCartLost)
<1> SUFFICES ASSUME Code = {} PROVE Spec => []NoCartLost
  OBVIOUS
<1>1. Init => CartsInv
  BY CheckoutAssumption DEF Init, CartsInv, NothingTaken, NextIsFree
<1>2. TypeOK /\ SplitHasCode /\ CartsInv /\ [Next]_vars => CartsInv'
  BY CartsStep
<1>3. CartsInv => NoCartLost
  BY DEF CartsInv, Kept, NoCartLost
<1> QED BY <1>1, <1>2, <1>3, TypeAndSplit, PTL DEF Spec
-----------------------------------------------------------------------------
(* The books: every wallet, every reservation and every use of a code is      *)
(* accounted for by the orders that were not rejected.                        *)

Holding(c) == {o \in Live : order[o].code = c}
BooksInv ==
  /\ NextIsFree
  /\ WalletConserved
  /\ \A i \in Physical : reserved[i] = SumFunctionOnSet(Wanted(i), Live)
  /\ \A c \in Code : used[c] = Cardinality(Holding(c))

\* What the books are sums of.
LEMMA LiveOrders ==
  ASSUME TypeOK
  PROVE  /\ IsFiniteSet(OrderId)
         /\ Live \in SUBSET OrderId
         /\ \A o \in Live : /\ order[o] \in Order
                            /\ WalletShare[o] = order[o].wallet /\ WalletShare[o] \in Nat
                            /\ \A i : /\ Wanted(i)[o] = Demand(order[o].rows, i)
                                      /\ Wanted(i)[o] \in Nat
<1>1. IsFiniteSet(OrderId)
  BY FS_Interval, CheckoutAssumption DEF OrderId
<1>2. \A o \in Live : order[o] \in Order
  BY DEF Live, Placed, TypeOK
<1>3. \A o \in Live : order[o].wallet \in Nat /\ order[o].rows \in SUBSET Row
  BY <1>2 DEF Order
<1>4. \A o \in Live : \A i : Demand(order[o].rows, i) \in Nat
  BY <1>3, DemandNat
<1> QED BY <1>1, <1>2, <1>3, <1>4 DEF Live, Placed, WalletShare, Wanted

\* Steps that change neither the orders nor what they are compared with.
LEMMA BooksAlone ==
  ASSUME BooksInv, UNCHANGED <<credit, used, reserved, order, nextOrder>>
  PROVE  BooksInv'
BY DEF BooksInv, NextIsFree, WalletConserved, WalletShare, Wanted, Holding, Live, Placed, Orders,
   Demand

\* An order that is entered with its wallet share, its goods and its code.
LEMMA OrderEntered ==
  ASSUME TypeOK, NEW n \in OrderId, order[n] = NoOrder, NEW rec \in Order,
         rec.status # "rejected", order' = [order EXCEPT ![n] = rec]
  PROVE  /\ n \notin Live /\ Live' = Live \cup {n}
         /\ \A u : (Orders(u) \cap Live)' =
              (Orders(u) \cap Live) \cup (IF u = rec.user THEN {n} ELSE {})
         /\ \A c : Holding(c)' = Holding(c) \cup (IF c = rec.code THEN {n} ELSE {})
         /\ WalletShare'[n] = rec.wallet /\ \A o \in Live : WalletShare'[o] = WalletShare[o]
         /\ \A i : /\ Wanted(i)'[n] = Demand(rec.rows, i)
                   /\ \A o \in Live : Wanted(i)'[o] = Wanted(i)[o]
<1>1. order'[n] = rec /\ \A o \in OrderId : o # n => order'[o] = order[o]
  BY DEF TypeOK
<1>2. rec # NoOrder
  BY SentinelAssumption
<1>3. Placed' = Placed \cup {n} /\ n \notin Placed
  BY <1>1, <1>2 DEF Placed
<1>4. n \notin Live /\ Live' = Live \cup {n} /\ Live \subseteq OrderId
  BY <1>1, <1>3 DEF Live, Placed
<1>5. \A u : (Orders(u) \cap Live)' =
        (Orders(u) \cap Live) \cup (IF u = rec.user THEN {n} ELSE {})
  BY <1>1, <1>3, <1>4 DEF Orders, Placed
<1>6. \A c : Holding(c)' = Holding(c) \cup (IF c = rec.code THEN {n} ELSE {})
  BY <1>1, <1>4 DEF Holding
<1>7. WalletShare'[n] = rec.wallet /\ \A o \in Live : WalletShare'[o] = WalletShare[o]
  BY <1>1, <1>4 DEF WalletShare
<1>8. \A i : /\ Wanted(i)'[n] = Demand(rec.rows, i)
             /\ \A o \in Live : Wanted(i)'[o] = Wanted(i)[o]
  BY <1>1, <1>4 DEF Wanted, Demand
<1> QED BY <1>4, <1>5, <1>6, <1>7, <1>8

\* Place enters an order and changes the books by what is in it.
LEMMA PlaceBooks ==
  ASSUME TypeOK, BooksInv, NEW w \in Worker, task[w] # Idle,
         NEW rows \in SUBSET Row, NEW off, NEW pay \in Nat, Place(w, rows, off, pay)
  PROVE  BooksInv'
<1> DEFINE t == task[w]
           n == nextOrder
<1>1. t.user \in User /\ t.code \in Code \cup {NoCode} /\ t.key \in Key
  BY DEF TypeOK, Task
<1>2. n \in OrderId /\ order[n] = NoOrder /\ nextOrder' = n + 1
  BY CheckoutAssumption DEF Place, TypeOK, OrderId, BooksInv, NextIsFree
<1>3. PICK rec \in Order :
        /\ order' = [order EXCEPT ![n] = rec] /\ rec.status # "rejected"
        /\ rec.user = t.user /\ rec.wallet = pay /\ rec.rows = rows /\ rec.code = t.code
  <2>1. PICK auto \in BOOLEAN :
          order' = [order EXCEPT ![n] =
            [user |-> t.user, rows |-> rows, wallet |-> pay, code |-> t.code, key |-> t.key,
             status |-> IF auto /\ Due(rows, off, pay) <= 0 THEN "approved" ELSE "pending"]]
    BY DEF Place
  <2> DEFINE rec == [user |-> t.user, rows |-> rows, wallet |-> pay, code |-> t.code,
                     key |-> t.key,
                     status |-> IF auto /\ Due(rows, off, pay) <= 0 THEN "approved" ELSE "pending"]
  <2>2. rec \in Order /\ rec.status # "rejected"
    BY <1>1 DEF Order
  <2> QED BY <2>1, <2>2
<1>4. /\ credit' = [credit EXCEPT ![t.user] = @ - pay]
      /\ used' = [c \in Code |-> IF c = t.code THEN used[c] + 1 ELSE used[c]]
      /\ reserved' = [i \in Physical |-> reserved[i] + Demand(rows, i)]
  BY DEF Place
<1> HIDE DEF t, n
<1>5. NextIsFree'
  <2>1. \A o \in OrderId : o >= n + 1 => o # n /\ o >= n
    BY <1>2 DEF OrderId
  <2>2. \A o \in OrderId : o # n => order'[o] = order[o]
    BY <1>3 DEF TypeOK
  <2> QED BY <1>2, <2>1, <2>2 DEF BooksInv, NextIsFree, n
<1>6. /\ n \notin Live /\ Live' = Live \cup {n}
      /\ \A u : (Orders(u) \cap Live)' =
           (Orders(u) \cap Live) \cup (IF u = t.user THEN {n} ELSE {})
      /\ \A c : Holding(c)' = Holding(c) \cup (IF c = t.code THEN {n} ELSE {})
      /\ WalletShare'[n] = pay /\ \A o \in Live : WalletShare'[o] = WalletShare[o]
      /\ \A i : /\ Wanted(i)'[n] = Demand(rows, i)
                /\ \A o \in Live : Wanted(i)'[o] = Wanted(i)[o]
  <2>1. /\ n \notin Live /\ Live' = Live \cup {n}
        /\ \A u : (Orders(u) \cap Live)' =
             (Orders(u) \cap Live) \cup (IF u = rec.user THEN {n} ELSE {})
        /\ \A c : Holding(c)' = Holding(c) \cup (IF c = rec.code THEN {n} ELSE {})
        /\ WalletShare'[n] = rec.wallet /\ \A o \in Live : WalletShare'[o] = WalletShare[o]
        /\ \A i : /\ Wanted(i)'[n] = Demand(rec.rows, i)
                  /\ \A o \in Live : Wanted(i)'[o] = Wanted(i)[o]
    <3>1. order[n] = NoOrder /\ rec.status # "rejected" /\ order' = [order EXCEPT ![n] = rec]
      BY <1>2, <1>3
    <3>2. n \in OrderId
      BY <1>2
    <3> QED BY <3>1, <3>2, OrderEntered
  <2>2. rec.user = t.user /\ rec.wallet = pay /\ rec.rows = rows /\ rec.code = t.code
    BY <1>3
  <2> HIDE DEF n, t
  <2> QED BY <2>1, <2>2, Zenon
<1>7. /\ IsFiniteSet(Live) /\ \A u : IsFiniteSet(Orders(u) \cap Live)
      /\ \A c : IsFiniteSet(Holding(c))
  BY LiveOrders, FS_Subset DEF Holding
<1>8. \A o \in Live : WalletShare[o] \in Nat /\ \A i : Wanted(i)[o] \in Nat
  BY LiveOrders
<1>9. WalletConserved'
  <2> SUFFICES ASSUME NEW u \in User
               PROVE  credit'[u] + SumFunctionOnSet(WalletShare', (Orders(u) \cap Live)') = Purse[u]
    BY DEF WalletConserved
  <2> DEFINE mine == Orders(u) \cap Live
             sum == SumFunctionOnSet(WalletShare, mine)
  <2>1. credit[u] + sum = Purse[u] /\ credit[u] \in Nat
    BY DEF BooksInv, WalletConserved, TypeOK
  <2>2. /\ IsFiniteSet(mine) /\ n \notin mine
        /\ \A o \in mine : WalletShare[o] \in Int /\ WalletShare'[o] = WalletShare[o]
    BY <1>6, <1>7, <1>8
  <2>3. (Orders(u) \cap Live)' = mine \cup (IF u = t.user THEN {n} ELSE {})
    BY <1>6
  <2> HIDE DEF mine
  <2>4. sum \in Int
    BY <2>2, SumType
  <2>5. CASE u = t.user
    <3>1. SumFunctionOnSet(WalletShare', mine \cup {n}) = sum + pay
      BY <1>6, <2>2, SumGrows
    <3>2. (Orders(u) \cap Live)' = mine \cup {n}
      BY <2>3, <2>5
    <3>3. SumFunctionOnSet(WalletShare', (Orders(u) \cap Live)') = sum + pay
      BY <3>1, <3>2, Zenon
    <3>4. credit'[u] = credit[u] - pay
      BY <1>4, <2>5 DEF TypeOK
    <3> HIDE DEF sum
    <3> QED BY <2>1, <2>4, <3>3, <3>4
  <2>6. CASE u # t.user
    <3>1. SumFunctionOnSet(WalletShare', mine) = sum
      BY <2>2, SumSame
    <3>2. (Orders(u) \cap Live)' = mine
      BY <2>3, <2>6
    <3>3. SumFunctionOnSet(WalletShare', (Orders(u) \cap Live)') = sum
      BY <3>1, <3>2, Zenon
    <3>4. credit'[u] = credit[u]
      BY <1>4, <2>6 DEF TypeOK
    <3> HIDE DEF sum
    <3> QED BY <2>1, <2>4, <3>3, <3>4
  <2> QED BY <2>5, <2>6
<1>10. ASSUME NEW i \in Physical
       PROVE  reserved'[i] = SumFunctionOnSet(Wanted(i)', Live')
  <2>1. Demand(rows, i) \in Nat /\ \A o \in Live : Wanted(i)'[o] = Wanted(i)[o]
    BY <1>6, DemandNat
  <2>2. SumFunctionOnSet(Wanted(i)', Live \cup {n})
          = SumFunctionOnSet(Wanted(i), Live) + Demand(rows, i)
    BY <1>6, <1>7, <1>8, <2>1, SumGrows
  <2>3. Live' = Live \cup {n}
    BY <1>6
  <2>4. SumFunctionOnSet(Wanted(i)', Live') = SumFunctionOnSet(Wanted(i), Live) + Demand(rows, i)
    BY <2>2, <2>3, Zenon
  <2>5. reserved'[i] = reserved[i] + Demand(rows, i)
        /\ reserved[i] = SumFunctionOnSet(Wanted(i), Live)
    BY <1>4 DEF BooksInv
  <2> QED BY <2>4, <2>5, Zenon
<1>11. ASSUME NEW c \in Code
       PROVE  used'[c] = Cardinality(Holding(c)')
  <2>1. used[c] = Cardinality(Holding(c)) /\ used[c] \in Nat
    BY DEF BooksInv, TypeOK
  <2>2. IsFiniteSet(Holding(c)) /\ n \notin Holding(c)
    BY <1>6, <1>7 DEF Holding
  <2>3. Holding(c)' = Holding(c) \cup (IF c = t.code THEN {n} ELSE {})
    BY <1>6
  <2>4. Cardinality(Holding(c) \cup {n}) = Cardinality(Holding(c)) + 1
    BY <2>2, FS_AddElement
  <2>5. CASE c = t.code
    <3>1. Holding(c)' = Holding(c) \cup {n}
      BY <2>3, <2>5
    <3>2. Cardinality(Holding(c)') = Cardinality(Holding(c)) + 1
      BY <2>4, <3>1, Zenon
    <3> QED BY <1>4, <2>1, <2>5, <3>2
  <2>6. CASE c # t.code
    <3>1. Holding(c)' = Holding(c)
      BY <2>3, <2>6
    <3>2. used'[c] = used[c]
      BY <1>4, <2>6
    <3> QED BY <2>1, <3>1, <3>2, Zenon
  <2> QED BY <2>5, <2>6
<1> QED BY <1>5, <1>9, <1>10, <1>11 DEF BooksInv

\* The status of an order changes and nothing else in it.
LEMMA OrderDecided ==
  ASSUME TypeOK, NEW o \in OrderId, CanDecide(o), NEW s \in {"approved", "rejected"},
         order' = [order EXCEPT ![o].status = s]
  PROVE  /\ o \in Live /\ Live' = IF s = "rejected" THEN Live \ {o} ELSE Live
         /\ \A p \in OrderId : order[p] = NoOrder => order'[p] = NoOrder
         /\ \A p \in Live : /\ p \in OrderId /\ order'[p].user = order[p].user
                            /\ order'[p].wallet = order[p].wallet
                            /\ order'[p].rows = order[p].rows /\ order'[p].code = order[p].code
<1>1. order[o] \in Order /\ order[o].status = "pending" /\ order[o] # NoOrder
  BY DEF TypeOK, CanDecide, Placed
<1>2. order'[o] = [order[o] EXCEPT !.status = s] /\ \A p \in OrderId : p # o => order'[p] = order[p]
  BY DEF TypeOK
<1>3. /\ order'[o] \in Order /\ order'[o].status = s /\ order'[o].user = order[o].user
      /\ order'[o].wallet = order[o].wallet /\ order'[o].rows = order[o].rows
      /\ order'[o].code = order[o].code
  BY <1>1, <1>2 DEF Order
<1>4. order'[o] # NoOrder
  BY <1>3, SentinelAssumption
<1>5. Placed' = Placed /\ o \in Placed
  BY <1>1, <1>2, <1>4 DEF Placed
<1>6. o \in Live /\ Live' = IF s = "rejected" THEN Live \ {o} ELSE Live
  BY <1>1, <1>2, <1>3, <1>5 DEF Live, Placed
<1> QED BY <1>1, <1>2, <1>3, <1>6 DEF Live, Placed

\* A decision takes an order out of the books with all that was in it, or leaves them.
LEMMA DecisionBooks ==
  ASSUME TypeOK, BooksInv, NEW o \in OrderId, Approve(o) \/ Reject(o)
  PROVE  BooksInv'
<1>1. UNCHANGED nextOrder /\ CanDecide(o)
  BY DEF Approve, Reject
<1>2. PICK s \in {"approved", "rejected"} :
        /\ order' = [order EXCEPT ![o].status = s]
        /\ s = "approved" => Approve(o)
        /\ s = "rejected" => Reject(o)
  BY DEF Approve, Reject
<1>3. /\ o \in Live /\ Live' = IF s = "rejected" THEN Live \ {o} ELSE Live
      /\ \A p \in OrderId : order[p] = NoOrder => order'[p] = NoOrder
      /\ \A p \in Live : /\ p \in OrderId /\ order'[p].user = order[p].user
                         /\ order'[p].wallet = order[p].wallet
                         /\ order'[p].rows = order[p].rows /\ order'[p].code = order[p].code
  BY <1>1, <1>2, OrderDecided
<1>4. NextIsFree'
  BY <1>1, <1>3 DEF BooksInv, NextIsFree
<1>5. /\ \A u : (Orders(u) \cap Live)' =
           IF s = "rejected" THEN (Orders(u) \cap Live) \ {o} ELSE Orders(u) \cap Live
      /\ \A c : Holding(c)' = IF s = "rejected" THEN Holding(c) \ {o} ELSE Holding(c)
  <2>1. Live' \subseteq Live /\ Live \subseteq Placed /\ Live' \subseteq Placed'
    BY <1>3 DEF Live
  <2>2. \A u : \A p \in Live' : p \in Orders(u)' <=> p \in Orders(u)
    BY <1>3, <2>1 DEF Orders
  <2> QED BY <1>3, <2>1, <2>2 DEF Holding
<1>6. \A p \in Live' : /\ WalletShare'[p] = WalletShare[p]
                       /\ \A i : Wanted(i)'[p] = Wanted(i)[p]
  <2>1. Live' \subseteq Live
    BY <1>3
  <2>2. \A p \in Live' : WalletShare'[p] = order'[p].wallet /\ WalletShare[p] = order[p].wallet
    BY <2>1 DEF WalletShare
  <2>3. \A p \in Live' : \A i : /\ Wanted(i)'[p] = Demand(order'[p].rows, i)
                                /\ Wanted(i)[p] = Demand(order[p].rows, i)
    BY <2>1 DEF Wanted, Demand
  <2> QED BY <1>3, <2>1, <2>2, <2>3
<1>7. IsFiniteSet(Live) /\ \A u : IsFiniteSet(Orders(u) \cap Live)
  BY LiveOrders, FS_Subset
<1>8. CASE s = "approved"
  <2>1. UNCHANGED <<credit, used, reserved>>
    BY <1>2, <1>8 DEF Approve
  <2>2. WalletConserved'
    <3> SUFFICES ASSUME NEW u \in User
                 PROVE  credit[u] + SumFunctionOnSet(WalletShare', (Orders(u) \cap Live)') = Purse[u]
      BY <2>1 DEF WalletConserved
    <3>1. (Orders(u) \cap Live)' = Orders(u) \cap Live
      BY <1>5, <1>8
    <3>2. SumFunctionOnSet(WalletShare', Orders(u) \cap Live)
            = SumFunctionOnSet(WalletShare, Orders(u) \cap Live)
      BY <1>3, <1>6, <1>7, <1>8, SumSame
    <3> QED BY <3>1, <3>2 DEF BooksInv, WalletConserved
  <2>3. ASSUME NEW i \in Physical
        PROVE  reserved'[i] = SumFunctionOnSet(Wanted(i)', Live')
    <3>1. SumFunctionOnSet(Wanted(i)', Live) = SumFunctionOnSet(Wanted(i), Live)
      BY <1>3, <1>6, <1>7, <1>8, SumSame
    <3> QED BY <1>3, <1>8, <2>1, <3>1 DEF BooksInv
  <2>4. \A c \in Code : used'[c] = Cardinality(Holding(c)')
    BY <1>5, <1>8, <2>1 DEF BooksInv
  <2> QED BY <1>4, <2>2, <2>3, <2>4 DEF BooksInv
<1>9. CASE s = "rejected"
  <2> DEFINE rec == order[o]
  <2>1. /\ rec \in Order /\ WalletShare[o] = rec.wallet /\ rec.wallet \in Nat
        /\ \A i : Wanted(i)[o] = Demand(rec.rows, i) /\ Demand(rec.rows, i) \in Nat
        /\ \A p \in Live : WalletShare[p] \in Nat /\ \A i : Wanted(i)[p] \in Nat
    BY <1>3, LiveOrders
  <2>2. rec.user \in User
    BY <2>1 DEF Order
  <2>3. /\ credit' = [credit EXCEPT ![rec.user] = Floor0(@ + rec.wallet)]
        /\ used' = [c \in Code |-> IF c = rec.code THEN Floor0(used[c] - 1) ELSE used[c]]
        /\ reserved' = [i \in Physical |-> Floor0(reserved[i] - Demand(rec.rows, i))]
    BY <1>2, <1>9 DEF Reject
  <2> HIDE DEF rec
  <2>4. WalletConserved'
    <3> SUFFICES ASSUME NEW u \in User
                 PROVE  credit'[u] + SumFunctionOnSet(WalletShare', (Orders(u) \cap Live)') = Purse[u]
      BY DEF WalletConserved
    <3> DEFINE mine == Orders(u) \cap Live
    <3>1. /\ credit[u] + SumFunctionOnSet(WalletShare, mine) = Purse[u]
          /\ credit[u] \in Nat
      BY DEF BooksInv, WalletConserved, TypeOK
    <3>2. /\ IsFiniteSet(mine) /\ \A p \in mine : WalletShare[p] \in Int
          /\ \A p \in mine \ {o} : WalletShare'[p] = WalletShare[p]
      BY <1>3, <1>6, <1>7, <1>9, <2>1
    <3>3. SumFunctionOnSet(WalletShare, mine) \in Int
      BY <3>2, SumType
    <3>4. CASE u = rec.user
      <4>1. o \in mine
        BY <1>3, <3>4 DEF Orders, Live, rec
      <4>2. SumFunctionOnSet(WalletShare', mine \ {o})
              = SumFunctionOnSet(WalletShare, mine) - rec.wallet
        BY <2>1, <3>2, <4>1, SumShrinks
      <4>3. credit'[u] = credit[u] + rec.wallet
        BY <2>1, <2>3, <3>1, <3>4 DEF TypeOK, Floor0
      <4>4. (Orders(u) \cap Live)' = mine \ {o}
        BY <1>5, <1>9
      <4>5. SumFunctionOnSet(WalletShare', (Orders(u) \cap Live)')
              = SumFunctionOnSet(WalletShare, mine) - rec.wallet
        BY <4>2, <4>4, Zenon
      <4> DEFINE sum == SumFunctionOnSet(WalletShare, mine)
                 next == SumFunctionOnSet(WalletShare', (Orders(u) \cap Live)')
      <4>6. /\ sum \in Int /\ rec.wallet \in Nat /\ credit[u] \in Nat
            /\ credit[u] + sum = Purse[u] /\ next = sum - rec.wallet
        BY <2>1, <3>1, <3>3, <4>5
      <4> HIDE DEF sum, next
      <4>7. credit'[u] + next = Purse[u]
        BY <4>3, <4>6
      <4> QED BY <4>7 DEF next
    <3>5. CASE u # rec.user
      <4>1. o \notin mine
        BY <3>5 DEF Orders, rec
      <4>2. (Orders(u) \cap Live)' = mine
        BY <1>5, <1>9, <4>1
      <4>3. SumFunctionOnSet(WalletShare', mine) = SumFunctionOnSet(WalletShare, mine)
        BY <3>2, <4>1, SumSame
      <4>4. credit'[u] = credit[u]
        BY <2>3, <3>5 DEF TypeOK
      <4> QED BY <3>1, <4>2, <4>3, <4>4
    <3> QED BY <3>4, <3>5
  <2>5. ASSUME NEW i \in Physical
        PROVE  reserved'[i] = SumFunctionOnSet(Wanted(i)', Live')
    <3>1. reserved[i] = SumFunctionOnSet(Wanted(i), Live) /\ reserved[i] \in Nat
      BY DEF BooksInv, TypeOK
    <3>2. Demand(rec.rows, i) <= SumFunctionOnSet(Wanted(i), Live)
      BY <1>3, <1>7, <2>1, SumPart
    <3>3. SumFunctionOnSet(Wanted(i)', Live \ {o})
            = SumFunctionOnSet(Wanted(i), Live) - Demand(rec.rows, i)
      <4>1. /\ \A p \in Live : Wanted(i)[p] \in Int
            /\ \A p \in Live \ {o} : Wanted(i)'[p] = Wanted(i)[p]
            /\ Wanted(i)[o] = Demand(rec.rows, i)
        BY <1>3, <1>6, <1>9, <2>1
      <4>2. SumFunctionOnSet(Wanted(i)', Live \ {o})
              = SumFunctionOnSet(Wanted(i), Live) - Wanted(i)[o]
        BY <1>3, <1>7, <4>1, SumShrinks
      <4> QED BY <4>1, <4>2
    <3>4. reserved'[i] = reserved[i] - Demand(rec.rows, i)
      BY <2>1, <2>3, <3>1, <3>2 DEF Floor0
    <3> QED BY <1>3, <1>9, <3>1, <3>3, <3>4
  <2>6. ASSUME NEW c \in Code
        PROVE  used'[c] = Cardinality(Holding(c)')
    <3>1. used[c] = Cardinality(Holding(c)) /\ used[c] \in Nat
      BY DEF BooksInv, TypeOK
    <3>2. IsFiniteSet(Holding(c))
      BY <1>7, FS_Subset DEF Holding
    <3>3. CASE c = rec.code
      <4>1. o \in Holding(c)
        BY <1>3, <3>3 DEF Holding, rec
      <4>2. Cardinality(Holding(c) \ {o}) = Cardinality(Holding(c)) - 1
        BY <3>2, <4>1, FS_RemoveElement
      <4>3. Cardinality(Holding(c) \ {o}) \in Nat
        BY <3>2, FS_RemoveElement, FS_CardinalityType
      <4>4. used'[c] = used[c] - 1
        BY <2>3, <3>1, <3>3, <4>2, <4>3 DEF Floor0
      <4> QED BY <1>5, <1>9, <3>1, <4>2, <4>4
    <3>4. CASE c # rec.code
      <4>1. Holding(c) \ {o} = Holding(c)
        BY <3>4 DEF Holding, rec
      <4> QED BY <1>5, <1>9, <2>3, <3>1, <3>4, <4>1
    <3> QED BY <3>3, <3>4
  <2> QED BY <1>4, <2>4, <2>5, <2>6 DEF BooksInv
<1> QED BY <1>8, <1>9

LEMMA BooksStep ==
  ASSUME TypeOK, SplitHasCode, BooksInv, [Next]_vars
  PROVE  BooksInv'
<1>1. CASE UNCHANGED books
  BY <1>1, BooksAlone DEF books
<1>2. ASSUME NEW w \in Worker, Run(w) PROVE BooksInv'
  <2>1. task[w] # Idle /\ task[w] \in Task
    BY <1>2 DEF TypeOK, Run, FastPath, PreCheck, Refuse, CheckoutPlain, ClaimCart, Quote, Settle, At
  <2>2. task[w].user \in User /\ task[w].rows \in SUBSET Row /\ task[w].pay \in Nat
    BY <2>1 DEF Task
  <2>3. CASE CheckoutPlain(w) /\ ~UNCHANGED books
    <3> DEFINE rows == cart[task[w].user]
               pay == Least(credit[task[w].user], CartTotal(rows))
    <3>1. rows \in SUBSET Row /\ credit[task[w].user] \in Nat
      BY <2>2 DEF TypeOK
    <3>2. pay \in Nat
      BY <3>1, LeastBounds, PricingAssumption
    <3>3. Place(w, rows, 0, pay)
      BY <2>3 DEF CheckoutPlain
    <3> HIDE DEF pay, rows
    <3> QED BY <2>1, <3>1, <3>2, <3>3, PlaceBooks
  <2>4. CASE Settle(w) /\ ~UNCHANGED books
    <3>1. Place(w, task[w].rows, Off(task[w]), task[w].pay)
      BY <2>4 DEF Settle
    <3> QED BY <2>1, <2>2, <3>1, PlaceBooks
  <2>5. CASE FastPath(w) \/ PreCheck(w) \/ Refuse(w) \/ ClaimCart(w) \/ Quote(w)
    BY <1>1, <2>5 DEF FastPath, PreCheck, Refuse, ClaimCart, Quote
  <2> QED BY <1>1, <1>2, <2>3, <2>4, <2>5 DEF Run
<1>3. ASSUME NEW o \in OrderId, Approve(o) \/ Reject(o) PROVE BooksInv'
  BY <1>3, DecisionBooks
<1>4. ASSUME NEW u \in User, Customer(u) PROVE BooksInv'
  BY <1>1, <1>4 DEF Customer, PutInCart, RemoveFromCart
<1>5. ASSUME NEW x \in Switchable, Switch(x) PROVE BooksInv'
  BY <1>1, <1>5 DEF Switch
<1>6. ASSUME NEW w \in Worker, NEW u \in User, NEW c \in Code \cup {NoCode}, NEW s \in Ship,
             Call(w, u, c, s)
      PROVE  BooksInv'
  BY <1>1, <1>6 DEF Call
<1>7. ASSUME NEW w \in Worker, Crash(w) PROVE BooksInv'
  BY <1>1, <1>7 DEF Crash
<1>8. CASE UNCHANGED vars
  BY <1>1, <1>8 DEF vars, books
<1> QED BY <1>2, <1>3, <1>4, <1>5, <1>6, <1>7, <1>8 DEF Next

\* The books agree in every state.
LEMMA BooksAgree == Spec => []BooksInv
<1>1. Init => BooksInv
  <2> SUFFICES ASSUME Init PROVE BooksInv
    OBVIOUS
  <2>1. Live = {}
    BY DEF Init, Live, Placed
  <2>2. \A u : Orders(u) \cap Live = {}
    BY <2>1
  <2>3. \A c : Holding(c) = {}
    BY <2>1 DEF Holding
  <2>4. WalletConserved
    <3> SUFFICES ASSUME NEW u \in User
                 PROVE  credit[u] + SumFunctionOnSet(WalletShare, Orders(u) \cap Live) = Purse[u]
      BY DEF WalletConserved
    <3>1. SumFunctionOnSet(WalletShare, {}) = 0
      BY SumEmpty
    <3>2. credit[u] = Purse[u] /\ Purse[u] \in Nat
      BY CheckoutAssumption DEF Init
    <3> QED BY <2>2, <3>1, <3>2
  <2>5. \A i \in Physical : reserved[i] = SumFunctionOnSet(Wanted(i), Live)
    BY <2>1, SumEmpty DEF Init
  <2>6. \A c \in Code : used[c] = Cardinality(Holding(c))
    BY <2>3, FS_EmptySet DEF Init
  <2> QED BY <2>4, <2>5, <2>6 DEF Init, BooksInv, NextIsFree
<1>2. TypeOK /\ SplitHasCode /\ BooksInv /\ [Next]_vars => BooksInv'
  BY BooksStep
<1> QED BY <1>1, <1>2, TypeAndSplit, PTL DEF Spec

\* Wallet money is neither lost nor made, for any number of customers, workers, orders
\* and codes: whatever is refused, retried, rejected or cut off by a crash.
THEOREM MoneyConserved == Spec => []WalletConserved
<1>1. BooksInv => WalletConserved
  BY DEF BooksInv
<1> QED BY <1>1, BooksAgree, PTL

\* A code counts the orders that hold it, within its limit: UPDATE and order are in one
\* transaction, and a rejection that gives the use back comes once.
THEOREM UsesCounted == Spec => []CodeUseExact
<1>1. BooksInv /\ CodeWithinLimit => CodeUseExact
  BY DEF BooksInv, Holding, CodeUseExact
<1> QED BY <1>1, BooksAgree, WithinLimits, PTL

\* What is reserved of a variant is what the orders that were not rejected ask for, and
\* within its stock.
THEOREM StockPromised == Spec => []StockExact
<1>1. BooksInv /\ NeverOversold => StockExact
  BY DEF BooksInv, StockExact
<1> QED BY <1>1, BooksAgree, WithinLimits, PTL
-----------------------------------------------------------------------------
(* Checkout implements Shop.                                                  *)

\* What a worker holds.
Hand(w) == IF task[w] = Idle THEN {} ELSE task[w].rows

\* A worker holds rows exactly between the claim of the cart and its return.
HandsInv ==
  \A w \in Worker : task[w] # Idle =>
    IF task[w].pc \in {"claimed", "quoted"} THEN task[w].rows # {} ELSE task[w].rows = {}

ImplInv == TypeOK /\ SplitHasCode /\ RowsApart /\ Limits /\ BooksInv /\ HandsInv

\* What is in one cart, in one hand or in one order is nowhere else.
LEMMA HandsApart ==
  ASSUME RowsApart
  PROVE  /\ \A u \in User, w \in Worker : cart[u] \cap Hand(w) = {}
         /\ \A v, w \in Worker : v # w => Hand(v) \cap Hand(w) = {}
         /\ \A u \in User, o \in Placed : RowIds(cart[u]) \cap RowIds(order[o].rows) = {}
         /\ \A o \in Placed : \A n \in RowIds(order[o].rows) : n < nextRow
<1>1. \A g, h \in Holder : g # h => Ids(g) \cap Ids(h) = {}
  BY DEF RowsApart
<1>2. \A w \in Worker : Ids(<<"task", w>>) = RowIds(Hand(w))
  BY IdsOf DEF Hand, RowIds
<1>3. \A A, B : RowIds(A) \cap RowIds(B) = {} => A \cap B = {}
  BY DEF RowIds
<1>4. \A u \in User, w \in Worker : cart[u] \cap Hand(w) = {}
  <2> SUFFICES ASSUME NEW u \in User, NEW w \in Worker
               PROVE  RowIds(cart[u]) \cap RowIds(Hand(w)) = {}
    BY <1>3
  <2>1. <<"cart", u>> # <<"task", w>>
    OBVIOUS
  <2> QED BY <1>1, <1>2, <2>1, IdsOf
<1>5. \A v, w \in Worker : v # w => Hand(v) \cap Hand(w) = {}
  <2> SUFFICES ASSUME NEW v \in Worker, NEW w \in Worker, v # w
               PROVE  RowIds(Hand(v)) \cap RowIds(Hand(w)) = {}
    BY <1>3
  <2>1. <<"task", v>> # <<"task", w>>
    OBVIOUS
  <2> QED BY <1>1, <1>2, <2>1, IdsOf
<1>6. \A u \in User, o \in Placed : RowIds(cart[u]) \cap RowIds(order[o].rows) = {}
  <2> SUFFICES ASSUME NEW u \in User, NEW o \in Placed
               PROVE  RowIds(cart[u]) \cap RowIds(order[o].rows) = {}
    OBVIOUS
  <2>1. <<"cart", u>> # <<"order", o>>
    OBVIOUS
  <2> QED BY <1>1, <2>1, IdsOf DEF Placed
<1>7. \A o \in Placed : \A n \in RowIds(order[o].rows) : n < nextRow
  <2>1. \A o \in Placed : <<"order", o>> \in Holder /\ Ids(<<"order", o>>) = RowIds(order[o].rows)
    BY IdsOf DEF Placed
  <2> QED BY <2>1 DEF RowsApart
<1> QED BY <1>4, <1>5, <1>6, <1>7

\* A basket is a cart with what hands that work for its customer hold.
HandOf(w, u) == IF task[w] # Idle /\ task[w].user = u THEN task[w].rows ELSE {}

LEMMA BasketOf ==
  /\ Basket = [u \in User |-> cart[u] \cup UNION {HandOf(w, u) : w \in Worker}]
  /\ Basket' = [u \in User |-> cart'[u] \cup UNION {HandOf(w, u)' : w \in Worker}]
<1>1. \A u : UNION {task[w].rows : w \in {v \in Worker : task[v] # Idle /\ task[v].user = u}}
               = UNION {HandOf(w, u) : w \in Worker}
  BY DEF HandOf
<1>2. \A u : UNION {task'[w].rows : w \in {v \in Worker : task'[v] # Idle /\ task'[v].user = u}}
               = UNION {HandOf(w, u)' : w \in Worker}
  BY DEF HandOf
<1> QED BY <1>1, <1>2 DEF Basket

\* The customer's own steps: some rows go out of the cart, others come in.
LEMMA BasketByHand ==
  ASSUME TypeOK, RowsApart, NEW u \in User, NEW out \in SUBSET cart[u], NEW in, UNCHANGED task,
         cart' = [cart EXCEPT ![u] = (@ \ out) \cup in]
  PROVE  /\ out \in SUBSET Basket[u]
         /\ Basket' = [Basket EXCEPT ![u] = (@ \ out) \cup in]
<1>1. cart'[u] = (cart[u] \ out) \cup in /\ \A v \in User : v # u => cart'[v] = cart[v]
  BY DEF TypeOK
<1>2. \A w \in Worker : \A v \in User : HandOf(w, v)' = HandOf(w, v)
  BY DEF HandOf
<1>3. \A w \in Worker : HandOf(w, u) \cap out = {}
  <2>1. \A w \in Worker : HandOf(w, u) \subseteq Hand(w)
    BY DEF HandOf, Hand
  <2>2. \A w \in Worker : cart[u] \cap Hand(w) = {}
    BY HandsApart
  <2> QED BY <2>1, <2>2
<1> DEFINE hands(v) == UNION {HandOf(w, v) : w \in Worker}
<1>4. \A v \in User : UNION {HandOf(w, v)' : w \in Worker} = hands(v)
  BY <1>2
<1>5. hands(u) \cap out = {}
  BY <1>3
<1>6. \A v \in User : Basket[v] = cart[v] \cup hands(v)
  BY BasketOf
<1>7. Basket' = [v \in User |-> cart'[v] \cup hands(v)]
  BY <1>4, BasketOf
<1> HIDE DEF hands
<1>8. cart'[u] \cup hands(u) = (Basket[u] \ out) \cup in
  BY <1>1, <1>5, <1>6
<1>9. \A v \in User : v # u => cart'[v] \cup hands(v) = Basket[v]
  BY <1>1, <1>6
<1>10. Basket = [v \in User |-> Basket[v]]
  BY BasketOf
<1>11. Basket' = [Basket EXCEPT ![u] = (@ \ out) \cup in]
  BY <1>7, <1>8, <1>9, <1>10
<1>12. out \in SUBSET Basket[u]
  BY <1>6
<1> QED BY <1>11, <1>12

\* A step of a worker: of its customer's cart and of what it holds some rows go.
LEMMA BasketByWorker ==
  ASSUME TypeOK, RowsApart, NEW u \in User, NEW w \in Worker,
         task[w] # Idle => task[w].user = u, task'[w] # Idle => task'[w].user = u,
         \A v \in Worker \ {w} : task'[v] = task[v],
         \A v \in User \ {u} : cart'[v] = cart[v],
         NEW gone, gone \subseteq cart[u] \cup Hand(w),
         cart'[u] \cup Hand(w)' = (cart[u] \cup Hand(w)) \ gone
  PROVE  /\ gone \in SUBSET Basket[u]
         /\ Basket' = [Basket EXCEPT ![u] = @ \ gone]
<1> DEFINE others(x) == UNION {HandOf(v, x) : v \in Worker \ {w}}
<1>1. \A x : UNION {HandOf(v, x) : v \in Worker} = HandOf(w, x) \cup others(x)
  OBVIOUS
<1>2. \A x : \A v \in Worker \ {w} : HandOf(v, x)' = HandOf(v, x)
  BY DEF HandOf
<1>3. \A x : UNION {HandOf(v, x)' : v \in Worker} = HandOf(w, x)' \cup others(x)
  BY <1>2
<1>4. /\ HandOf(w, u) = Hand(w) /\ HandOf(w, u)' = Hand(w)'
      /\ \A x \in User \ {u} : HandOf(w, x) = {} /\ HandOf(w, x)' = {}
  BY DEF HandOf, Hand
<1>5. others(u) \cap gone = {}
  <2>1. \A v \in Worker \ {w} : HandOf(v, u) \subseteq Hand(v)
    BY DEF HandOf, Hand
  <2>2. \A v \in Worker \ {w} : cart[u] \cap Hand(v) = {} /\ Hand(v) \cap Hand(w) = {}
    BY HandsApart
  <2> QED BY <2>1, <2>2
<1>6. \A x \in User : Basket[x] = cart[x] \cup (HandOf(w, x) \cup others(x))
  BY <1>1, BasketOf
<1>7. Basket' = [x \in User |-> cart'[x] \cup (HandOf(w, x)' \cup others(x))]
  BY <1>3, BasketOf
<1> HIDE DEF others
<1>8. Basket[u] = (cart[u] \cup Hand(w)) \cup others(u)
  BY <1>4, <1>6
<1>9. cart'[u] \cup (HandOf(w, u)' \cup others(u)) = Basket[u] \ gone
  BY <1>4, <1>5, <1>8
<1>10. \A x \in User \ {u} : cart'[x] \cup (HandOf(w, x)' \cup others(x)) = Basket[x]
  BY <1>4, <1>6
<1>11. Basket = [x \in User |-> Basket[x]]
  BY BasketOf
<1>12. Basket' = [Basket EXCEPT ![u] = @ \ gone]
  BY <1>7, <1>9, <1>10, <1>11
<1> QED BY <1>8, <1>12
\* The book has an entry for every order, with what the order has.
LEMMA BookOf ==
  ASSUME TypeOK, NEW o \in OrderId
  PROVE  /\ Book[o] = NoOrder <=> order[o] = NoOrder
         /\ order[o] # NoOrder =>
              /\ Book[o] \in Entry
              /\ Book[o].user = order[o].user /\ Book[o].rows = order[o].rows
              /\ Book[o].wallet = order[o].wallet /\ Book[o].code = order[o].code
              /\ Book[o].status = order[o].status
<1>1. CASE order[o] = NoOrder
  BY <1>1 DEF Book
<1>2. CASE order[o] # NoOrder
  <2> DEFINE e == [user |-> order[o].user, rows |-> order[o].rows, wallet |-> order[o].wallet,
                   code |-> order[o].code, status |-> order[o].status]
  <2>1. order[o] \in Order
    BY <1>2 DEF TypeOK
  <2>2. e \in Entry
    BY <2>1 DEF Order, Entry
  <2>3. Book[o] = e
    BY <1>2 DEF Book
  <2> QED BY <1>2, <2>2, <2>3, EntryAssumption
<1> QED BY <1>1, <1>2

\* Steps that change no order change no entry.
LEMMA BookAlone ==
  ASSUME UNCHANGED order
  PROVE  Book' = Book
BY DEF Book

\* A customer fills the basket or takes rows out.
LEMMA CustomerShops ==
  ASSUME ImplInv, NEW u \in User, Customer(u)
  PROVE  S!Fill(u) \/ S!Drop(u)
<1>0. TypeOK /\ RowsApart
  BY DEF ImplInv
<1>1. UNCHANGED <<order, credit, used, reserved, task>> /\ Book' = Book
  BY BookAlone DEF Customer, PutInCart, RemoveFromCart, books
<1>2. \A o \in OrderId : Book[o] # NoOrder => o \in Placed /\ Book[o].rows = order[o].rows
  BY <1>0, BookOf DEF Placed
<1>3. ASSUME NEW r \in Row, NEW out \in SUBSET cart[u],
             cart' = [cart EXCEPT ![u] = (@ \ out) \cup {r}], UNCHANGED dropped,
             \A q \in out : q.id = r.id,
             \A o \in Placed : r.id \notin RowIds(order[o].rows)
      PROVE  S!Fill(u)
  <2>1. out \in SUBSET Basket[u] /\ Basket' = [Basket EXCEPT ![u] = (@ \ out) \cup {r}]
    BY <1>0, <1>1, <1>3, BasketByHand
  <2>2. \A o \in OrderId : Book[o] # NoOrder => r.id \notin S!Ids(Book[o].rows)
    BY <1>2, <1>3 DEF S!Ids, RowIds
  <2> QED BY <1>1, <1>3, <2>1, <2>2 DEF S!Fill
<1>4. ASSUME NEW i \in Item, NEW q \in 1..MaxQty, PutInCart(u, i, q)
      PROVE  S!Fill(u)
  <2>1. UNCHANGED dropped /\ cart[u] \in SUBSET Row
    BY <1>0, <1>4 DEF PutInCart, TypeOK
  <2>2. ASSUME NEW r \in cart[u],
               cart' = [cart EXCEPT ![u] = (@ \ {r}) \cup {[r EXCEPT !.qty = q]}]
        PROVE  S!Fill(u)
    <3> DEFINE new == [r EXCEPT !.qty = q]
               old == {r}
    <3>1. new \in Row /\ new.id = r.id
      BY <2>1 DEF Row
    <3>2. \A o \in Placed : new.id \notin RowIds(order[o].rows)
      <4>1. r.id \in RowIds(cart[u])
        BY DEF RowIds
      <4> QED BY <1>0, <3>1, <4>1, HandsApart
    <3>3. old \in SUBSET cart[u] /\ \A x \in old : x.id = new.id
      BY <3>1
    <3>4. cart' = [cart EXCEPT ![u] = (@ \ old) \cup {new}]
      BY <2>2
    <3> HIDE DEF new, old
    <3> QED BY <1>3, <2>1, <3>1, <3>2, <3>3, <3>4
  <2>3. ASSUME nextRow <= MaxRow,
               cart' = [cart EXCEPT ![u] = @ \cup {[id |-> nextRow, item |-> i, qty |-> q]}]
        PROVE  S!Fill(u)
    <3> DEFINE r == [id |-> nextRow, item |-> i, qty |-> q]
    <3>1. nextRow \in 1..MaxRow
      BY <1>0, <2>3, CheckoutAssumption DEF TypeOK
    <3>2. r \in Row /\ r.id = nextRow
      BY <3>1 DEF Row
    <3>3. \A o \in Placed : nextRow \notin RowIds(order[o].rows)
      BY <1>0, <3>1, HandsApart
    <3> DEFINE old == {}
    <3>4. cart' = [cart EXCEPT ![u] = (@ \ old) \cup {r}]
      BY <2>3
    <3>5. old \in SUBSET cart[u] /\ \A x \in old : x.id = r.id
      OBVIOUS
    <3>6. \A o \in Placed : r.id \notin RowIds(order[o].rows)
      BY <3>2, <3>3
    <3> HIDE DEF r, old
    <3> QED BY <1>3, <2>1, <3>2, <3>4, <3>5, <3>6
  <2> QED BY <1>4, <2>2, <2>3 DEF PutInCart
<1>5. ASSUME NEW rows \in SUBSET cart[u], RemoveFromCart(u, rows)
      PROVE  S!Drop(u)
  <2>1. cart' = [cart EXCEPT ![u] = (@ \ rows) \cup {}]
    BY <1>5 DEF RemoveFromCart
  <2>2. rows \in SUBSET Basket[u] /\ Basket' = [Basket EXCEPT ![u] = (@ \ rows) \cup {}]
    BY <1>0, <1>1, <2>1, BasketByHand
  <2>3. Basket' = [Basket EXCEPT ![u] = @ \ rows]
    BY <2>2
  <2>4. dropped' = dropped \cup S!Ids(rows)
    BY <1>5 DEF RemoveFromCart, RowIds, S!Ids
  <2> QED BY <1>1, <2>2, <2>3, <2>4 DEF S!Drop
<1> QED BY <1>4, <1>5 DEF Customer

\* What a worker changes when it changes no books: the rows stay in its customer's
\* basket, or some are lost.
WorkersStep(u, w, gone) ==
  /\ task[w] # Idle => task[w].user = u
  /\ task'[w] # Idle => task'[w].user = u
  /\ \A v \in Worker \ {w} : task'[v] = task[v]
  /\ \A v \in User \ {u} : cart'[v] = cart[v]
  /\ gone \subseteq cart[u] \cup Hand(w)
  /\ cart'[u] \cup Hand(w)' = (cart[u] \cup Hand(w)) \ gone
  /\ UNCHANGED dropped

LEMMA BasketStep ==
  ASSUME TypeOK, RowsApart, NEW u \in User, NEW w \in Worker, NEW gone, WorkersStep(u, w, gone)
  PROVE  gone \in SUBSET Basket[u] /\ Basket' = [Basket EXCEPT ![u] = @ \ gone]
BY BasketByWorker DEF WorkersStep

LEMMA WorkerLoses ==
  ASSUME ImplInv, NEW u \in User, NEW w \in Worker, NEW gone, WorkersStep(u, w, gone),
         UNCHANGED books, gone = {} \/ Code # {}
  PROVE  [S!Next]_(S!vars)
<1>1. gone \in SUBSET Basket[u] /\ Basket' = [Basket EXCEPT ![u] = @ \ gone]
  BY BasketStep DEF ImplInv
<1>2. UNCHANGED <<dropped, credit, used, reserved>> /\ Book' = Book
  BY BookAlone DEF WorkersStep, books
<1>3. CASE gone = {}
  <2>1. Basket = [x \in User |-> Basket[x]]
    BY BasketOf
  <2>2. Basket' = Basket
    BY <1>1, <1>3, <2>1
  <2> QED BY <1>2, <2>2 DEF S!vars
<1>4. CASE Code # {}
  <2>1. S!Lose(u)
    BY <1>1, <1>2, <1>4 DEF S!Lose
  <2> QED BY <2>1 DEF S!Next
<1> QED BY <1>3, <1>4

\* A worker makes an order of rows it holds, or of its customer's cart.
LEMMA WorkerBuys ==
  ASSUME ImplInv, NEW u \in User, NEW w \in Worker, task[w] # Idle, task[w].user = u,
         NEW rows \in SUBSET Row, rows # {}, WorkersStep(u, w, rows),
         NEW off, NEW pay \in Nat, pay <= credit[u],
         task[w].code # NoCode => Usable(task[w].code), InStock(rows),
         Place(w, rows, off, pay)
  PROVE  S!Buy(u)
<1> DEFINE c == task[w].code
           n == nextOrder
<1>1. TypeOK /\ credit[u] \in Nat /\ c \in Code \cup {NoCode} /\ task[w].key \in Key
  BY DEF ImplInv, TypeOK, Task
<1>2. n \in OrderId /\ order[n] = NoOrder /\ Book[n] = NoOrder
  BY <1>1, CheckoutAssumption, BookOf DEF Place, TypeOK, OrderId, ImplInv, BooksInv, NextIsFree
<1>3. pay \in 0..credit[u]
  BY <1>1
<1>4. rows \in (SUBSET Basket[u]) \ {{}} /\ Basket' = [Basket EXCEPT ![u] = @ \ rows]
  <2>1. TypeOK /\ RowsApart
    BY DEF ImplInv
  <2>2. rows \in SUBSET Basket[u] /\ Basket' = [Basket EXCEPT ![u] = @ \ rows]
    BY <2>1, BasketStep, Zenon
  <2> QED BY <2>2
<1>5. PICK s \in {"pending", "approved"} :
        order' = [order EXCEPT ![n] =
          [user |-> u, rows |-> rows, wallet |-> pay, code |-> c, key |-> task[w].key,
           status |-> s]]
  BY DEF Place
<1>6. Book' = [Book EXCEPT ![n] =
                 [user |-> u, rows |-> rows, wallet |-> pay, code |-> c, status |-> s]]
  <2> DEFINE rec == [user |-> u, rows |-> rows, wallet |-> pay, code |-> c,
                     key |-> task[w].key, status |-> s]
  <2>1. rec \in Order /\ rec # NoOrder
    BY <1>1, SentinelAssumption DEF Order
  <2>2. order'[n] = rec /\ \A o \in OrderId : o # n => order'[o] = order[o]
    BY <1>1, <1>2, <1>5 DEF TypeOK
  <2>3. Book'[n] = [user |-> u, rows |-> rows, wallet |-> pay, code |-> c, status |-> s]
    BY <1>2, <2>1, <2>2 DEF Book
  <2>4. \A o \in OrderId : o # n => Book'[o] = Book[o]
    BY <2>2 DEF Book
  <2>5. Book = [o \in OrderId |-> Book[o]] /\ Book' = [o \in OrderId |-> Book'[o]]
    BY DEF Book
  <2> HIDE DEF rec, n, c
  <2> QED BY <1>2, <2>3, <2>4, <2>5
<1>7. c # NoCode => (MaxUses[c] = 0 \/ used[c] < MaxUses[c])
  BY DEF Usable
<1>8. \A i \in Physical : reserved[i] + Demand(rows, i) <= Stock[i]
  BY DemandFits DEF ImplInv, TypeOK, Limits, NeverOversold
<1>9. /\ credit' = [credit EXCEPT ![u] = @ - pay]
      /\ used' = [k \in Code |-> IF k = c THEN used[k] + 1 ELSE used[k]]
      /\ reserved' = [i \in Physical |-> reserved[i] + Demand(rows, i)]
      /\ UNCHANGED dropped
  BY DEF Place, WorkersStep
<1> HIDE DEF n, c
<1> QED BY <1>1, <1>2, <1>3, <1>4, <1>6, <1>7, <1>8, <1>9 DEF S!Buy

LEMMA WorkerShops ==
  ASSUME ImplInv, NEW w \in Worker, Run(w)
  PROVE  [S!Next]_(S!vars)
<1> DEFINE t == task[w]
           u == t.user
<1>0. TypeOK /\ SplitHasCode
  BY DEF ImplInv
<1>1. t # Idle /\ t \in Task
  BY <1>0 DEF TypeOK, Run, FastPath, PreCheck, Refuse, CheckoutPlain, ClaimCart, Quote, Settle, At
<1>2. u \in User /\ t.rows \in SUBSET Row /\ t.pay \in Nat /\ cart[u] \in SUBSET Row
      /\ Hand(w) = t.rows
  BY <1>0, <1>1 DEF Task, TypeOK, Hand
<1>3. IF t.pc \in {"claimed", "quoted"} THEN t.rows # {} ELSE t.rows = {}
  BY <1>1 DEF ImplInv, HandsInv
<1>4. t.pc \in {"claimed", "quoted"} => Code # {}
  BY <1>0, <1>1 DEF SplitHasCode
<1>5. ASSUME NEW x \in Task \cup {Idle}, Go(w, x)
      PROVE  task'[w] = x /\ \A v \in Worker \ {w} : task'[v] = task[v]
  BY <1>0, <1>5 DEF TypeOK, Go
<1>6. ASSUME Go(w, Idle), UNCHANGED <<shop, books>>
      PROVE  [S!Next]_(S!vars)
  <2>1. task'[w] = Idle /\ \A v \in Worker \ {w} : task'[v] = task[v]
    BY <1>5, <1>6
  <2>2. Hand(w)' = {}
    BY <2>1 DEF Hand
  <2>3. WorkersStep(u, w, t.rows)
    <3>1. UNCHANGED <<cart, dropped>>
      BY <1>6 DEF shop
    <3>2. cart[u] \cap Hand(w) = {}
      BY <1>2, HandsApart DEF ImplInv
    <3> QED BY <1>1, <1>2, <2>1, <2>2, <3>1, <3>2 DEF WorkersStep
  <2>4. t.rows = {} \/ Code # {}
    BY <1>3, <1>4
  <2> QED BY <1>2, <1>6, <2>3, <2>4, WorkerLoses
<1>7. ASSUME NEW x \in Task, Go(w, x), x.user = u, x.rows = t.rows, UNCHANGED <<shop, books>>
      PROVE  [S!Next]_(S!vars)
  <2>1. task'[w] = x /\ \A v \in Worker \ {w} : task'[v] = task[v]
    BY <1>5, <1>7
  <2>2. x # Idle
    BY SentinelAssumption
  <2>3. Hand(w)' = t.rows
    BY <1>7, <2>1, <2>2 DEF Hand
  <2>4. WorkersStep(u, w, {})
    <3>1. UNCHANGED <<cart, dropped>>
      BY <1>7 DEF shop
    <3> QED BY <1>1, <1>2, <1>7, <2>1, <2>3, <3>1 DEF WorkersStep
  <2> QED BY <1>2, <1>7, <2>4, WorkerLoses
<1>8. CASE FastPath(w) \/ PreCheck(w) \/ Refuse(w)
  <2>1. \A p \in {"new", "ready"} :
          /\ [t EXCEPT !.pc = p] \in Task
          /\ [t EXCEPT !.pc = p].user = u /\ [t EXCEPT !.pc = p].rows = t.rows
    BY <1>1 DEF Task
  <2>2. UNCHANGED <<shop, books>>
    BY <1>8 DEF FastPath, PreCheck, Refuse
  <2>3. \/ Go(w, Idle) \/ Go(w, [t EXCEPT !.pc = "new"]) \/ Go(w, [t EXCEPT !.pc = "ready"])
    BY <1>8 DEF FastPath, PreCheck, Refuse, Return
  <2> HIDE DEF t, u
  <2> QED BY <1>6, <1>7, <2>1, <2>2, <2>3
<1>9. CASE CheckoutPlain(w)
  <2> DEFINE rows == cart[u]
             pay == Least(credit[u], CartTotal(rows))
  <2>1. t.pc = "ready" /\ t.rows = {} /\ t.code = NoCode /\ rows # {}
    BY <1>3, <1>9 DEF CheckoutPlain, At, Admitted, CartOK
  <2>2. UNCHANGED <<nextRow, dropped, onSale>>
    BY <1>9 DEF CheckoutPlain
  <2>3. CASE Return(w) /\ UNCHANGED <<cart, books>>
    BY <1>6, <2>2, <2>3 DEF Return, shop, books
  <2>4. CASE /\ InStock(rows) /\ cart' = [cart EXCEPT ![u] = Unclaimed(rows)]
             /\ Place(w, rows, 0, pay)
    <3>1. pay \in Nat /\ pay <= credit[u]
      BY <1>0, <1>2, LeastBounds, PricingAssumption DEF TypeOK
    <3>2. task'[w] = Idle /\ \A v \in Worker \ {w} : task'[v] = task[v]
      BY <1>5, <2>4 DEF Place, Return
    <3>3. cart'[u] = {} /\ \A v \in User \ {u} : cart'[v] = cart[v]
      BY <1>0, <1>2, <2>4 DEF TypeOK, Unclaimed
    <3>4. WorkersStep(u, w, rows)
      BY <1>1, <1>2, <2>1, <2>2, <3>2, <3>3 DEF WorkersStep, Hand
    <3> HIDE DEF pay
    <3>5. S!Buy(u)
      BY <1>1, <1>2, <2>1, <2>4, <3>1, <3>4, WorkerBuys
    <3> QED BY <1>2, <3>5 DEF S!Next
  <2> QED BY <1>9, <2>3, <2>4 DEF CheckoutPlain
<1>10. CASE ClaimCart(w)
  <2> DEFINE rows == cart[u]
  <2>1. t.pc = "ready" /\ t.rows = {} /\ t.code \in Code
    BY <1>1, <1>3, <1>10 DEF ClaimCart, At, Task
  <2>2. cart'[u] = {} /\ \A v \in User \ {u} : cart'[v] = cart[v]
    BY <1>0, <1>2, <1>10 DEF TypeOK, Unclaimed, ClaimCart
  <2>3. UNCHANGED dropped /\ UNCHANGED books
    BY <1>10 DEF ClaimCart
  <2>4. CASE Go(w, Idle)
    <3>1. task'[w] = Idle /\ \A v \in Worker \ {w} : task'[v] = task[v]
      BY <1>5, <2>4
    <3>2. WorkersStep(u, w, rows)
      BY <1>1, <1>2, <2>1, <2>2, <2>3, <3>1 DEF WorkersStep, Hand
    <3> QED BY <1>2, <2>1, <2>3, <3>2, WorkerLoses
  <2>5. CASE Go(w, [t EXCEPT !.pc = "claimed", !.rows = rows])
    <3> DEFINE x == [t EXCEPT !.pc = "claimed", !.rows = rows]
    <3>1. x \in Task /\ x.user = u /\ x.rows = rows
      BY <1>1, <1>2 DEF Task
    <3> HIDE DEF x
    <3>2. task'[w] = x /\ (\A v \in Worker \ {w} : task'[v] = task[v]) /\ x # Idle
      BY <1>5, <2>5, <3>1, SentinelAssumption DEF x
    <3>3. WorkersStep(u, w, {})
      BY <1>1, <1>2, <2>1, <2>2, <2>3, <3>1, <3>2 DEF WorkersStep, Hand
    <3> QED BY <1>2, <2>3, <3>3, WorkerLoses
  <2> QED BY <1>10, <2>4, <2>5 DEF ClaimCart, Return
<1>11. CASE Quote(w)
  <2>1. UNCHANGED <<shop, books>>
    BY <1>11 DEF Quote
  <2>2. CASE Return(w)
    BY <1>6, <2>1, <2>2 DEF Return
  <2>3. ASSUME NEW pay, Go(w, [t EXCEPT !.pc = "quoted", !.pay = pay]), TypeOK'
        PROVE  [S!Next]_(S!vars)
    <3> DEFINE x == [t EXCEPT !.pc = "quoted", !.pay = pay]
    <3>1. x.user = u /\ x.rows = t.rows
      BY <1>1 DEF Task
    <3> HIDE DEF x
    <3>2. task'[w] = x
      BY <1>0, <2>3 DEF TypeOK, Go, x
    <3>3. x \in Task \cup {Idle}
      BY <2>3, <3>2 DEF TypeOK
    <3>4. CASE x = Idle
      BY <1>6, <2>1, <2>3, <3>4 DEF x
    <3>5. CASE x \in Task
      BY <1>7, <2>1, <2>3, <3>1, <3>5 DEF x
    <3> QED BY <3>3, <3>4, <3>5
  <2>4. TypeOK'
    BY <1>0, RunTypes
  <2> QED BY <1>11, <2>2, <2>3, <2>4 DEF Quote
<1>12. CASE Settle(w)
  <2>1. t.pc = "quoted" /\ t.rows # {} /\ UNCHANGED shop
    BY <1>3, <1>12 DEF Settle, At
  <2>2. CASE Return(w) /\ UNCHANGED books
    BY <1>6, <2>1, <2>2 DEF Return
  <2>3. CASE /\ CanDebit(u, t.pay) /\ Usable(t.code) /\ InStock(t.rows)
             /\ Place(w, t.rows, Off(t), t.pay)
    <3>1. t.pay <= credit[u]
      BY <1>0, <1>2, <2>3 DEF CanDebit, TypeOK
    <3>2. task'[w] = Idle /\ \A v \in Worker \ {w} : task'[v] = task[v]
      BY <1>5, <2>3 DEF Place, Return
    <3>3. cart[u] \cap Hand(w) = {}
      BY <1>2, HandsApart DEF ImplInv
    <3>4. WorkersStep(u, w, t.rows)
      BY <1>1, <1>2, <2>1, <3>2, <3>3 DEF WorkersStep, Hand, shop
    <3>5. S!Buy(u)
      BY <1>1, <1>2, <2>1, <2>3, <3>1, <3>4, WorkerBuys
    <3> QED BY <1>2, <3>5 DEF S!Next
  <2> QED BY <1>12, <2>2, <2>3 DEF Settle
<1> QED BY <1>8, <1>9, <1>10, <1>11, <1>12 DEF Run

\* The claim of a cart puts its rows in the worker's hand, its return empties the hand.
LEMMA HandsStep ==
  ASSUME TypeOK, HandsInv, [Next]_vars
  PROVE  HandsInv'
<1>1. ASSUME NEW w \in Worker, NEW x, Go(w, x),
             x # Idle => IF x.pc \in {"claimed", "quoted"} THEN x.rows # {} ELSE x.rows = {}
      PROVE  HandsInv'
  BY <1>1 DEF Go, HandsInv, TypeOK
<1>2. ASSUME NEW w \in Worker, Go(w, Idle)
      PROVE  HandsInv'
  BY <1>1, <1>2
<1>3. CASE UNCHANGED task
  BY <1>3 DEF HandsInv
<1>4. ASSUME NEW w \in Worker, NEW u \in User, NEW c \in Code \cup {NoCode}, NEW s \in Ship,
             Call(w, u, c, s)
      PROVE  HandsInv'
  <2>1. PICK n : Go(w, [pc |-> "called", user |-> u, code |-> c, ship |-> s,
                        key |-> <<u, n>>, rows |-> {}, pay |-> 0])
    BY <1>4 DEF Call
  <2> DEFINE x == [pc |-> "called", user |-> u, code |-> c, ship |-> s,
                   key |-> <<u, n>>, rows |-> {}, pay |-> 0]
  <2>2. x.pc = "called" /\ x.rows = {}
    OBVIOUS
  <2> HIDE DEF x
  <2> QED BY <1>1, <2>1, <2>2 DEF x
<1>5. ASSUME NEW w \in Worker, Run(w)
      PROVE  HandsInv'
  <2> DEFINE t == task[w]
  <2>1. t # Idle /\ t \in Task
    BY <1>5 DEF TypeOK, Run, FastPath, PreCheck, Refuse, CheckoutPlain, ClaimCart, Quote, Settle, At
  <2>2. IF t.pc \in {"claimed", "quoted"} THEN t.rows # {} ELSE t.rows = {}
    BY <2>1 DEF HandsInv
  <2>3. ASSUME NEW x, Go(w, x), x.pc \in {"new", "ready"}, x.rows = {}
        PROVE  HandsInv'
    BY <1>1, <2>3
  <2>4. ASSUME NEW x, Go(w, x), x.pc \in {"claimed", "quoted"}, x.rows # {}
        PROVE  HandsInv'
    BY <1>1, <2>4
  <2>5. CASE FastPath(w) \/ PreCheck(w)
    <3>1. \A p \in {"new", "ready"} :
            [t EXCEPT !.pc = p].pc = p /\ [t EXCEPT !.pc = p].rows = t.rows
      BY <2>1 DEF Task
    <3>2. t.rows = {}
      BY <2>2, <2>5 DEF FastPath, PreCheck, At
    <3>3. \/ Go(w, Idle) \/ Go(w, [t EXCEPT !.pc = "new"]) \/ Go(w, [t EXCEPT !.pc = "ready"])
      BY <2>5 DEF FastPath, PreCheck, Return
    <3> HIDE DEF t
    <3> QED BY <1>2, <2>3, <3>1, <3>2, <3>3
  <2>6. CASE Refuse(w)
    BY <1>2, <2>6 DEF Refuse, Return
  <2>7. CASE CheckoutPlain(w)
    BY <1>2, <2>7 DEF CheckoutPlain, Place, Return
  <2>8. CASE ClaimCart(w)
    <3> DEFINE x == [t EXCEPT !.pc = "claimed", !.rows = cart[t.user]]
    <3>1. x.pc = "claimed" /\ x.rows = cart[t.user]
      BY <2>1 DEF Task
    <3>2. cart[t.user] # {}
      BY <2>8 DEF ClaimCart, Admitted, CartOK
    <3>3. Go(w, Idle) \/ Go(w, x)
      BY <2>8 DEF ClaimCart, Return
    <3> HIDE DEF x, t
    <3> QED BY <1>2, <2>4, <3>1, <3>2, <3>3
  <2>9. CASE Quote(w)
    <3> DEFINE pay == Least(credit[t.user], CartTotal(t.rows) - Off(t))
               x == [t EXCEPT !.pc = "quoted", !.pay = pay]
    <3>1. x.pc = "quoted" /\ x.rows = t.rows
      BY <2>1 DEF Task
    <3>2. t.rows # {}
      BY <2>2, <2>9 DEF Quote, At
    <3>3. Go(w, Idle) \/ Go(w, x)
      BY <2>9 DEF Quote, Return
    <3> HIDE DEF x, t, pay
    <3> QED BY <1>2, <2>4, <3>1, <3>2, <3>3
  <2>10. CASE Settle(w)
    BY <1>2, <2>10 DEF Settle, Place, Return
  <2> QED BY <1>5, <2>5, <2>6, <2>7, <2>8, <2>9, <2>10 DEF Run
<1>6. ASSUME NEW w \in Worker, Crash(w)
      PROVE  HandsInv'
  BY <1>2, <1>6 DEF Crash
<1>7. ASSUME NEW u \in User, Customer(u)
      PROVE  UNCHANGED task
  BY <1>7 DEF Customer, PutInCart, RemoveFromCart
<1>8. ASSUME NEW x \in Switchable, Switch(x)
      PROVE  UNCHANGED task
  BY <1>8 DEF Switch
<1>9. ASSUME NEW o \in OrderId, Approve(o) \/ Reject(o)
      PROVE  UNCHANGED task
  BY <1>9 DEF Approve, Reject
<1>10. CASE UNCHANGED vars
  BY <1>3, <1>10 DEF vars
<1> QED BY <1>3, <1>4, <1>5, <1>6, <1>7, <1>8, <1>9, <1>10 DEF Next

\* A call and a crash: neither touches the books.
LEMMA CallShops ==
  ASSUME ImplInv, NEW w \in Worker, NEW u \in User, NEW c \in Code \cup {NoCode},
         NEW s \in Ship, Call(w, u, c, s)
  PROVE  [S!Next]_(S!vars)
<1>1. PICK n : Go(w, [pc |-> "called", user |-> u, code |-> c, ship |-> s,
                      key |-> <<u, n>>, rows |-> {}, pay |-> 0])
  BY DEF Call
<1> DEFINE x == [pc |-> "called", user |-> u, code |-> c, ship |-> s,
                 key |-> <<u, n>>, rows |-> {}, pay |-> 0]
<1>2. x.user = u /\ x.rows = {}
  OBVIOUS
<1> HIDE DEF x
<1>3. task[w] = Idle /\ UNCHANGED <<cart, dropped>> /\ UNCHANGED books
  BY DEF Call, shop
<1>4. task'[w] = x /\ \A v \in Worker \ {w} : task'[v] = task[v]
  BY <1>1 DEF ImplInv, TypeOK, Go, x
<1>5. Hand(w) = {} /\ Hand(w)' = {}
  BY <1>2, <1>3, <1>4 DEF Hand
<1>6. WorkersStep(u, w, {})
  BY <1>2, <1>3, <1>4, <1>5 DEF WorkersStep
<1> QED BY <1>3, <1>6, WorkerLoses

LEMMA CrashShops ==
  ASSUME ImplInv, NEW w \in Worker, Crash(w)
  PROVE  [S!Next]_(S!vars)
<1> DEFINE t == task[w]
<1>1. TypeOK /\ RowsApart /\ t # Idle /\ t \in Task
  BY DEF Crash, ImplInv, TypeOK
<1>2. t.user \in User /\ Hand(w) = t.rows
  BY <1>1 DEF Task, Hand
<1>3. task'[w] = Idle /\ \A v \in Worker \ {w} : task'[v] = task[v]
  BY <1>1 DEF Crash, Go, TypeOK
<1>4. UNCHANGED <<cart, dropped>> /\ UNCHANGED books
  BY DEF Crash, shop
<1>5. Hand(w)' = {}
  BY <1>3 DEF Hand
<1>6. cart[t.user] \cap Hand(w) = {}
  BY <1>1, <1>2, HandsApart
<1>7. WorkersStep(t.user, w, t.rows)
  BY <1>2, <1>3, <1>4, <1>5, <1>6 DEF WorkersStep
<1>8. t.rows = {} \/ Code # {}
  BY <1>1 DEF ImplInv, HandsInv, SplitHasCode
<1> QED BY <1>2, <1>4, <1>7, <1>8, WorkerLoses

\* Books that add up have something to give back: no rejection ends below zero, where
\* the code's MAX(0, ...) would hide it.
LEMMA NothingHidden ==
  ASSUME TypeOK, BooksInv, NEW o \in Live
  PROVE  /\ order[o] \in Order
         /\ credit[order[o].user] + order[o].wallet >= 0
         /\ order[o].code \in Code => used[order[o].code] >= 1
         /\ \A i \in Physical : reserved[i] >= Demand(order[o].rows, i)
<1>1. /\ IsFiniteSet(Live) /\ order[o] \in Order /\ order[o].wallet \in Nat
      /\ \A p \in Live : \A i : Wanted(i)[p] \in Nat
      /\ \A i : Wanted(i)[o] = Demand(order[o].rows, i)
  BY LiveOrders, FS_Subset
<1>2. credit[order[o].user] \in Nat
  BY <1>1 DEF TypeOK, Order
<1>3. ASSUME NEW i \in Physical
      PROVE  reserved[i] >= Demand(order[o].rows, i)
  <2>1. Wanted(i)[o] <= SumFunctionOnSet(Wanted(i), Live)
    BY <1>1, SumPart
  <2>2. reserved[i] = SumFunctionOnSet(Wanted(i), Live) /\ reserved[i] \in Nat
    BY DEF BooksInv, TypeOK
  <2> HIDE DEF Wanted
  <2> QED BY <1>1, <2>1, <2>2
<1>4. ASSUME order[o].code \in Code
      PROVE  used[order[o].code] >= 1
  <2> DEFINE c == order[o].code
  <2>1. o \in Holding(c) /\ IsFiniteSet(Holding(c))
    BY <1>1, FS_Subset DEF Holding
  <2>2. Cardinality(Holding(c)) \in Nat /\ Cardinality(Holding(c)) # 0
    BY <2>1, FS_CardinalityType, FS_EmptySet
  <2>3. used[c] = Cardinality(Holding(c))
    BY <1>4 DEF BooksInv
  <2> QED BY <2>2, <2>3
<1> QED BY <1>1, <1>2, <1>3, <1>4

LEMMA DecisionShops ==
  ASSUME ImplInv, NEW o \in OrderId, Approve(o) \/ Reject(o)
  PROVE  S!Approve(o) \/ S!Reject(o)
<1> DEFINE r == order[o]
<1>1. TypeOK /\ BooksInv /\ o \in Live /\ r # NoOrder /\ r \in Order /\ r.status = "pending"
  BY DEF ImplInv, TypeOK, Approve, Reject, CanDecide, Live, Placed
<1>2. /\ Book[o] # NoOrder /\ Book[o].status = "pending"
      /\ Book[o].user = r.user /\ Book[o].wallet = r.wallet
      /\ Book[o].code = r.code /\ Book[o].rows = r.rows
  BY <1>1, BookOf
<1>3. Basket' = Basket /\ UNCHANGED dropped
  <2>1. UNCHANGED <<cart, dropped, task>>
    BY DEF Approve, Reject, shop
  <2> QED BY <2>1 DEF Basket
<1>4. ASSUME NEW s \in {"approved", "rejected"}, order' = [order EXCEPT ![o].status = s]
      PROVE  Book' = [Book EXCEPT ![o].status = s]
  <2> DEFINE q == [r EXCEPT !.status = s]
  <2>1. order'[o] = q /\ \A p \in OrderId : p # o => order'[p] = order[p]
    BY <1>1, <1>4 DEF TypeOK
  <2>2. q \in Order /\ q # NoOrder
    BY <1>1, SentinelAssumption DEF Order
  <2>3. /\ q.user = r.user /\ q.rows = r.rows /\ q.wallet = r.wallet
        /\ q.code = r.code /\ q.status = s
    BY <1>1 DEF Order
  <2> HIDE DEF q
  <2>4. Book'[o] = [user |-> r.user, rows |-> r.rows, wallet |-> r.wallet,
                    code |-> r.code, status |-> s]
    BY <2>1, <2>2, <2>3 DEF Book
  <2>5. Book[o] = [user |-> r.user, rows |-> r.rows, wallet |-> r.wallet,
                   code |-> r.code, status |-> r.status]
    BY <1>1 DEF Book
  <2>6. \A p \in OrderId : p # o => Book'[p] = Book[p]
    BY <2>1 DEF Book
  <2>7. Book = [p \in OrderId |-> Book[p]] /\ Book' = [p \in OrderId |-> Book'[p]]
    BY DEF Book
  <2> HIDE DEF r
  <2>8. Book'[o] = [Book[o] EXCEPT !.status = s]
    BY <2>4, <2>5
  <2> QED BY <2>6, <2>7, <2>8
<1>5. CASE Approve(o)
  <2>1. Book' = [Book EXCEPT ![o].status = "approved"] /\ UNCHANGED <<credit, used, reserved>>
    BY <1>4, <1>5 DEF Approve
  <2> QED BY <1>2, <1>3, <2>1 DEF S!Approve
<1>6. CASE Reject(o)
  <2>1. Book' = [Book EXCEPT ![o].status = "rejected"]
    BY <1>4, <1>6 DEF Reject
  <2>2. /\ r.user \in User /\ r.wallet \in Nat /\ r.code \in Code \cup {NoCode}
        /\ r.rows \in SUBSET Row
    BY <1>1 DEF Order
  <2>3. /\ credit[r.user] \in Nat
        /\ r.code \in Code => used[r.code] >= 1
        /\ \A c \in Code : used[c] \in Nat
        /\ \A i \in Physical : reserved[i] \in Nat /\ reserved[i] >= Demand(r.rows, i)
    BY <1>1, <2>2, NothingHidden DEF TypeOK
  <2>4. \A i : Demand(r.rows, i) \in Nat
    BY <2>2, DemandNat
  <2>5. /\ credit' = [credit EXCEPT ![r.user] = Floor0(@ + r.wallet)]
        /\ used' = [c \in Code |-> IF c = r.code THEN Floor0(used[c] - 1) ELSE used[c]]
        /\ reserved' = [i \in Physical |-> Floor0(reserved[i] - Demand(r.rows, i))]
    BY <1>6 DEF Reject
  <2>9. \A c \in Code : c = r.code => used[c] >= 1
    BY <2>3
  <2> HIDE DEF r
  <2>6. credit' = [credit EXCEPT ![r.user] = @ + r.wallet]
    <3>1. Floor0(credit[r.user] + r.wallet) = credit[r.user] + r.wallet
      BY <2>2, <2>3 DEF Floor0
    <3> QED BY <2>5, <3>1
  <2>7. used' = [c \in Code |-> IF c = r.code THEN used[c] - 1 ELSE used[c]]
    <3>1. \A c \in Code : c = r.code => used[c] \in Nat /\ used[c] >= 1
      BY <2>3, <2>9
    <3>2. \A c \in Code : c = r.code => Floor0(used[c] - 1) = used[c] - 1
      BY <3>1 DEF Floor0
    <3> QED BY <2>5, <3>2
  <2>8. reserved' = [i \in Physical |-> reserved[i] - Demand(r.rows, i)]
    <3>1. \A i \in Physical : Floor0(reserved[i] - Demand(r.rows, i))
                                = reserved[i] - Demand(r.rows, i)
      BY <2>3, <2>4 DEF Floor0
    <3> QED BY <2>5, <3>1
  <2> QED BY <1>2, <1>3, <2>1, <2>6, <2>7, <2>8 DEF S!Reject
<1> QED BY <1>5, <1>6

\* Whatever the checkout does is a step of the shop, or nothing a customer sees.
LEMMA ShopStep ==
  ASSUME ImplInv, [Next]_vars
  PROVE  [S!Next]_(S!vars)
<1>1. ASSUME UNCHANGED <<cart, dropped, task, books>>
      PROVE  [S!Next]_(S!vars)
  <2>1. Basket' = Basket
    BY <1>1 DEF Basket
  <2>2. Book' = Book
    BY <1>1, BookAlone DEF books
  <2> QED BY <1>1, <2>1, <2>2 DEF S!vars, books
<1>2. ASSUME NEW u \in User, Customer(u)
      PROVE  [S!Next]_(S!vars)
  <2>1. S!Fill(u) \/ S!Drop(u)
    BY <1>2, CustomerShops
  <2> QED BY <2>1 DEF S!Next
<1>3. ASSUME NEW x \in Switchable, Switch(x)
      PROVE  [S!Next]_(S!vars)
  BY <1>1, <1>3 DEF Switch
<1>4. ASSUME NEW w \in Worker, NEW u \in User, NEW c \in Code \cup {NoCode}, NEW s \in Ship,
             Call(w, u, c, s)
      PROVE  [S!Next]_(S!vars)
  BY <1>4, CallShops
<1>5. ASSUME NEW w \in Worker, Run(w) \/ Crash(w)
      PROVE  [S!Next]_(S!vars)
  BY <1>5, WorkerShops, CrashShops
<1>6. ASSUME NEW o \in OrderId, Approve(o) \/ Reject(o)
      PROVE  [S!Next]_(S!vars)
  <2>1. S!Approve(o) \/ S!Reject(o)
    BY <1>6, DecisionShops
  <2> QED BY <2>1 DEF S!Next
<1>7. CASE UNCHANGED vars
  BY <1>1, <1>7 DEF vars, books
<1> QED BY <1>2, <1>3, <1>4, <1>5, <1>6, <1>7 DEF Next

LEMMA ImplHolds == Spec => []ImplInv
<1>1. Init => HandsInv
  BY DEF Init, HandsInv
<1>2. TypeOK /\ HandsInv /\ [Next]_vars => HandsInv'
  BY HandsStep
<1>3. Spec => []HandsInv
  BY <1>1, <1>2, TypeCorrect, PTL DEF Spec
<1>4. TypeOK /\ SplitHasCode /\ RowsApart /\ Limits /\ BooksInv /\ HandsInv => ImplInv
  BY DEF ImplInv
<1> QED BY <1>3, <1>4, TypeAndSplit, ApartHolds, LimitsHold, BooksAgree, PTL

\* The checkout implements the shop, for any number of customers, workers, orders and
\* codes: whatever the processes interleave, an order appears in one step with the rows
\* it sold, the share of the wallet, the use of the code and the reservations; a row
\* vanishes unsold only where there are discount codes (the claim that is committed).
THEOREM CheckoutIsShop == Spec => ImplementsShop
<1>1. Init => S!Init
  <2> SUFFICES ASSUME Init PROVE S!Init
    OBVIOUS
  <2>1. Basket = [u \in User |-> {}]
    BY DEF Init, Basket
  <2>2. Book = [o \in OrderId |-> NoOrder]
    BY DEF Init, Book
  <2> QED BY <2>1, <2>2 DEF Init, S!Init
<1>2. ImplInv /\ [Next]_vars => [S!Next]_(S!vars)
  BY ShopStep
<1> QED BY <1>1, <1>2, ImplHolds, PTL DEF Spec, ImplementsShop, S!Spec
=============================================================================
