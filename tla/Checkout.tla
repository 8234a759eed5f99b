-------------------------------- MODULE Checkout --------------------------------
(*****************************************************************************)
(* The checkout of a shopping cart (services/checkout.py) and the financial  *)
(* decision on the order it creates (services/orders.py, database.py), as    *)
(* run at the same time by the processes that share one SQLite file: the     *)
(* Telegram bot, the Bale bot, the Mini App and the admin panel.             *)
(*                                                                           *)
(* A worker is a thread of one of those processes inside checkout_cart.      *)
(* Without a discount code everything from BEGIN IMMEDIATE to COMMIT is one  *)
(* step.  With a code, the call of get_discount_code inside the transaction  *)
(* commits what was written so far (Database._get_conn commits on exit), so  *)
(* the rest is a second transaction that opens at its first UPDATE: three    *)
(* steps, between which other processes run.                                 *)
(*                                                                           *)
(* The stock on hand is constant here: module Fulfillment changes it.        *)
(*****************************************************************************)
EXTENDS Integers, FiniteSetsExt

CONSTANTS
  User,            \* customers
  Worker,          \* threads that run checkouts
  Digital,         \* digital products: at most one per order, no stock
  Physical,        \* variants of physical products
  Code, NoCode,    \* discount codes; a checkout without one
  Stock,           \* inventory.on_hand of every physical variant
  MaxUses,         \* discount_codes.max_uses of every code, 0 = unlimited
  Purse,           \* users.referral_credit of every customer at the start
  ShipCost,        \* cost of the shipping method, the same for all
  CartTotal(_),    \* price of a set of cart rows
  DiscountOff(_, _), \* what a code takes off a total
  Ship,            \* whether calls bring a shipping method and an address
  Switchable,      \* items and codes the administrators switch on and off
  Idle, NoOrder,   \* a worker outside checkout_cart; an unused order id
  MaxRow, MaxOrder, MaxQty \* bounds: cart rows and orders ever made, quantity

Item == Digital \cup Physical
Row == [id : 1..MaxRow, item : Item, qty : 1..MaxQty]
OrderId == 1..MaxOrder
Key == User \X (0..MaxRow)

ASSUME CheckoutAssumption ==
  /\ Digital \cap Physical = {} /\ NoCode \notin Code
  /\ Stock \in [Physical -> Nat] /\ MaxUses \in [Code -> Nat]
  /\ Purse \in [User -> Nat] /\ ShipCost \in Nat
  /\ Ship \subseteq BOOLEAN /\ Switchable \subseteq Item \cup Code
  /\ MaxRow \in Nat /\ MaxOrder \in Nat /\ MaxQty \in Nat

ASSUME PricingAssumption ==
  \A rows \in SUBSET Row :
    /\ CartTotal(rows) \in Nat
    /\ \A c \in Code : DiscountOff(c, CartTotal(rows)) \in 0..CartTotal(rows)

VARIABLES
  cart,       \* cart_items of every customer, a set of rows
  nextRow,    \* next AUTOINCREMENT id of cart_items
  dropped,    \* history: ids of the rows their customer removed
  onSale,     \* items and codes that are active
  credit,     \* users.referral_credit
  used,       \* discount_codes.used_count
  reserved,   \* inventory.reserved
  order,      \* orders with their order_items
  nextOrder,  \* next AUTOINCREMENT id of orders
  idem,       \* checkout_idem: the order an idempotency key made, or 0
  task        \* what every worker is doing

shop == <<cart, nextRow, dropped, onSale>>
books == <<credit, used, reserved, order, nextOrder, idem>>
vars == <<cart, nextRow, dropped, onSale, credit, used, reserved, order,
          nextOrder, idem, task>>

Task == [pc : {"called", "new", "ready", "claimed", "quoted"}, user : User,
         code : Code \cup {NoCode}, ship : BOOLEAN, key : Key,
         rows : SUBSET Row, pay : Nat]

Order == [user : User, rows : SUBSET Row, wallet : Nat, code : Code \cup {NoCode},
          key : Key, status : {"pending", "approved", "rejected"}]

ASSUME SentinelAssumption == Idle \notin Task /\ NoOrder \notin Order

TypeOK ==
  /\ cart \in [User -> SUBSET Row] /\ nextRow \in 1..(MaxRow + 1)
  /\ dropped \subseteq 1..MaxRow /\ onSale \subseteq Item \cup Code
  /\ credit \in [User -> Nat] /\ used \in [Code -> Nat]
  /\ reserved \in [Physical -> Nat]
  /\ order \in [OrderId -> Order \cup {NoOrder}] /\ nextOrder \in 1..(MaxOrder + 1)
  /\ idem \in [Key -> 0..MaxOrder]
  /\ task \in [Worker -> Task \cup {Idle}]

Init ==
  /\ cart = [u \in User |-> {}] /\ nextRow = 1 /\ dropped = {}
  /\ onSale = Item \cup Code
  /\ credit = Purse /\ used = [c \in Code |-> 0]
  /\ reserved = [i \in Physical |-> 0]
  /\ order = [o \in OrderId |-> NoOrder] /\ nextOrder = 1
  /\ idem = [k \in Key |-> 0]
  /\ task = [w \in Worker |-> Idle]

-----------------------------------------------------------------------------
(* Reading the tables.                                                       *)

RowIds(rows) == {r.id : r \in rows}
Placed == {o \in OrderId : order[o] # NoOrder}
Live == {o \in Placed : order[o].status # "rejected"}

\* How many of item i a set of rows asks for: one row per item at most.
Demand(rows, i) ==
  IF \E r \in rows : r.item = i THEN (CHOOSE r \in rows : r.item = i).qty ELSE 0

NeedsShipping(rows) == \E r \in rows : r.item \in Physical
Unshipped(rows, ship) == NeedsShipping(rows) /\ ~ship

\* Mutation: the limit compared with <=.
UsableOnceMore(c) == c \in onSale /\ (MaxUses[c] = 0 \/ used[c] <= MaxUses[c])

\* _validate_discount, and the guard of the UPDATE that counts a use. Codes have no
\* expiry date here: only the first of the two looks at it.
Usable(c) == c \in onSale /\ (MaxUses[c] = 0 \/ used[c] < MaxUses[c])

\* Mutation: UPDATE inventory without the condition on what is available.
InStockUnguarded(rows) == TRUE

\* The guard of _reserve_item, for every physical row of the order.
InStock(rows) ==
  \A r \in rows : r.item \in Physical => reserved[r.item] + r.qty <= Stock[r.item]

\* A digital product of the cart is in an order of the customer that is paid.
AlreadyOwned(u) ==
  \E o \in Placed :
    /\ order[o].user = u /\ order[o].status = "approved"
    /\ \E r \in cart[u], q \in order[o].rows : r.item \in Digital /\ q.item = r.item

Least(a, b) == IF a <= b THEN a ELSE b
Floor0(n) == IF n < 0 THEN 0 ELSE n

-----------------------------------------------------------------------------
(* The customer's cart (services/cart.py).                                   *)

\* set_cart_item and change_cart_quantity: set the quantity of the item's row,
\* whether the item is still on sale or not, or insert a row with a fresh id.
PutInCart(u, i, q) ==
  /\ i \in Digital => q = 1
  /\ \/ \E r \in cart[u] :
          /\ r.item = i
          /\ cart' = [cart EXCEPT ![u] = (@ \ {r}) \cup {[r EXCEPT !.qty = q]}]
          /\ UNCHANGED nextRow
     \/ /\ i \in onSale /\ nextRow <= MaxRow /\ \A r \in cart[u] : r.item # i
        /\ cart' = [cart EXCEPT ![u] = @ \cup {[id |-> nextRow, item |-> i, qty |-> q]}]
        /\ nextRow' = nextRow + 1
  /\ UNCHANGED <<dropped, onSale, books, task>>

\* remove_cart_item; clear_cart is the same for every row.
RemoveFromCart(u, rows) ==
  /\ rows # {}
  /\ cart' = [cart EXCEPT ![u] = @ \ rows]
  /\ dropped' = dropped \cup RowIds(rows)
  /\ UNCHANGED <<nextRow, onSale, books, task>>

\* An administrator activates or deactivates a product or a discount code.
Switch(x) ==
  /\ onSale' = IF x \in onSale THEN onSale \ {x} ELSE onSale \cup {x}
  /\ UNCHANGED <<cart, nextRow, dropped, books, task>>

-----------------------------------------------------------------------------
(* checkout_cart, up to the transaction.                                     *)

At(w, p) == task[w] # Idle /\ task[w].pc = p

Go(w, t) == task' = [task EXCEPT ![w] = t]

\* checkout_cart returns an order or raises; the comment beside says which.
Return(w) == Go(w, Idle)

\* The call: _default_idem_key reads the newest row of the cart.
Call(w, u, c, s) ==
  /\ task[w] = Idle
  /\ \E n \in 0..MaxRow :
       /\ cart[u] = {} => n = 0
       /\ cart[u] # {} => n \in RowIds(cart[u]) /\ \A m \in RowIds(cart[u]) : m <= n
       /\ Go(w, [pc |-> "called", user |-> u, code |-> c, ship |-> s,
                 key |-> <<u, n>>, rows |-> {}, pay |-> 0])
  /\ UNCHANGED <<shop, books>>

\* find_existing_commit: a key that made an order is answered with it.
FastPath(w) ==
  /\ At(w, "called")
  /\ \/ idem[task[w].key] # 0 /\ Return(w)
     \/ /\ idem[task[w].key] = 0
        /\ Go(w, [task[w] EXCEPT !.pc = "new"])
  /\ UNCHANGED <<shop, books>>

\* The checks before the transaction. Settings come from a per-process cache, so
\* cart_enabled may have either value whatever the table holds.
PreCheck(w) ==
  /\ At(w, "new")
  /\ \/ Return(w)                                            \* checkout_disabled
     \/ task[w].code # NoCode /\ ~Usable(task[w].code) /\ Return(w) \* discount_invalid
     \/ /\ task[w].code # NoCode => Usable(task[w].code)
        /\ Go(w, [task[w] EXCEPT !.pc = "ready"])
  /\ UNCHANGED <<shop, books>>

-----------------------------------------------------------------------------
(* checkout_cart, the transaction.                                           *)

\* None of cart_empty, already_purchased, product_unavailable.
CartOK(u) ==
  /\ cart[u] # {}
  /\ ~AlreadyOwned(u)
  /\ \A r \in cart[u] : r.item \in onSale

\* Mutation: the second lookup of the key is left out.
KeyAlwaysUnused(k) == TRUE

\* The key is looked up again under the write lock, then the cart is checked.
KeyUnused(k) == idem[k] = 0
Admitted(w) == KeyUnused(task[w].key) /\ CartOK(task[w].user)

\* A replay or a bad cart ends the transaction with nothing written.
Refuse(w) ==
  /\ At(w, "ready")
  /\ ~Admitted(w)
  /\ Return(w)
  /\ UNCHANGED <<shop, books>>

\* Mutation: the cart is read but not claimed.
UnclaimedKept(rows) == rows

\* _claim_cart: what is left of a cart that is being bought.
Unclaimed(rows) == {}

\* What is still to be paid once the wallet has given its share.
Due(rows, off, pay) ==
  (CartTotal(rows) - off - pay) + (IF NeedsShipping(rows) THEN ShipCost ELSE 0)

\* The order, its payments, its reservations and its key. An order with nothing
\* left to pay is approved if the cached setting checkout_auto_approve_wallet,
\* which may have either value, says so.
Place(w, rows, off, pay) ==
  LET t == task[w]
      o == nextOrder
  IN /\ nextOrder <= MaxOrder
     /\ \E auto \in BOOLEAN :
          order' = [order EXCEPT ![o] =
            [user |-> t.user, rows |-> rows, wallet |-> pay, code |-> t.code, key |-> t.key,
             status |-> IF auto /\ Due(rows, off, pay) <= 0 THEN "approved" ELSE "pending"]]
     /\ nextOrder' = nextOrder + 1
     /\ credit' = [credit EXCEPT ![t.user] = @ - pay]
     /\ used' = [c \in Code |-> IF c = t.code THEN used[c] + 1 ELSE used[c]]
     /\ reserved' = [i \in Physical |-> reserved[i] + Demand(rows, i)]
     /\ idem' = [idem EXCEPT ![t.key] = IF @ = 0 THEN o ELSE @]
     /\ Return(w)

\* Mutation: a refused checkout commits the claim of the cart.
CheckoutPlainCommits(w) ==
  LET t == task[w]
      rows == cart[t.user]
  IN /\ At(w, "ready") /\ t.code = NoCode /\ Admitted(w)
     /\ cart' = [cart EXCEPT ![t.user] = {}]
     /\ \/ (Unshipped(rows, t.ship) \/ ~InStock(rows)) /\ Return(w) /\ UNCHANGED books
        \/ /\ ~Unshipped(rows, t.ship) /\ InStock(rows)
           /\ Place(w, rows, 0, Least(credit[t.user], CartTotal(rows)))
     /\ UNCHANGED <<nextRow, dropped, onSale>>

\* No code: one transaction, rolled back as a whole when a later check fails.
CheckoutPlain(w) ==
  LET t == task[w]
      rows == cart[t.user]
  IN /\ At(w, "ready") /\ t.code = NoCode /\ Admitted(w)
     /\ \/ /\ Unshipped(rows, t.ship) \/ ~InStock(rows)  \* shipping_required, stock_unavailable
           /\ Return(w)
           /\ UNCHANGED <<cart, books>>
        \/ /\ ~Unshipped(rows, t.ship) /\ InStock(rows)
           /\ cart' = [cart EXCEPT ![t.user] = Unclaimed(rows)]
           /\ Place(w, rows, 0, Least(credit[t.user], CartTotal(rows)))
     /\ UNCHANGED <<nextRow, dropped, onSale>>

\* With a code: the cart is claimed, and validating the code commits the claim.
ClaimCart(w) ==
  LET t == task[w]
      rows == cart[t.user]
  IN /\ At(w, "ready") /\ t.code # NoCode /\ Admitted(w)
     /\ cart' = [cart EXCEPT ![t.user] = Unclaimed(rows)]
     /\ \/ ~Usable(t.code) /\ Return(w)                       \* discount_invalid
        \/ Usable(t.code) /\ Go(w, [t EXCEPT !.pc = "claimed", !.rows = rows])
     /\ UNCHANGED <<nextRow, dropped, onSale, books>>

Off(t) == DiscountOff(t.code, CartTotal(t.rows))

\* Shipping, address and wallet credit, read outside any transaction.
Quote(w) ==
  LET t == task[w]
  IN /\ At(w, "claimed")
     /\ \/ Unshipped(t.rows, t.ship) /\ Return(w)             \* shipping_required
        \/ /\ ~Unshipped(t.rows, t.ship)
           /\ Go(w, [t EXCEPT !.pc = "quoted",
                              !.pay = Least(credit[t.user], CartTotal(t.rows) - Off(t))])
     /\ UNCHANGED <<shop, books>>

\* Mutation: the UPDATE without referral_credit >= ?.
CanDebitUnguarded(u, pay) == TRUE

\* The guard of the UPDATE that takes the wallet's share.
CanDebit(u, pay) == pay = 0 \/ credit[u] >= pay

\* Mutation: an UPDATE that matches no row is tried again, not refused.
SettleRetries(w) ==
  LET t == task[w]
  IN /\ At(w, "quoted")
     /\ CanDebit(t.user, t.pay) /\ Usable(t.code) /\ InStock(t.rows)
     /\ Place(w, t.rows, Off(t), t.pay)
     /\ UNCHANGED shop

\* The second transaction: guarded UPDATEs, the order, the reservations.
Settle(w) ==
  LET t == task[w]
  IN /\ At(w, "quoted")
     /\ \/ /\ \/ ~CanDebit(t.user, t.pay)                      \* wallet_insufficient
              \/ ~Usable(t.code)                              \* discount_exhausted
              \/ ~InStock(t.rows)                             \* stock_unavailable
           /\ Return(w) /\ UNCHANGED books
        \/ /\ CanDebit(t.user, t.pay) /\ Usable(t.code) /\ InStock(t.rows)
           /\ Place(w, t.rows, Off(t), t.pay)
     /\ UNCHANGED shop

\* The process dies or SQLite gives up on the lock: an open transaction is
\* rolled back, what was committed stays.
Crash(w) ==
  /\ task[w] # Idle
  /\ Go(w, Idle)
  /\ UNCHANGED <<shop, books>>

-----------------------------------------------------------------------------
(* decide_order: the guarded UPDATE and what follows it in its transaction.  *)

\* Mutation: UPDATE orders without status = 'pending'.
CanDecideAgain(o) == o \in Placed

CanDecide(o) == o \in Placed /\ order[o].status = "pending"

Approve(o) ==
  /\ CanDecide(o)
  /\ order' = [order EXCEPT ![o].status = "approved"]
  /\ UNCHANGED <<shop, credit, used, reserved, nextOrder, idem, task>>

Reject(o) ==
  /\ CanDecide(o)
  /\ order' = [order EXCEPT ![o].status = "rejected"]
  /\ credit' = [credit EXCEPT ![order[o].user] = Floor0(@ + order[o].wallet)]
  /\ used' = [c \in Code |-> IF c = order[o].code THEN Floor0(used[c] - 1) ELSE used[c]]
  /\ reserved' = [i \in Physical |-> Floor0(reserved[i] - Demand(order[o].rows, i))]
  /\ UNCHANGED <<shop, nextOrder, idem, task>>

-----------------------------------------------------------------------------
Customer(u) ==
  \/ \E i \in Item, q \in 1..MaxQty : PutInCart(u, i, q)
  \/ \E rows \in SUBSET cart[u] : RemoveFromCart(u, rows)

Run(w) ==
  FastPath(w) \/ PreCheck(w) \/ Refuse(w) \/ CheckoutPlain(w) \/ ClaimCart(w)
    \/ Quote(w) \/ Settle(w)

Next ==
  \/ \E u \in User : Customer(u)
  \/ \E x \in Switchable : Switch(x)
  \/ \E w \in Worker, u \in User, c \in Code \cup {NoCode}, s \in Ship :
       Call(w, u, c, s)
  \/ \E w \in Worker : Run(w) \/ Crash(w)
  \/ \E o \in OrderId : Approve(o) \/ Reject(o)

Spec == Init /\ [][Next]_vars

\* A worker inside checkout_cart goes on unless it crashes.
FairSpec == Spec /\ \A w \in Worker : WF_vars(Run(w))

-----------------------------------------------------------------------------
(* What the checkout promises.                                               *)

Orders(u) == {o \in Placed : order[o].user = u}

\* A row of a cart is bought at most once, whatever workers check the cart out
\* at the same time, with or without a code, and however often they crash: two
\* orders share no row, and no bought row is still in a cart.
RowSoldOnce ==
  \A o \in Placed :
    /\ \A p \in Placed \ {o} : RowIds(order[o].rows) \cap RowIds(order[p].rows) = {}
    /\ \A u \in User : RowIds(order[o].rows) \cap RowIds(cart[u]) = {}

\* What the orders that were not rejected took from wallets, and ask for of an item.
WalletShare == [o \in Live |-> order[o].wallet]
Wanted(i) == [o \in Live |-> Demand(order[o].rows, i)]

\* Wallet money is neither lost nor made: a customer's credit and the wallet
\* shares of the orders that were not rejected add up to the purse they began
\* with, so no order is debited or refunded twice.
WalletConserved ==
  \A u \in User :
    credit[u] + SumFunctionOnSet(WalletShare, Orders(u) \cap Live) = Purse[u]

\* A code with a limit is never used more often than max_uses, although the limit
\* is checked twice before the use is counted, in other transactions.
CodeWithinLimit == \A c \in Code : MaxUses[c] # 0 => used[c] <= MaxUses[c]

\* used_count is the number of orders that hold the code, within max_uses: no use
\* is counted twice or forgotten when an order is rejected or a checkout fails.
CodeUseExact ==
  /\ \A c \in Code : used[c] = Cardinality({o \in Live : order[o].code = c})
  /\ CodeWithinLimit

\* The shop never promises more of a variant than it has.
NeverOversold == \A i \in Physical : reserved[i] <= Stock[i]

\* The reservation of a variant is what the orders that were not rejected ask
\* for, and never more than the stock.
StockExact ==
  /\ \A i \in Physical : reserved[i] = SumFunctionOnSet(Wanted(i), Live)
  /\ NeverOversold

\* An idempotency key makes one order (holds when no code splits the checkout).
OneOrderPerKey ==
  \A o, p \in Placed : order[o].key = order[p].key => o = p

\* A row leaves a cart only into an order, by its customer's hand, or for as
\* long as a worker is buying it: a refused or broken checkout leaves the cart
\* as it was (docstring of checkout_cart: one transaction).
Held == UNION {RowIds(task[w].rows) : w \in {v \in Worker : task[v] # Idle}}
NoCartLost ==
  \A n \in 1..(nextRow - 1) :
    \/ \E u \in User : n \in RowIds(cart[u])
    \/ \E o \in Placed : n \in RowIds(order[o].rows)
    \/ n \in dropped \cup Held

\* Every call is answered, whoever else checks out, unless the instance has no
\* order id left for it.
EveryCallAnswered ==
  \A w \in Worker : (task[w] # Idle) ~> (task[w] = Idle \/ nextOrder > MaxOrder)
=============================================================================
