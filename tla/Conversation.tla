------------------------------- MODULE Conversation -------------------------------
(*****************************************************************************)
(* What a customer of the Telegram bot is in the middle of: the state and    *)
(* the data of aiogram's FSM, kept in an SQLite file of their own            *)
(* (fsm_storage.py), beside the orders and top-ups they are about.           *)
(*                                                                           *)
(* Every update is a task of the event loop. A task gives way at each call   *)
(* of the database or of Telegram, never at an FSM operation, so the FSM may *)
(* change between two of its steps by another update of the same customer,   *)
(* and an order by another process. Old buttons stay in the chat: a button   *)
(* may be pressed in any state. The Mini App takes orders and receipts of    *)
(* the same customer and knows nothing of the FSM.                           *)
(*                                                                           *)
(* Menus, prices, addresses, the contents of messages and the decision on a  *)
(* top-up are left out.                                                      *)
(*****************************************************************************)
EXTENDS Integers, FiniteSetsExt

CONSTANTS
  User,        \* customers
  MaxOrders, MaxTopUps,  \* bounds on what a behaviour may create
  MaxTasks,    \* bounds the updates and requests that are handled at the same time
  NoState, NoOrder, Nobody, Idle

Order == 1..MaxOrders
TopUp == 1..MaxTopUps
Slot == 1..MaxTasks

\* BuyFlow and WalletTopup; the conversations that wait for a text and leave orders
\* and top-ups alone are one: DiscountEntry, CartFlow, LoyaltyRedeem and ContactFlow.
State == {"order_receipt", "amount", "topup_receipt", "text"}

ASSUME ConversationAssumption ==
  /\ MaxOrders \in Nat /\ MaxTopUps \in Nat /\ MaxTasks \in Nat
  /\ NoOrder \notin Nat /\ Nobody \notin User /\ NoState \notin State

\* A task between two of its awaits. "mine" marks the handler of a state, which ends
\* with a clear; receipt_fallback_catch does not.
Task == [pc : {"text", "find", "topup", "clear"}, user : User]
        \cup [pc : {"prompt", "look", "reject", "receipt"},
              user : User, order : Order]
        \cup [pc : {"store"}, user : User, order : Order, mine : BOOLEAN]
        \cup [pc : {"file"}, user : User, topup : TopUp, mine : BOOLEAN]
        \cup [pc : {"upload"}, order : Order]

VARIABLES
  state,       \* fsm_storage, of every customer
  about,       \* order_id in the data of the FSM
  by,          \* orders.user_id, Nobody before the order
  status,      \* orders.status
  receipt,     \* orders with a receipt_file_id
  topup,       \* wallet_topups: none, open (without a receipt) or filed
  payer,       \* wallet_topups.user_id
  task,        \* the updates and requests being handled
  up           \* the bot runs

fsm == <<state, about>>
orders == <<by, status, receipt>>
topups == <<topup, payer>>
vars == <<fsm, orders, topups, task, up>>

TypeOK ==
  /\ state \in [User -> State \cup {NoState}] /\ about \in [User -> Order \cup {NoOrder}]
  /\ by \in [Order -> User \cup {Nobody}]
  /\ status \in [Order -> {"none", "pending", "approved", "rejected"}]
  /\ receipt \subseteq Order
  /\ topup \in [TopUp -> {"none", "open", "filed"}]
  /\ payer \in [TopUp -> User \cup {Nobody}]
  /\ task \in [Slot -> Task \cup {Idle}] /\ up \in BOOLEAN

Init ==
  /\ state = [u \in User |-> NoState] /\ about = [u \in User |-> NoOrder]
  /\ by = [o \in Order |-> Nobody] /\ status = [o \in Order |-> "none"]
  /\ receipt = {}
  /\ topup = [t \in TopUp |-> "none"] /\ payer = [t \in TopUp |-> Nobody]
  /\ task = [s \in Slot |-> Idle] /\ up = TRUE

Go(s, t) == task' = [task EXCEPT ![s] = t]
At(s, p) == task[s] # Idle /\ task[s].pc = p
Me(s) == task[s].user

\* Mutation: a cleared conversation keeps an order of the customer.
ClearKeeps(u) ==
  /\ state' = [state EXCEPT ![u] = NoState]
  /\ about' = [about EXCEPT ![u] = NoState]

\* state.clear() and state.set_state().
Clear(u) ==
  /\ state' = [state EXCEPT ![u] = NoState]
  /\ about' = [about EXCEPT ![u] = NoOrder]
SetState(u, x) == state' = [state EXCEPT ![u] = x]

-----------------------------------------------------------------------------
(* Buttons and messages whose handlers touch the FSM at once.                 *)

Leave(u) == Clear(u) /\ UNCHANGED <<orders, topups, task, up>>
Start(u) == Leave(u)
ShowCategories(u) == Leave(u)
BackToMenu(u) == Leave(u)
LoyaltyHistory(u) == Leave(u)
LoyaltyMenu(u) == Leave(u)
LoyaltyRules(u) == Leave(u)
\* loy_redeem_ok, when the points are redeemed.
RedeemConfirmed(u) == Leave(u)

\* process_topup_amount with an amount that is accepted; it is kept with the state.
TypeAmount(u) ==
  /\ state[u] = "amount"
  /\ SetState(u, "topup_receipt")
  /\ UNCHANGED <<about, orders, topups, task, up>>

Ask(u, x) == SetState(u, x) /\ UNCHANGED <<about, orders, topups, task, up>>
EnterCode(u) == Ask(u, "text")
NewAddress(u) == Ask(u, "text")
StartTopUp(u) == Ask(u, "amount")
RedeemPoints(u) == Ask(u, "text")
ContactStart(u) == Ask(u, "text")

-----------------------------------------------------------------------------
(* Updates whose handlers give way: their first segment.                      *)

\* A task takes the first slot that is free: their order means nothing.
Free(s) == task[s] = Idle /\ \A r \in Slot : r < s => task[r] # Idle
Begin(s, t) == Free(s) /\ Go(s, t) /\ UNCHANGED <<fsm, orders, topups, up>>

\* A text of a conversation.
Type(s, u) == state[u] = "text" /\ Begin(s, [pc |-> "text", user |-> u])

\* A photo goes to the handler of its state; outside a conversation the fallback takes
\* it, and in any other state it is dropped.
Photo(s, u) ==
  \/ state[u] = "order_receipt"
     /\ Begin(s, [pc |-> "receipt", user |-> u, order |-> about[u]])
  \/ state[u] = "topup_receipt" /\ Begin(s, [pc |-> "topup", user |-> u])
  \/ state[u] = NoState /\ Begin(s, [pc |-> "find", user |-> u])

\* cancel_flow: the button under every prompt of a conversation.
Cancel(s, u) ==
  IF about[u] # NoOrder
  THEN Begin(s, [pc |-> "look", user |-> u, order |-> about[u]])
  ELSE Clear(u) /\ UNCHANGED <<orders, topups, task, up>>

-----------------------------------------------------------------------------
(* The checkout of the cart.                                                  *)

Unused == {o \in Order : status[o] = "none"}

\* checkout_cart commits an order, which waits for payment or which the wallet has paid.
Place(u, x) ==
  /\ Unused # {}
  /\ by' = [by EXCEPT ![Min(Unused)] = u]
  /\ status' = [status EXCEPT ![Min(Unused)] = x]

\* _run_checkout. The conversation of a paid order is cleared once its files are delivered.
Checkout(s, u) ==
  /\ Free(s)
  /\ \/ Place(u, "pending") /\ Go(s, [pc |-> "prompt", user |-> u, order |-> Min(Unused)])
     \/ Place(u, "approved") /\ Go(s, [pc |-> "clear", user |-> u])
  /\ UNCHANGED <<fsm, receipt, topups, up>>

\* A digital product alone goes to the checkout at once; the choice of a shipping method
\* or an address tries again.
BuyStart(s, u) == Checkout(s, u)
CheckoutButton(s, u) == Checkout(s, u)
PickShipping(s, u) == Checkout(s, u)
PickAddress(s, u) == Checkout(s, u)

\* Mutation: the state is set before the order is in the data.
PromptTooEarly(s) ==
  /\ At(s, "prompt")
  /\ SetState(Me(s), "order_receipt")
  /\ Go(s, Idle)
  /\ UNCHANGED <<about, orders, topups, up>>

\* _run_checkout goes on: the order waits for its receipt.
Prompt(s) ==
  /\ At(s, "prompt")
  /\ about' = [about EXCEPT ![Me(s)] = task[s].order]
  /\ SetState(Me(s), "order_receipt")
  /\ Go(s, Idle)
  /\ UNCHANGED <<orders, topups, up>>

\* state.clear() as the last step of a handler.
LateClear(s) ==
  /\ At(s, "clear")
  /\ Clear(Me(s))
  /\ Go(s, Idle)
  /\ UNCHANGED <<orders, topups, up>>

-----------------------------------------------------------------------------
(* Texts.                                                                     *)

\* A text that is refused changes nothing.
Refused == UNCHANGED fsm
\* The conversation ends but not its data, which the next checkout reads.
KeepData(u) == SetState(u, NoState) /\ UNCHANGED about

\* A code; its product may be gone.
CodeTyped(u) == Refused \/ KeepData(u) \/ Clear(u)
AddressTyped(u) == Refused \/ KeepData(u)
\* The club may be closed; else the points are confirmed by a button.
PointsTyped(u) == Refused \/ Clear(u)
\* A message to the support; its handler may fail on the way.
MessageTyped(u) == Refused \/ Clear(u)

Typed(s) ==
  /\ At(s, "text")
  /\ CodeTyped(Me(s)) \/ AddressTyped(Me(s)) \/ PointsTyped(Me(s)) \/ MessageTyped(Me(s))
  /\ Go(s, Idle)
  /\ UNCHANGED <<orders, topups, up>>

-----------------------------------------------------------------------------
(* Receipts.                                                                  *)

Pending(o) == status[o] = "pending"

\* Mutation: the handler goes on only if the conversation still waits for the receipt.
LookForReceiptAgain(s) ==
  LET o == task[s].order
  IN /\ At(s, "receipt")
     /\ IF Pending(o) /\ state[Me(s)] = "order_receipt"
        THEN /\ Go(s, [pc |-> "store", user |-> Me(s), order |-> o, mine |-> TRUE])
             /\ UNCHANGED fsm
        ELSE Clear(Me(s)) /\ Go(s, Idle)
     /\ UNCHANGED <<orders, topups, up>>

\* receive_receipt looks at the order.
LookForReceipt(s) ==
  LET o == task[s].order
  IN /\ At(s, "receipt")
     /\ IF Pending(o)
        THEN /\ Go(s, [pc |-> "store", user |-> Me(s), order |-> o, mine |-> TRUE])
             /\ UNCHANGED fsm
        ELSE Clear(Me(s)) /\ Go(s, Idle)
     /\ UNCHANGED <<orders, topups, up>>

\* get_latest_pending_order_awaiting_receipt
Awaiting(u) == {o \in Order : by[o] = u /\ Pending(o) /\ o \notin receipt}

OpenTopUps(u) == {t \in TopUp : payer[t] = u /\ topup[t] = "open"}

\* receipt_fallback_catch: the latest pending order, or else the latest open top-up.
Find(s) ==
  LET u == Me(s)
  IN /\ At(s, "find")
     /\ Go(s, IF Awaiting(u) # {}
              THEN [pc |-> "store", user |-> u, order |-> Max(Awaiting(u)), mine |-> FALSE]
              ELSE IF OpenTopUps(u) # {}
              THEN [pc |-> "file", user |-> u, topup |-> Max(OpenTopUps(u)), mine |-> FALSE]
              ELSE Idle)
     /\ UNCHANGED <<fsm, orders, topups, up>>

\* The handler of a state clears it when it is through. A product or a customer that
\* is gone is an error of _notify_admins_of_order, which ends the handler before.
Finish(s) ==
  Go(s, IF task[s].mine THEN [pc |-> "clear", user |-> Me(s)] ELSE Idle) \/ Go(s, Idle)

\* set_order_receipt, then the notification of the administrators.
Store(s) ==
  /\ At(s, "store")
  /\ receipt' = receipt \cup {task[s].order}
  /\ Finish(s)
  /\ UNCHANGED <<fsm, by, status, topups, up>>

Unasked == {t \in TopUp : topup[t] = "none"}
\* create_topup
Open(u) ==
  /\ Unasked # {}
  /\ topup' = [topup EXCEPT ![Min(Unasked)] = "open"]
  /\ payer' = [payer EXCEPT ![Min(Unasked)] = u]

\* receive_topup_receipt: create_topup, then set_topup_receipt, then the notification.
CreateTopUp(s) ==
  /\ At(s, "topup") /\ Open(Me(s))
  /\ Go(s, [pc |-> "file", user |-> Me(s), topup |-> Min(Unasked), mine |-> TRUE])
  /\ UNCHANGED <<fsm, orders, up>>

File(s) ==
  /\ At(s, "file")
  /\ topup' = [topup EXCEPT ![task[s].topup] = "filed"]
  /\ Finish(s)
  /\ UNCHANGED <<fsm, orders, payer, up>>

-----------------------------------------------------------------------------
(* Cancelling.                                                                *)

\* cb_cancel_flow looks at the order.
LookForCancel(s) ==
  LET o == task[s].order
  IN /\ At(s, "look")
     /\ IF Pending(o)
        THEN Go(s, [task[s] EXCEPT !.pc = "reject"]) /\ UNCHANGED fsm
        ELSE Clear(Me(s)) /\ Go(s, Idle)
     /\ UNCHANGED <<orders, topups, up>>

\* Mutation: UPDATE orders without AND status = 'pending'.
AnyStatus(o) == TRUE

Undecided(o) == status[o] = "pending"

\* reject_order; the points are a matter of module Loyalty.
RejectCancelled(s) ==
  LET o == task[s].order
  IN /\ At(s, "reject")
     /\ status' = IF Undecided(o) THEN [status EXCEPT ![o] = "rejected"] ELSE status
     /\ Go(s, [pc |-> "clear", user |-> Me(s)])
     /\ UNCHANGED <<fsm, by, receipt, topups, up>>

-----------------------------------------------------------------------------
(* The Mini App. A receipt goes to the administrators first, and is kept if   *)
(* that succeeds.                                                             *)

PlaceOnly(u) == (Place(u, "pending") \/ Place(u, "approved")) /\ UNCHANGED <<fsm, receipt, topups, task, up>>
CreateOrder(u) == PlaceOnly(u)
CartCheckout(u) == PlaceOnly(u)

OrderReceipt(s, o) == Pending(o) /\ Begin(s, [pc |-> "upload", order |-> o])
Uploaded(s) ==
  /\ At(s, "upload") /\ Go(s, Idle)
  /\ receipt' = receipt \cup {task[s].order} \/ receipt' = receipt
  /\ UNCHANGED <<fsm, by, status, topups, up>>

TopUpRequest(u) == Open(u) /\ UNCHANGED <<fsm, orders, task, up>>
\* In one step: nothing that happens meanwhile makes a difference here.
TopUpReceipt(t) ==
  /\ topup[t] # "none" /\ topup' = [topup EXCEPT ![t] = "filed"]
  /\ UNCHANGED <<fsm, orders, payer, task, up>>

MiniApp(u) ==
  \/ CreateOrder(u) \/ CartCheckout(u) \/ TopUpRequest(u)
  \/ \E s \in Slot, o \in Order : by[o] = u /\ OrderReceipt(s, o)
  \/ \E t \in TopUp : payer[t] = u /\ TopUpReceipt(t)

-----------------------------------------------------------------------------
(* The administrators, in this process or in another, and restarts.           *)

\* decide_order
Decide(o) ==
  /\ Undecided(o)
  /\ \E v \in {"approved", "rejected"} : status' = [status EXCEPT ![o] = v]
  /\ UNCHANGED <<fsm, by, receipt, topups, task, up>>

\* The bot stops, and its tasks are gone; the Mini App is another process.
Stop ==
  /\ up /\ up' = FALSE
  /\ task' = [s \in Slot |-> IF At(s, "upload") THEN task[s] ELSE Idle]
  /\ UNCHANGED <<fsm, orders, topups>>

\* start_bot drops the updates sent meanwhile. The FSM is as it was, or lost when its
\* file cannot be opened and MemoryStorage takes its place.
StartBot ==
  /\ ~up /\ up' = TRUE
  /\ \/ UNCHANGED fsm
     \/ state' = [u \in User |-> NoState] /\ about' = [u \in User |-> NoOrder]
  /\ UNCHANGED <<orders, topups, task>>

-----------------------------------------------------------------------------
Run(s) ==
  \/ Prompt(s) \/ Typed(s) \/ LateClear(s)
  \/ LookForReceipt(s) \/ Find(s) \/ Store(s) \/ CreateTopUp(s) \/ File(s)
  \/ LookForCancel(s) \/ RejectCancelled(s) \/ Uploaded(s)

Update(u) ==
  /\ up
  /\ \/ Start(u) \/ ShowCategories(u) \/ BackToMenu(u)
     \/ LoyaltyHistory(u) \/ LoyaltyMenu(u) \/ LoyaltyRules(u) \/ RedeemConfirmed(u)
     \/ EnterCode(u) \/ NewAddress(u) \/ StartTopUp(u) \/ RedeemPoints(u) \/ ContactStart(u)
     \/ TypeAmount(u)
     \/ \E s \in Slot :
          \/ BuyStart(s, u) \/ CheckoutButton(s, u) \/ PickShipping(s, u) \/ PickAddress(s, u)
          \/ Type(s, u) \/ Photo(s, u) \/ Cancel(s, u)

Next ==
  \/ \E s \in Slot : Run(s)
  \/ \E u \in User : Update(u) \/ MiniApp(u)
  \/ \E o \in Order : Decide(o)
  \/ Stop \/ StartBot

Spec == Init /\ [][Next]_vars

\* The event loop goes on with every task; what is promised needs it of those with a receipt.
Receive(s) == LookForReceipt(s) \/ Find(s) \/ Store(s)
FairSpec == Spec /\ \A s \in Slot : WF_task(Receive(s))

-----------------------------------------------------------------------------
(* What customers and administrators may rely on.                             *)

\* A conversation that waits for a receipt knows what it is for, and no conversation
\* names another customer's order, although updates of one customer overlap, clear
\* late, and buttons of abandoned conversations are pressed.
ReceiptHasPurpose ==
  \A u \in User :
    /\ state[u] = "order_receipt" => about[u] # NoOrder
    /\ about[u] # NoOrder => by[about[u]] = u

\* A decision stands: neither a cancel button that looked at the order before nor a
\* late receipt changes it.
DecisionStands ==
  [][\A o \in Order : status[o] \in {"approved", "rejected"} => status'[o] = status[o]]_vars

Served(o) == o \in receipt \/ status[o] \in {"approved", "rejected"}

\* A photo that is sent when the bot asked for a receipt, or outside any conversation
\* by a customer with one order that lacks its receipt, is stored for that order or for
\* a newer one of the customer, or the order is decided on, unless the bot stops.
Claimed(o) ==
  \E s \in Slot :
    \/ At(s, "receipt") /\ task[s].order = o
    \/ At(s, "find") /\ Awaiting(Me(s)) = {o}
ReceiptArrives ==
  \A o \in Order :
    Claimed(o)
      ~> (~up \/ Served(o) \/ \E p \in Order : p > o /\ by[p] = by[o] /\ Served(p))
=============================================================================
