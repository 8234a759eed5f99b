---------------------------- MODULE ConversationProofs ----------------------------
(* What holds of conversations, orders and receipts for any number of customers,   *)
(* orders, top-ups and updates that are handled at the same time.                  *)
EXTENDS Conversation, WellFoundedInduction, TLAPS

Decided == {"approved", "rejected"}

\* The parts of the inductive invariant.
FsmTypes == state \in [User -> State \cup {NoState}] /\ about \in [User -> Order \cup {NoOrder}]
OrdersFit ==
  /\ by \in [Order -> User \cup {Nobody}]
  /\ status \in [Order -> {"none", "pending"} \cup Decided]
  /\ receipt \subseteq Order
  /\ \A o \in Order : status[o] = "none" <=> by[o] = Nobody
TopUpsFit ==
  /\ topup \in [TopUp -> {"none", "open", "filed"}] /\ payer \in [TopUp -> User \cup {Nobody}]
TasksFit ==
  /\ task \in [Slot -> Task \cup {Idle}]
  /\ \A s \in Slot : At(s, "prompt") => by[task[s].order] = task[s].user

\* The inductive invariant: an order is somebody's from the start, and who is about to be
\* asked for its receipt is the one who placed it.
ConversationInv ==
  FsmTypes /\ ReceiptHasPurpose /\ OrdersFit /\ TopUpsFit /\ TasksFit /\ up \in BOOLEAN

\* What no step takes back.
Stable ==
  /\ \A o \in Order : by[o] # Nobody => by'[o] = by[o]
  /\ \A o \in Order : status[o] \in Decided => status'[o] = status[o]

\* How a step may change the conversations, apart from asking for a receipt.
FsmStep ==
  \/ UNCHANGED fsm
  \/ \E u \in User : Clear(u)
  \/ \E u \in User, x \in (State \cup {NoState}) \ {"order_receipt"} :
       SetState(u, x) /\ UNCHANGED about
  \/ state' = [u \in User |-> NoState] /\ about' = [u \in User |-> NoOrder]

-----------------------------------------------------------------------------
(* Numbers.                                                                   *)

\* The numbers the database gives out: a set of them that is not empty has a least one,
\* which Min returns.
LEMMA LeastOne ==
  ASSUME NEW S, S \subseteq Nat, S # {}
  PROVE  Min(S) \in S /\ \A y \in S : Min(S) <= y
<1> DEFINE R == {ss \in Nat \X Nat : ss[1] < ss[2]}
<1>1. IsWellFoundedOn(R, Nat)
  BY NatLessThanWellFounded DEF OpToRel
<1>2. \A m, n \in Nat : m < n => <<m, n>> \in R
  OBVIOUS
<1> HIDE DEF R
<1>3. PICK x \in S : \A y \in S : ~ (<<y, x>> \in R)
  BY <1>1, WFMin
<1>4. \A y \in S : x <= y
  <2> SUFFICES ASSUME NEW y \in S
               PROVE  x <= y
    OBVIOUS
  <2>1. x \in Nat /\ y \in Nat
    OBVIOUS
  <2>2. ~ (y < x)
    BY <1>2, <1>3, <2>1
  <2> QED BY <2>1, <2>2
<1> QED BY <1>4 DEF Min

\* A set of numbers that are bounded has a greatest one, which Max returns.
LEMMA GreatestOne ==
  ASSUME NEW N \in Nat, NEW S, S \subseteq 1..N, S # {}
  PROVE  Max(S) \in S
<1> DEFINE R == {ss \in Nat \X Nat : ss[1] < ss[2]}
           T == {n \in Nat : N - n \in S}
<1>1. IsWellFoundedOn(R, Nat)
  BY NatLessThanWellFounded DEF OpToRel
<1>2. \A m, n \in Nat : m < n => <<m, n>> \in R
  OBVIOUS
<1> HIDE DEF R
<1>3. \A x \in S : x \in Int /\ N - x \in Nat /\ N - (N - x) = x
  OBVIOUS
<1>4. T \subseteq Nat /\ T # {}
  BY <1>3
<1>5. PICK m \in T : \A n \in T : ~ (<<n, m>> \in R)
  BY <1>1, <1>4, WFMin
<1>6. m \in Nat /\ N - m \in S
  BY <1>5
<1>7. ASSUME NEW y \in S
      PROVE  N - m >= y
  <2>1. y \in Int /\ N - y \in T /\ N - y \in Nat
    BY <1>3
  <2>2. ~ (N - y < m)
    BY <1>2, <1>5, <1>6, <2>1
  <2> QED BY <1>6, <2>1, <2>2
<1> QED BY <1>6, <1>7 DEF Max

-----------------------------------------------------------------------------
(* Tasks.                                                                     *)

\* A task that is at a point has what that point needs.
LEMMA TaskShapes ==
  ASSUME TasksFit, NEW s \in Slot, task[s] # Idle
  PROVE  /\ task[s] \in Task
         /\ task[s].pc # "upload" => task[s].user \in User
         /\ task[s].pc \in {"prompt", "look", "reject", "receipt", "store", "upload"}
              => task[s].order \in Order
         /\ task[s].pc = "file" => task[s].topup \in TopUp
<1>1. task[s] \in Task
  BY DEF TasksFit
<1> DEFINE t == task[s]
<1> HIDE DEF t
<1>2. t \in Task
  BY <1>1 DEF t
<1>3. /\ t.pc # "upload" => t.user \in User
      /\ t.pc \in {"prompt", "look", "reject", "receipt", "store", "upload"} => t.order \in Order
      /\ t.pc = "file" => t.topup \in TopUp
  BY <1>2 DEF Task
<1> QED BY <1>1, <1>3 DEF t

\* The tasks that handlers begin with or go on to.
LEMMA Tasks ==
  /\ \A p \in {"text", "find", "topup", "clear"}, u \in User : [pc |-> p, user |-> u] \in Task
  /\ \A p \in {"prompt", "look", "reject", "receipt"}, u \in User, o \in Order :
       [pc |-> p, user |-> u, order |-> o] \in Task
  /\ \A u \in User, o \in Order, b \in BOOLEAN :
       [pc |-> "store", user |-> u, order |-> o, mine |-> b] \in Task
  /\ \A u \in User, t \in TopUp, b \in BOOLEAN :
       [pc |-> "file", user |-> u, topup |-> t, mine |-> b] \in Task
  /\ \A o \in Order : [pc |-> "upload", order |-> o] \in Task
BY DEF Task

\* A handler that turns to a task, or is over, leaves the others as they were.
LEMMA GoFits ==
  ASSUME TasksFit, Stable, NEW s \in Slot, NEW t \in Task \cup {Idle}, Go(s, t),
         t # Idle /\ t.pc = "prompt" => by'[t.order] = t.user
  PROVE  TasksFit'
<1>1. /\ task' \in [Slot -> Task \cup {Idle}] /\ task'[s] = t
      /\ \A r \in Slot : r # s => task'[r] = task[r]
  BY DEF TasksFit, Go
<1>2. ASSUME NEW r \in Slot, At(r, "prompt")'
      PROVE  by'[task'[r].order] = task'[r].user
  <2>1. CASE r = s
    BY <1>1, <1>2, <2>1 DEF At
  <2>2. CASE r # s
    <3>1. task'[r] = task[r] /\ At(r, "prompt")
      BY <1>1, <1>2, <2>2 DEF At
    <3>2. /\ by[task[r].order] = task[r].user /\ task[r].order \in Order
          /\ task[r].user # Nobody
      BY <3>1, TaskShapes, ConversationAssumption DEF TasksFit, At
    <3> QED BY <3>1, <3>2 DEF Stable
  <2> QED BY <2>1, <2>2
<1> QED BY <1>1, <1>2 DEF TasksFit

\* Tasks that nobody touches.
LEMMA TasksStay ==
  ASSUME TasksFit, Stable, UNCHANGED task
  PROVE  TasksFit'
<1>1. ASSUME NEW r \in Slot, At(r, "prompt")
      PROVE  by'[task[r].order] = task[r].user
  <2>1. /\ by[task[r].order] = task[r].user /\ task[r].order \in Order
        /\ task[r].user # Nobody
    BY <1>1, TaskShapes, ConversationAssumption DEF TasksFit, At
  <2> QED BY <2>1 DEF Stable
<1> QED BY <1>1 DEF TasksFit, At

-----------------------------------------------------------------------------
(* Conversations, orders and top-ups.                                         *)

\* Conversations that nobody asks for a receipt keep their purpose.
LEMMA FsmKept ==
  ASSUME FsmTypes, ReceiptHasPurpose, Stable, FsmStep
  PROVE  FsmTypes' /\ ReceiptHasPurpose'
<1>1. NoState # "order_receipt" /\ Nobody \notin User /\ NoOrder \notin Order
  BY ConversationAssumption DEF State, Order
<1>2. \A u \in User : about[u] # NoOrder => about[u] \in Order /\ by'[about[u]] = u
  BY <1>1 DEF FsmTypes, ReceiptHasPurpose, Stable
<1>3. CASE UNCHANGED fsm
  BY <1>2, <1>3 DEF FsmTypes, ReceiptHasPurpose, fsm
<1>4. ASSUME NEW u \in User, Clear(u)
      PROVE  FsmTypes' /\ ReceiptHasPurpose'
  BY <1>1, <1>2, <1>4 DEF FsmTypes, ReceiptHasPurpose, Clear
<1>5. ASSUME NEW u \in User, NEW x \in (State \cup {NoState}) \ {"order_receipt"},
             SetState(u, x), UNCHANGED about
      PROVE  FsmTypes' /\ ReceiptHasPurpose'
  BY <1>1, <1>2, <1>5 DEF FsmTypes, ReceiptHasPurpose, SetState
<1>6. CASE state' = [u \in User |-> NoState] /\ about' = [u \in User |-> NoOrder]
  BY <1>1, <1>6 DEF FsmTypes, ReceiptHasPurpose
<1> QED BY <1>3, <1>4, <1>5, <1>6 DEF FsmStep

\* An order that is placed has a number nobody's order had.
LEMMA PlaceFits ==
  ASSUME OrdersFit, NEW u \in User, NEW x \in {"pending", "approved"}, Place(u, x), UNCHANGED receipt
  PROVE  OrdersFit' /\ Stable /\ Min(Unused) \in Order /\ by'[Min(Unused)] = u
<1> DEFINE new == Min(Unused)
<1>1. new \in Order /\ status[new] = "none"
  <2>1. Unused \subseteq Nat
    BY DEF Unused, Order
  <2> QED BY <2>1, LeastOne DEF Place, Unused
<1>2. by' = [by EXCEPT ![new] = u] /\ status' = [status EXCEPT ![new] = x]
  BY DEF Place
<1> HIDE DEF new
<1>3. u # Nobody
  BY ConversationAssumption
<1>4. OrdersFit'
  BY <1>1, <1>2, <1>3 DEF OrdersFit, Decided
<1>5. Stable /\ by'[new] = u
  BY <1>1, <1>2 DEF OrdersFit, Stable, Decided
<1> QED BY <1>1, <1>4, <1>5 DEF new

\* Orders that stay, or get a receipt.
LEMMA OrdersStay ==
  ASSUME OrdersFit, UNCHANGED <<by, status>>, receipt' \subseteq Order
  PROVE  OrdersFit' /\ Stable
BY DEF OrdersFit, Stable

\* A decision on an order nobody has decided on.
LEMMA DecideFits ==
  ASSUME OrdersFit, NEW o \in Order, Undecided(o), NEW v \in Decided,
         status' = [status EXCEPT ![o] = v], UNCHANGED <<by, receipt>>
  PROVE  OrdersFit' /\ Stable
BY DEF OrdersFit, Stable, Undecided, Decided

\* A top-up that is opened.
LEMMA OpenFits ==
  ASSUME TopUpsFit, NEW u \in User, Open(u)
  PROVE  TopUpsFit' /\ Min(Unasked) \in TopUp
<1>1. Unasked \subseteq Nat /\ Unasked # {}
  BY DEF Unasked, TopUp, Open
<1>2. Min(Unasked) \in Unasked
  BY <1>1, LeastOne
<1>3. Min(Unasked) \in TopUp
  BY <1>2 DEF Unasked
<1> QED BY <1>3 DEF Open, TopUpsFit

\* What a step does to the parts makes up what it does to the whole.
LEMMA Together ==
  ASSUME ConversationInv, Stable, FsmStep, OrdersFit', TopUpsFit', TasksFit', up' \in BOOLEAN
  PROVE  ConversationInv'
BY FsmKept DEF ConversationInv
\* A step that leaves orders and top-ups alone.
LEMMA OnlyConversation ==
  ASSUME ConversationInv, FsmStep, UNCHANGED <<orders, topups, up>>,
         \/ UNCHANGED task
         \/ \E s \in Slot, t \in Task \cup {Idle} :
              Go(s, t) /\ (t # Idle /\ t.pc = "prompt" => by[t.order] = t.user)
  PROVE  ConversationInv' /\ Stable
<1>1. UNCHANGED <<by, status, receipt, topup, payer, up>>
  BY DEF orders, topups
<1>2. OrdersFit' /\ Stable /\ TopUpsFit' /\ up' \in BOOLEAN
  BY <1>1, OrdersStay DEF ConversationInv, OrdersFit, TopUpsFit
<1>3. TasksFit'
  BY <1>1, <1>2, GoFits, TasksStay DEF ConversationInv
<1> QED BY <1>2, <1>3, Together

-----------------------------------------------------------------------------
(* Updates of the bot.                                                        *)

\* The checkout places an order and goes on with it.
LEMMA CheckoutKeeps ==
  ASSUME ConversationInv, NEW s \in Slot, NEW u \in User, Checkout(s, u)
  PROVE  ConversationInv' /\ Stable
<1> DEFINE new == Min(Unused)
<1>1. UNCHANGED <<state, about, receipt, topup, payer, up>>
  BY DEF Checkout, fsm, topups
<1>2. PICK x \in {"pending", "approved"} :
        /\ Place(u, x)
        /\ \/ Go(s, [pc |-> "prompt", user |-> u, order |-> new])
           \/ Go(s, [pc |-> "clear", user |-> u])
  BY DEF Checkout
<1>3. OrdersFit' /\ Stable /\ new \in Order /\ by'[new] = u
  BY <1>1, <1>2, PlaceFits DEF ConversationInv
<1> HIDE DEF new
<1>4. TasksFit'
  <2>1. CASE Go(s, [pc |-> "prompt", user |-> u, order |-> new])
    BY <1>3, <2>1, Tasks, GoFits DEF ConversationInv
  <2>2. CASE Go(s, [pc |-> "clear", user |-> u])
    BY <1>3, <2>2, Tasks, GoFits DEF ConversationInv
  <2> QED BY <1>2, <2>1, <2>2
<1>5. FsmStep /\ TopUpsFit' /\ up' \in BOOLEAN
  BY <1>1 DEF ConversationInv, TopUpsFit, FsmStep, fsm
<1> QED BY <1>3, <1>4, <1>5, Together

\* Buttons and messages whose handlers touch the FSM at once.
LEMMA ImmediateKeeps ==
  ASSUME ConversationInv, NEW u \in User,
         \/ Start(u) \/ ShowCategories(u) \/ BackToMenu(u)
         \/ LoyaltyHistory(u) \/ LoyaltyMenu(u) \/ LoyaltyRules(u) \/ RedeemConfirmed(u)
         \/ EnterCode(u) \/ NewAddress(u) \/ StartTopUp(u) \/ RedeemPoints(u) \/ ContactStart(u)
         \/ TypeAmount(u)
  PROVE  ConversationInv' /\ Stable
<1>1. UNCHANGED <<orders, topups, task, up>>
  BY DEF Start, ShowCategories, BackToMenu, LoyaltyHistory, LoyaltyMenu, LoyaltyRules,
         RedeemConfirmed, Leave, EnterCode, NewAddress, StartTopUp, RedeemPoints, ContactStart, Ask,
         TypeAmount
<1>2. \/ Clear(u)
      \/ \E x \in {"text", "amount", "topup_receipt"} : SetState(u, x) /\ UNCHANGED about
  BY DEF Start, ShowCategories, BackToMenu, LoyaltyHistory, LoyaltyMenu, LoyaltyRules,
         RedeemConfirmed, Leave, EnterCode, NewAddress, StartTopUp, RedeemPoints, ContactStart, Ask,
         TypeAmount
<1>3. {"text", "amount", "topup_receipt"} \subseteq (State \cup {NoState}) \ {"order_receipt"}
  BY DEF State
<1>4. FsmStep
  BY <1>2, <1>3 DEF FsmStep
<1> QED BY <1>1, <1>4, OnlyConversation

\* Updates whose handlers give way.
LEMMA BeginKeeps ==
  ASSUME ConversationInv, NEW s \in Slot, NEW t \in Task, t.pc # "prompt", Begin(s, t)
  PROVE  ConversationInv' /\ Stable
<1>1. Go(s, t) /\ UNCHANGED <<orders, topups, up>> /\ FsmStep
  BY DEF Begin, FsmStep
<1> QED BY <1>1, OnlyConversation

\* All that the bot is sent.
LEMMA UpdateKeeps ==
  ASSUME ConversationInv, NEW u \in User, Update(u)
  PROVE  ConversationInv' /\ Stable
<1>1. ASSUME NEW s \in Slot,
             BuyStart(s, u) \/ CheckoutButton(s, u) \/ PickShipping(s, u) \/ PickAddress(s, u)
      PROVE  ConversationInv' /\ Stable
  BY <1>1, CheckoutKeeps DEF BuyStart, CheckoutButton, PickShipping, PickAddress
<1>2. ASSUME NEW s \in Slot, Type(s, u)
      PROVE  ConversationInv' /\ Stable
  BY <1>2, BeginKeeps, Tasks DEF Type
<1>3. about[u] # NoOrder => about[u] \in Order
  BY DEF ConversationInv, FsmTypes
<1>4. ASSUME NEW s \in Slot, Photo(s, u)
      PROVE  ConversationInv' /\ Stable
  <2>1. CASE Begin(s, [pc |-> "topup", user |-> u]) \/ Begin(s, [pc |-> "find", user |-> u])
    BY <2>1, BeginKeeps, Tasks
  <2>2. CASE state[u] = "order_receipt" /\ Begin(s, [pc |-> "receipt", user |-> u, order |-> about[u]])
    <3>1. about[u] \in Order
      BY <1>3, <2>2 DEF ConversationInv, ReceiptHasPurpose
    <3>2. [pc |-> "receipt", user |-> u, order |-> about[u]] \in Task
      BY <3>1, Tasks
    <3> QED BY <2>2, <3>2, BeginKeeps
  <2> QED BY <1>4, <2>1, <2>2 DEF Photo
<1>5. ASSUME NEW s \in Slot, Cancel(s, u)
      PROVE  ConversationInv' /\ Stable
  <2>1. CASE about[u] # NoOrder
    <3>1. [pc |-> "look", user |-> u, order |-> about[u]] \in Task
      BY <1>3, <2>1, Tasks
    <3> QED BY <1>5, <2>1, <3>1, BeginKeeps DEF Cancel
  <2>2. CASE about[u] = NoOrder
    <3>1. Clear(u) /\ UNCHANGED <<orders, topups, task, up>>
      BY <1>5, <2>2 DEF Cancel
    <3>2. FsmStep
      BY <3>1 DEF FsmStep
    <3> QED BY <3>1, <3>2, OnlyConversation
  <2> QED BY <2>1, <2>2
<1> QED BY <1>1, <1>2, <1>4, <1>5, ImmediateKeeps DEF Update

-----------------------------------------------------------------------------
(* Tasks that go on.                                                          *)

\* The order that waits for its receipt is the customer's.
LEMMA PromptKeeps ==
  ASSUME ConversationInv, NEW s \in Slot, Prompt(s)
  PROVE  ConversationInv' /\ Stable
<1> DEFINE u == task[s].user
           o == task[s].order
<1>1. u \in User /\ o \in Order /\ by[o] = u
  BY TaskShapes DEF ConversationInv, TasksFit, Prompt, At
<1>2. /\ about' = [about EXCEPT ![u] = o] /\ state' = [state EXCEPT ![u] = "order_receipt"]
      /\ Go(s, Idle) /\ UNCHANGED <<by, status, receipt, topup, payer, up>>
  BY DEF Prompt, SetState, Me, orders, topups
<1> HIDE DEF u, o
<1>3. OrdersFit' /\ Stable /\ TopUpsFit' /\ up' \in BOOLEAN
  BY <1>2, OrdersStay DEF ConversationInv, OrdersFit, TopUpsFit
<1>4. TasksFit'
  BY <1>2, <1>3, GoFits DEF ConversationInv
<1>5. FsmTypes' /\ ReceiptHasPurpose'
  <2>1. "order_receipt" \in State /\ o # NoOrder
    BY <1>1, ConversationAssumption DEF State, Order
  <2> QED BY <1>1, <1>2, <2>1 DEF ConversationInv, FsmTypes, ReceiptHasPurpose
<1> QED BY <1>3, <1>4, <1>5 DEF ConversationInv

\* Tasks that read, and those that end a conversation.
LEMMA ReadersKeep ==
  ASSUME ConversationInv, NEW s \in Slot,
         Typed(s) \/ LateClear(s) \/ LookForReceipt(s) \/ Find(s) \/ LookForCancel(s)
  PROVE  ConversationInv' /\ Stable
<1> DEFINE u == task[s].user
           o == task[s].order
<1>1. UNCHANGED <<orders, topups, up>>
  BY DEF Typed, LateClear, LookForReceipt, Find, LookForCancel
<1>2. u \in User
  BY TaskShapes DEF ConversationInv, Typed, LateClear, LookForReceipt, Find, LookForCancel, At
<1>3. TasksFit /\ OrdersFit /\ TopUpsFit
  BY DEF ConversationInv
<1>4. ASSUME Clear(u)
      PROVE  FsmStep
  BY <1>2, <1>4 DEF FsmStep
<1>5. ASSUME UNCHANGED fsm
      PROVE  FsmStep
  BY <1>5 DEF FsmStep
<1>6. CASE Typed(s)
  <2>1. Clear(u) \/ UNCHANGED fsm \/ (SetState(u, NoState) /\ UNCHANGED about)
    BY <1>6 DEF Typed, CodeTyped, AddressTyped, PointsTyped, MessageTyped, Refused, KeepData, Me
  <2>2. NoState \in (State \cup {NoState}) \ {"order_receipt"}
    BY ConversationAssumption DEF State
  <2>3. FsmStep
    BY <1>2, <2>1, <2>2 DEF FsmStep
  <2> QED BY <1>1, <1>6, <2>3, OnlyConversation DEF Typed
<1>7. CASE LateClear(s)
  BY <1>1, <1>4, <1>7, OnlyConversation DEF LateClear, Me
<1>8. CASE LookForReceipt(s)
  <2>1. o \in Order
    BY <1>3, <1>8, TaskShapes DEF LookForReceipt, At
  <2>2. \/ Go(s, [pc |-> "store", user |-> u, order |-> o, mine |-> TRUE]) /\ UNCHANGED fsm
        \/ Clear(u) /\ Go(s, Idle)
    BY <1>8, Zenon DEF LookForReceipt, Me
  <2>3. [pc |-> "store", user |-> u, order |-> o, mine |-> TRUE] \in Task
    BY <1>2, <2>1, Tasks
  <2> QED BY <1>1, <1>4, <1>5, <2>2, <2>3, OnlyConversation
<1>9. CASE Find(s)
  <2>1. /\ Awaiting(u) # {} => Max(Awaiting(u)) \in Order
        /\ OpenTopUps(u) # {} => Max(OpenTopUps(u)) \in TopUp
    <3>1. Awaiting(u) \subseteq 1..MaxOrders /\ OpenTopUps(u) \subseteq 1..MaxTopUps
      BY DEF Awaiting, OpenTopUps, Order, TopUp
    <3> QED BY <3>1, GreatestOne, ConversationAssumption DEF Order, TopUp
  <2> DEFINE storing == [pc |-> "store", user |-> u, order |-> Max(Awaiting(u)), mine |-> FALSE]
             filing == [pc |-> "file", user |-> u, topup |-> Max(OpenTopUps(u)), mine |-> FALSE]
  <2>2. /\ UNCHANGED fsm
        /\ \/ Awaiting(u) # {} /\ Go(s, storing)
           \/ OpenTopUps(u) # {} /\ Go(s, filing)
           \/ Go(s, Idle)
    BY <1>9, Zenon DEF Find, Me
  <2>3. /\ Awaiting(u) # {} => storing \in Task /\ storing.pc # "prompt"
        /\ OpenTopUps(u) # {} => filing \in Task /\ filing.pc # "prompt"
    BY <1>2, <2>1, Tasks
  <2> HIDE DEF storing, filing
  <2> QED BY <1>1, <1>5, <2>2, <2>3, OnlyConversation
<1>10. CASE LookForCancel(s)
  <2>1. \/ UNCHANGED fsm /\ Go(s, [task[s] EXCEPT !.pc = "reject"])
        \/ Clear(u) /\ Go(s, Idle)
    <3>1. CASE Pending(task[s].order)
      BY <1>10, <3>1 DEF LookForCancel
    <3>2. CASE ~Pending(task[s].order)
      BY <1>10, <3>2 DEF LookForCancel, Me
    <3> QED BY <3>1, <3>2
  <2>2. [task[s] EXCEPT !.pc = "reject"] \in Task /\ [task[s] EXCEPT !.pc = "reject"].pc # "prompt"
    <3> DEFINE t == task[s]
               Shape == [pc : {"prompt", "look", "reject", "receipt"}, user : User, order : Order]
    <3>1. t \in Task /\ t.pc = "look"
      BY <1>3, <1>10, TaskShapes DEF LookForCancel, At
    <3> HIDE DEF t
    <3>2. t \in Shape
      BY <3>1 DEF Task
    <3>3. [t EXCEPT !.pc = "reject"] \in Shape /\ [t EXCEPT !.pc = "reject"].pc = "reject"
      BY <3>2
    <3> QED BY <3>3 DEF Task, t
  <2> QED BY <1>1, <1>4, <1>5, <2>1, <2>2, OnlyConversation
<1> QED BY <1>6, <1>7, <1>8, <1>9, <1>10
\* Tasks that store a receipt or a top-up.
LEMMA WritersKeep ==
  ASSUME ConversationInv, NEW s \in Slot,
         Store(s) \/ CreateTopUp(s) \/ File(s) \/ Uploaded(s)
  PROVE  ConversationInv' /\ Stable
<1>1. TasksFit /\ OrdersFit /\ TopUpsFit /\ up \in BOOLEAN
  BY DEF ConversationInv
<1>2. UNCHANGED <<fsm, by, status, up>> /\ FsmStep
  BY DEF Store, CreateTopUp, File, Uploaded, orders, FsmStep
<1>3. receipt' \subseteq Order
  <2>1. CASE Store(s) \/ Uploaded(s)
    <3>1. task[s].order \in Order
      BY <1>1, <2>1, TaskShapes DEF Store, Uploaded, At
    <3> QED BY <1>1, <2>1, <3>1 DEF Store, Uploaded, OrdersFit
  <2>2. CASE CreateTopUp(s) \/ File(s)
    BY <1>1, <2>2 DEF CreateTopUp, File, OrdersFit, orders
  <2> QED BY <2>1, <2>2
<1>4. OrdersFit' /\ Stable
  BY <1>1, <1>2, <1>3, OrdersStay
<1>5. TopUpsFit' /\ \E t \in Task \cup {Idle} : Go(s, t) /\ (t # Idle => t.pc # "prompt")
  <2>1. CASE Store(s) \/ File(s)
    <3>1. task[s].user \in User
      BY <1>1, <2>1, TaskShapes DEF Store, File, At
    <3>2. Go(s, [pc |-> "clear", user |-> task[s].user]) \/ Go(s, Idle)
      BY <2>1, Zenon DEF Store, File, Finish, Me
    <3>3. [pc |-> "clear", user |-> task[s].user] \in Task
      BY <3>1, Tasks
    <3>4. TopUpsFit'
      BY <1>1, <2>1 DEF Store, File, TopUpsFit, topups
    <3> QED BY <3>2, <3>3, <3>4
  <2>2. CASE CreateTopUp(s)
    <3> DEFINE t == [pc |-> "file", user |-> task[s].user, topup |-> Min(Unasked), mine |-> TRUE]
    <3>1. task[s].user \in User
      BY <1>1, <2>2, TaskShapes DEF CreateTopUp, At
    <3>2. Open(task[s].user) /\ Go(s, t)
      BY <2>2 DEF CreateTopUp, Me
    <3>3. TopUpsFit' /\ Min(Unasked) \in TopUp
      BY <1>1, <3>1, <3>2, OpenFits
    <3>4. t \in Task
      BY <3>1, <3>3, Tasks
    <3> QED BY <3>2, <3>3, <3>4
  <2>3. CASE Uploaded(s)
    BY <1>1, <2>3 DEF Uploaded, TopUpsFit, topups
  <2> QED BY <2>1, <2>2, <2>3
<1>6. TasksFit'
  BY <1>1, <1>4, <1>5, GoFits
<1> QED BY <1>1, <1>2, <1>4, <1>5, <1>6, Together

\* A cancel rejects the order only if nobody has decided on it since it was looked at.
LEMMA RejectKeeps ==
  ASSUME ConversationInv, NEW s \in Slot, RejectCancelled(s)
  PROVE  ConversationInv' /\ Stable
<1> DEFINE u == task[s].user
           o == task[s].order
<1>1. u \in User /\ o \in Order
  BY TaskShapes DEF ConversationInv, RejectCancelled, At
<1>2. /\ (Undecided(o) /\ status' = [status EXCEPT ![o] = "rejected"]) \/ status' = status
      /\ Go(s, [pc |-> "clear", user |-> u])
      /\ UNCHANGED <<fsm, by, receipt, topup, payer, up>>
  BY Zenon DEF RejectCancelled, Me, topups
<1> HIDE DEF u, o
<1>3. OrdersFit' /\ Stable
  BY <1>1, <1>2, DecideFits, OrdersStay DEF ConversationInv, OrdersFit, Decided
<1>4. TasksFit'
  BY <1>1, <1>2, <1>3, Tasks, GoFits DEF ConversationInv
<1>5. FsmStep /\ TopUpsFit' /\ up' \in BOOLEAN
  BY <1>2 DEF ConversationInv, TopUpsFit, FsmStep
<1> QED BY <1>3, <1>4, <1>5, Together

-----------------------------------------------------------------------------
(* The Mini App, the administrators, and restarts.                            *)

\* Requests of the Mini App leave the conversations alone.
LEMMA MiniAppKeeps ==
  ASSUME ConversationInv, NEW u \in User, MiniApp(u)
  PROVE  ConversationInv' /\ Stable
<1>1. TasksFit /\ OrdersFit /\ TopUpsFit /\ up \in BOOLEAN
  BY DEF ConversationInv
<1>2. CASE CreateOrder(u) \/ CartCheckout(u)
  <2>1. PICK x \in {"pending", "approved"} : Place(u, x)
    BY <1>2 DEF CreateOrder, CartCheckout, PlaceOnly
  <2>2. UNCHANGED <<fsm, receipt, topup, payer, task, up>> /\ FsmStep
    BY <1>2 DEF CreateOrder, CartCheckout, PlaceOnly, topups, FsmStep
  <2>3. OrdersFit' /\ Stable /\ TopUpsFit'
    BY <1>1, <2>1, <2>2, PlaceFits DEF TopUpsFit
  <2> QED BY <1>1, <2>2, <2>3, TasksStay, Together
<1>3. CASE TopUpRequest(u) \/ \E t \in TopUp : TopUpReceipt(t)
  <2>1. UNCHANGED <<fsm, by, status, receipt, task, up>> /\ FsmStep
    BY <1>3 DEF TopUpRequest, TopUpReceipt, orders, FsmStep
  <2>2. OrdersFit' /\ Stable
    BY <1>1, <2>1, OrdersStay DEF OrdersFit
  <2>3. TopUpsFit'
    BY <1>1, <1>3, OpenFits DEF TopUpRequest, TopUpReceipt, TopUpsFit
  <2> QED BY <1>1, <2>1, <2>2, <2>3, TasksStay, Together
<1>4. ASSUME NEW s \in Slot, NEW o \in Order, OrderReceipt(s, o)
      PROVE  ConversationInv' /\ Stable
  BY <1>4, BeginKeeps, Tasks DEF OrderReceipt
<1> QED BY <1>2, <1>3, <1>4 DEF MiniApp

\* Decisions, and restarts of the bot, which may lose the conversations and lose every task
\* of the bot.
LEMMA OthersKeep ==
  ASSUME ConversationInv, (\E o \in Order : Decide(o)) \/ Stop \/ StartBot
  PROVE  ConversationInv' /\ Stable
<1>1. TasksFit /\ OrdersFit /\ TopUpsFit
  BY DEF ConversationInv
<1>2. ASSUME NEW o \in Order, Decide(o)
      PROVE  ConversationInv' /\ Stable
  <2>1. /\ UNCHANGED <<fsm, by, receipt, topup, payer, task, up>> /\ Undecided(o)
        /\ \E v \in Decided : status' = [status EXCEPT ![o] = v]
    BY <1>2 DEF Decide, topups, Decided
  <2>2. OrdersFit' /\ Stable
    BY <1>1, <2>1, DecideFits
  <2>3. FsmStep /\ TopUpsFit' /\ up' \in BOOLEAN
    BY <1>1, <2>1 DEF ConversationInv, TopUpsFit, FsmStep
  <2> QED BY <1>1, <2>1, <2>2, <2>3, TasksStay, Together
<1>3. CASE Stop
  <2>1. /\ UNCHANGED <<fsm, by, status, receipt, topup, payer>> /\ up' \in BOOLEAN
        /\ task' = [s \in Slot |-> IF At(s, "upload") THEN task[s] ELSE Idle]
    BY <1>3 DEF Stop, orders, topups
  <2>2. OrdersFit' /\ Stable /\ TopUpsFit' /\ FsmStep
    BY <1>1, <2>1, OrdersStay DEF OrdersFit, TopUpsFit, FsmStep
  <2>3. TasksFit'
    <3>1. task' \in [Slot -> Task \cup {Idle}]
      BY <1>1, <2>1 DEF TasksFit
    <3>2. \A s \in Slot : ~ At(s, "prompt")'
      BY <2>1 DEF At
    <3> QED BY <3>1, <3>2 DEF TasksFit
  <2> QED BY <2>1, <2>2, <2>3, Together
<1>4. CASE StartBot
  <2>1. /\ UNCHANGED <<by, status, receipt, topup, payer, task>> /\ up' \in BOOLEAN /\ FsmStep
    BY <1>4 DEF StartBot, orders, topups, FsmStep
  <2>2. OrdersFit' /\ Stable /\ TopUpsFit'
    BY <1>1, <2>1, OrdersStay DEF OrdersFit, TopUpsFit
  <2> QED BY <1>1, <2>1, <2>2, TasksStay, Together
<1> QED BY <1>2, <1>3, <1>4

-----------------------------------------------------------------------------
(* The theorems.                                                              *)

\* Every step keeps the invariant and takes no decision back.
LEMMA NextKeeps ==
  ASSUME ConversationInv, [Next]_vars
  PROVE  ConversationInv' /\ Stable
<1>1. CASE UNCHANGED vars
  <2>1. UNCHANGED <<orders, topups, task, up>> /\ FsmStep
    BY <1>1 DEF vars, FsmStep
  <2> QED BY <2>1, OnlyConversation
<1>2. ASSUME NEW s \in Slot, Run(s)
      PROVE  ConversationInv' /\ Stable
  BY <1>2, PromptKeeps, ReadersKeep, WritersKeep, RejectKeeps DEF Run
<1> QED BY <1>1, <1>2, UpdateKeeps, MiniAppKeeps, OthersKeep DEF Next

\* The invariant holds in every state.
LEMMA InvariantHolds == Spec => []ConversationInv
<1>1. ASSUME Init
      PROVE  ConversationInv
  <2>1. FsmTypes /\ ReceiptHasPurpose
    BY <1>1, ConversationAssumption DEF Init, FsmTypes, ReceiptHasPurpose, State
  <2>2. OrdersFit /\ TopUpsFit /\ TasksFit
    BY <1>1 DEF Init, OrdersFit, TopUpsFit, TasksFit, At
  <2> QED BY <1>1, <2>1, <2>2 DEF Init, ConversationInv
<1> QED BY <1>1, NextKeeps, PTL DEF Spec

\* Every state is well formed: what a task is about to store is there.
THEOREM ConversationTypes == Spec => []TypeOK
<1>1. ConversationInv => TypeOK
  BY DEF ConversationInv, FsmTypes, OrdersFit, TopUpsFit, TasksFit, Decided, TypeOK
<1> QED BY <1>1, InvariantHolds, PTL

\* A conversation that waits for a receipt knows which order it is for, an order of the
\* same customer.
THEOREM ReceiptsHavePurpose == Spec => []ReceiptHasPurpose
<1>1. ConversationInv => ReceiptHasPurpose
  BY DEF ConversationInv
<1> QED BY <1>1, InvariantHolds, PTL

\* A decision on an order stands, whatever button or receipt comes late.
THEOREM DecisionsStand == Spec => DecisionStands
<1>1. ConversationInv /\ [Next]_vars
      => [\A o \in Order : status[o] \in {"approved", "rejected"} => status'[o] = status[o]]_vars
  BY NextKeeps DEF Stable, Decided
<1> QED BY <1>1, InvariantHolds, PTL DEF Spec, DecisionStands
=============================================================================
