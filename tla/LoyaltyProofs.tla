------------------------------ MODULE LoyaltyProofs ------------------------------
(* What holds of points and ledger for any number of customers, orders and      *)
(* handlers, and for any rules of the club.                                      *)
EXTENDS Loyalty, SequenceTheorems, SumTheorems, TLAPS

-----------------------------------------------------------------------------
(* The invariant.                                                             *)

StateTypes ==
  /\ points \in [User -> Nat] /\ earned \in [User -> Nat] /\ spent \in [User -> Nat]
  /\ ledger \in [User -> Seq(Entry)] /\ wallet \in [User -> Nat]

\* A handler that asks for the points of a purchase saw its order approved.
TasksFit ==
  /\ task \in [Worker -> Task \cup {Idle}]
  /\ \A w \in Worker, o \in Order :
       task[w] # Idle /\ task[w].pc \in {"check", "write"} /\ task[w].key = <<"purchase", o>>
       => status[o] = "approved"

StatusTypes == status \in [Order -> {"none", "pending", "approved", "rejected"}]

\* Points for a purchase are the points of an approved order.
PurchasesApproved == \A o \in Order : Recorded(<<"purchase", o>>) => status[o] = "approved"

LedgerInv == StateTypes /\ LedgerChain /\ EventOnce
LoyaltyInv == StatusTypes /\ TasksFit /\ LedgerInv /\ PurchasesApproved

-----------------------------------------------------------------------------
(* The rules give numbers.                                                    *)

\* A set of numbers that are bounded has a greatest one, which Max returns.
LEMMA GreatestOne ==
  ASSUME NEW N \in Nat, NEW S, S \subseteq 1..N, S # {}
  PROVE  Max(S) \in S
<1> DEFINE R == {ss \in Nat \X Nat : ss[1] < ss[2]}
           T == {n \in Nat : N - n \in S}
<1>1. IsWellFoundedOn(R, Nat)
  BY NatLessThanWellFounded DEF OpToRel
<1>2. \A m, n \in Nat : m < n => <<m, n>> \in R
  OBVIOUS
<1> HIDE DEF R
<1>3. \A x \in S : x \in Int /\ N - x \in Nat /\ N - (N - x) = x
  OBVIOUS
<1>4. T \subseteq Nat /\ T # {}
  BY <1>3
<1>5. PICK m \in T : \A n \in T : ~ (<<n, m>> \in R)
  BY <1>1, <1>4, WFMin
<1>6. m \in Nat /\ N - m \in S
  BY <1>5
<1>7. ASSUME NEW y \in S
      PROVE  N - m >= y
  <2>1. y \in Int /\ N - y \in T /\ N - y \in Nat
    BY <1>3
  <2>2. ~ (N - y < m)
    BY <1>2, <1>5, <1>6, <2>1
  <2> QED BY <1>6, <2>1, <2>2
<1> QED BY <1>6, <1>7 DEF Max

\* The points of a purchase are a number, which needs a multiplier that is one.
LEMMA PointsType ==
  ASSUME NEW paid \in Nat, NEW lifetime \in Nat
  PROVE  PurchasePoints(paid, lifetime) \in Int
<1> DEFINE reached == {i \in DOMAIN Tiers : Tiers[i].min <= lifetime}
<1>1. Len(Tiers) \in Nat /\ DOMAIN Tiers = 1..Len(Tiers)
  BY LoyaltyAssumption, LenProperties
<1>2. reached # {} => Max(reached) \in DOMAIN Tiers
  BY <1>1, GreatestOne
<1>3. \A i \in DOMAIN Tiers : Tiers[i].mult \in Nat
  <2>1. Tiers \in Seq([min : Nat, mult : Nat])
    BY LoyaltyAssumption
  <2>2. \A i \in DOMAIN Tiers : Tiers[i] \in [min : Nat, mult : Nat]
    BY <1>1, <2>1, ElementOfSeq
  <2> QED BY <2>2
<1>4. Multiplier(lifetime) \in Nat
  BY <1>2, <1>3 DEF Multiplier
<1> DEFINE m == Multiplier(lifetime)
           p == (paid * m) \div (Rate * 100)
<1> HIDE DEF m
<1>5. paid * m \in Nat /\ Rate * 100 \in Nat \ {0} /\ MaxPerOrder \in Int
  BY <1>4, LoyaltyAssumption DEF m
<1>6. p \in Int
  BY <1>5
<1> QED BY <1>5, <1>6 DEF PurchasePoints, m

\* What was paid for an order is a number.
LEMMA PaidType == ASSUME NEW o \in Order PROVE PaidFor(o) \in Nat
<1>1. Final[o] \in Nat /\ Shipping[o] \in Nat /\ Base[o] \in Nat
  BY LoyaltyAssumption
<1> QED BY <1>1 DEF PaidFor

-----------------------------------------------------------------------------
(* The ledger.                                                                *)

\* One more entry, with the balance it leads to and a key that is new or none: the
\* entries remain a chain, and no event is in it twice.
LEMMA Appended ==
  ASSUME LedgerInv, NEW u \in User, NEW kind \in Kind, NEW amount \in Int, NEW key \in Key,
         NEW balance \in Nat, balance = points[u] + amount,
         key = NoKey \/ ~Recorded(key),
         points' = [points EXCEPT ![u] = balance],
         ledger' = [ledger EXCEPT ![u] = Append(@,
           [kind |-> kind, amount |-> amount, after |-> balance, key |-> key])]
  PROVE  /\ points' \in [User -> Nat] /\ ledger' \in [User -> Seq(Entry)]
         /\ LedgerChain' /\ EventOnce'
         /\ \A k : Recorded(k)' => k = key \/ Recorded(k)
<1> DEFINE e == [kind |-> kind, amount |-> amount, after |-> balance, key |-> key]
           n == Len(ledger[u])
<1>1. e \in Entry /\ e.amount = amount /\ e.after = balance /\ e.key = key
  BY DEF Entry
<1>2. ledger[u] \in Seq(Entry) /\ points[u] \in Nat
  BY DEF LedgerInv, StateTypes
<1>3. ledger'[u] = Append(ledger[u], e) /\ \A v \in User : v # u => ledger'[v] = ledger[v]
  BY DEF LedgerInv, StateTypes
<1> HIDE DEF e
<1>4. /\ ledger'[u] \in Seq(Entry) /\ Len(ledger'[u]) = n + 1
      /\ \A i \in 1..n : ledger'[u][i] = ledger[u][i]
      /\ ledger'[u][n + 1] = e
  BY <1>1, <1>2, <1>3, AppendProperties
<1>5. points' \in [User -> Nat] /\ ledger' \in [User -> Seq(Entry)]
  BY <1>1, <1>4 DEF LedgerInv, StateTypes, e
<1>6. n \in Nat /\ \A v \in User : Len(ledger[v]) \in Nat /\ DOMAIN ledger[v] = 1..Len(ledger[v])
  BY LenProperties DEF LedgerInv, StateTypes
<1>7. \A v \in User : DOMAIN ledger'[v] = 1..Len(ledger'[v])
  BY <1>5, LenProperties
<1>8. LedgerChain'
  <2> SUFFICES ASSUME NEW v \in User
               PROVE  /\ points'[v] = IF ledger'[v] = <<>> THEN 0
                                      ELSE ledger'[v][Len(ledger'[v])].after
                      /\ \A i \in 1..Len(ledger'[v]) :
                           ledger'[v][i].after =
                             ledger'[v][i].amount + IF i = 1 THEN 0 ELSE ledger'[v][i - 1].after
    BY DEF LedgerChain
  <2>1. /\ points[v] = IF ledger[v] = <<>> THEN 0 ELSE ledger[v][Len(ledger[v])].after
        /\ \A i \in 1..Len(ledger[v]) :
             ledger[v][i].after =
               ledger[v][i].amount + IF i = 1 THEN 0 ELSE ledger[v][i - 1].after
    BY DEF LedgerInv, LedgerChain
  <2>2. CASE v # u
    <3>1. points'[v] = points[v] /\ ledger'[v] = ledger[v]
      BY <1>3, <2>2 DEF LedgerInv, StateTypes
    <3> QED BY <2>1, <3>1
  <2>3. CASE v = u
    <3>1. points'[u] = balance
      BY DEF LedgerInv, StateTypes
    <3>2. ledger'[u] # <<>>
      BY <1>2, <1>3, <1>1, AppendProperties
    <3>3. points[u] = IF n = 0 THEN 0 ELSE ledger[u][n].after
      <4>1. ledger[u] = <<>> <=> n = 0
        BY <1>2, EmptySeq
      <4> QED BY <2>1, <2>3, <4>1
    <3>4. ASSUME NEW i \in 1..(n + 1)
          PROVE  ledger'[u][i].after =
                   ledger'[u][i].amount + IF i = 1 THEN 0 ELSE ledger'[u][i - 1].after
      <4>1. CASE i = n + 1
        <5>1. n # 0 => i - 1 \in 1..n /\ i - 1 = n /\ i # 1
          BY <1>6, <4>1
        <5>2. balance = amount + IF n = 0 THEN 0 ELSE ledger[u][n].after
          BY <1>2, <3>3
        <5> QED BY <1>1, <1>4, <1>6, <4>1, <5>1, <5>2
      <4>2. CASE i # n + 1
        <5>1. i \in 1..n /\ (i # 1 => i - 1 \in 1..n)
          BY <1>6, <4>2
        <5> QED BY <1>4, <2>1, <2>3, <5>1
      <4> QED BY <4>1, <4>2
    <3> QED BY <1>1, <1>4, <2>3, <3>1, <3>2, <3>4
  <2> QED BY <2>2, <2>3
<1>9. ASSUME NEW k, NEW v \in User, NEW i \in 1..Len(ledger'[v]), ledger'[v][i].key = k
      PROVE  \/ v = u /\ i = n + 1 /\ k = key
             \/ i \in 1..Len(ledger[v]) /\ ledger'[v][i] = ledger[v][i] /\ Recorded(k)
  <2>1. CASE v = u /\ i = n + 1
    BY <1>1, <1>4, <1>9, <2>1
  <2>2. CASE ~ (v = u /\ i = n + 1)
    <3>1. i \in 1..Len(ledger[v]) /\ ledger'[v][i] = ledger[v][i]
      BY <1>3, <1>4, <1>6, <2>2
    <3>2. ledger[v][i] \in Entries(v)
      BY <1>6, <3>1 DEF Entries
    <3> QED BY <1>9, <3>1, <3>2 DEF Recorded
  <2> QED BY <2>1, <2>2
<1>10. \A k : Recorded(k)' => k = key \/ Recorded(k)
  <2> SUFFICES ASSUME NEW k, NEW v \in User, NEW i \in DOMAIN ledger'[v], ledger'[v][i].key = k
               PROVE  k = key \/ Recorded(k)
    BY DEF Recorded, Entries
  <2> QED BY <1>7, <1>9
<1>11. EventOnce'
  <2> SUFFICES ASSUME NEW v \in User, NEW w \in User,
                      NEW i \in 1..Len(ledger'[v]), NEW j \in 1..Len(ledger'[w]),
                      ledger'[v][i].key = ledger'[w][j].key, ledger'[v][i].key # NoKey
               PROVE  v = w /\ i = j
    BY DEF EventOnce
  <2>1. CASE v = u /\ i = n + 1
    BY <1>9, <1>1, <1>4, <2>1
  <2>2. CASE w = u /\ j = n + 1
    BY <1>9, <1>1, <1>4, <2>2
  <2>3. CASE ~ (v = u /\ i = n + 1) /\ ~ (w = u /\ j = n + 1)
    <3>1. /\ i \in 1..Len(ledger[v]) /\ ledger'[v][i] = ledger[v][i]
          /\ j \in 1..Len(ledger[w]) /\ ledger'[w][j] = ledger[w][j]
      BY <1>9, <2>3
    <3> QED BY <3>1 DEF LedgerInv, EventOnce
  <2> QED BY <2>1, <2>2, <2>3
<1> QED BY <1>5, <1>8, <1>10, <1>11

-----------------------------------------------------------------------------
(* The tasks.                                                                 *)

\* What a handler may turn to next.
LEMMA Tasks ==
  \A p \in {"approved", "cancel", "rejected"}, o \in Order : [pc |-> p, order |-> o] \in Task
BY DEF Task

\* What is asked for, looked up first or not.
LEMMA RequestType ==
  ASSUME NEW u \in User, NEW kind \in Kind, NEW key \in Key, NEW amount \in Int, NEW t,
         \/ t = Request(u, kind, key, amount)
         \/ t = [Request(u, kind, key, amount) EXCEPT !.pc = "write"]
  PROVE  t \in Task /\ t.key = key
BY DEF Task, Request

\* A handler at a point has what that point needs, and moves on to what the next needs.
LEMMA TaskShapes ==
  ASSUME TasksFit, NEW w \in Worker, task[w] # Idle
  PROVE  /\ task[w] \in Task
         /\ task[w].pc \in {"approved", "cancel", "rejected"} => task[w].order \in Order
         /\ task[w].pc = "cancel" => [task[w] EXCEPT !.pc = "rejected"] \in Task
         /\ task[w].pc \in {"check", "write"} =>
              /\ task[w].user \in User /\ task[w].kind \in Kind
              /\ task[w].key \in Key /\ task[w].amount \in Int
              /\ [task[w] EXCEPT !.pc = "write"] \in Task
              /\ [task[w] EXCEPT !.pc = "write"].key = task[w].key
<1> DEFINE t == task[w]
<1>1. t \in Task
  BY DEF TasksFit
<1> HIDE DEF t
<1>2. CASE t \in [pc : {"approved", "cancel", "rejected"}, order : Order]
  <2>1. t.pc \in {"approved", "cancel", "rejected"} /\ t.order \in Order
    BY <1>2
  <2>2. [t EXCEPT !.pc = "rejected"] \in Task
    BY <1>2 DEF Task
  <2> QED BY <1>1, <2>1, <2>2 DEF t
<1>3. CASE t \in [pc : {"check", "write"}, user : User, kind : Kind, key : Key, amount : Int]
  <2>1. /\ t.pc \in {"check", "write"} /\ t.user \in User /\ t.kind \in Kind
        /\ t.key \in Key /\ t.amount \in Int
    BY <1>3
  <2>2. [t EXCEPT !.pc = "write"] \in Task /\ [t EXCEPT !.pc = "write"].key = t.key
    BY <1>3 DEF Task
  <2> QED BY <1>1, <2>1, <2>2 DEF t
<1> QED BY <1>1, <1>2, <1>3 DEF Task

\* A handler moves on, and at most decides on an order that is not decided: as long as
\* it asks for no points of an order that is not approved, all remains as it was.
LEMMA MovesOn ==
  ASSUME LoyaltyInv, NEW w \in Worker, NEW t \in Task \cup {Idle}, Go(w, t), UNCHANGED state,
         StatusTypes', \A o \in Order : status[o] = "approved" => status'[o] = "approved",
         \A o \in Order : t # Idle /\ t.pc \in {"check", "write"} /\ t.key = <<"purchase", o>>
                          => status[o] = "approved"
  PROVE  LoyaltyInv'
<1>1. TasksFit'
  <2>1. task' \in [Worker -> Task \cup {Idle}] /\ task'[w] = t
        /\ \A r \in Worker : r # w => task'[r] = task[r]
    BY DEF LoyaltyInv, TasksFit, Go
  <2> QED BY <2>1 DEF LoyaltyInv, TasksFit
<1>2. LedgerInv'
  BY DEF LoyaltyInv, LedgerInv, StateTypes, LedgerChain, EventOnce, state
<1>3. PurchasesApproved'
  BY DEF LoyaltyInv, PurchasesApproved, Recorded, Entries, state
<1> QED BY <1>1, <1>2, <1>3 DEF LoyaltyInv

\* A decision: the handler goes on with the order.
LEMMA DecideFits ==
  ASSUME LoyaltyInv, NEW w \in Worker, NEW o \in Order, NEW v \in {"approved", "rejected"},
         status[o] # "approved", status' = [status EXCEPT ![o] = v],
         NEW t \in Task, t.pc \in {"approved", "cancel", "rejected"}, Go(w, t), UNCHANGED state
  PROVE  LoyaltyInv'
<1>1. StatusTypes' /\ \A p \in Order : status[p] = "approved" => status'[p] = "approved"
  BY DEF LoyaltyInv, StatusTypes
<1> QED BY <1>1, MovesOn

\* A handler that moves on without a decision.
LEMMA WaitsFit ==
  ASSUME LoyaltyInv, NEW w \in Worker, NEW t \in Task \cup {Idle}, Go(w, t),
         UNCHANGED <<status, state>>,
         \A o \in Order : t # Idle /\ t.pc \in {"check", "write"} /\ t.key = <<"purchase", o>>
                          => status[o] = "approved"
  PROVE  LoyaltyInv'
<1>1. StatusTypes' /\ \A p \in Order : status[p] = "approved" => status'[p] = "approved"
  BY DEF LoyaltyInv, StatusTypes
<1> QED BY <1>1, MovesOn

-----------------------------------------------------------------------------
(* The actions.                                                               *)

\* What decides on orders.
DecideStep(w, o) ==
  Approve(w, o) \/ BuyWithWallet(w, o) \/ Replay(w, o) \/ Reject(w, o) \/ Cancel(w, o)

LEMMA DecideStepFits ==
  ASSUME LoyaltyInv, NEW w \in Worker, NEW o \in Order, DecideStep(w, o)
  PROVE  LoyaltyInv'
<1>1. \A p \in {"approved", "cancel", "rejected"} :
        [pc |-> p, order |-> o] \in Task /\ [pc |-> p, order |-> o].pc = p
  BY Tasks
<1>2. CASE Approve(w, o)
  <2>1. status[o] # "approved"
    BY <1>2 DEF Approve, Undecided
  <2> QED BY <1>1, <1>2, <2>1, DecideFits DEF Approve
<1>3. CASE BuyWithWallet(w, o)
  <2>1. status[o] # "approved"
    BY <1>3 DEF BuyWithWallet
  <2> QED BY <1>1, <1>3, <2>1, DecideFits DEF BuyWithWallet
<1>4. CASE Reject(w, o)
  <2>1. status[o] # "approved"
    BY <1>4 DEF Reject, Undecided
  <2> QED BY <1>1, <1>4, <2>1, DecideFits DEF Reject
<1>5. CASE Replay(w, o) \/ Cancel(w, o)
  BY <1>1, <1>5, WaitsFit DEF Replay, Cancel
<1> QED BY <1>2, <1>3, <1>4, <1>5 DEF DecideStep

LEMMA BuyElsewhereFits ==
  ASSUME LoyaltyInv, NEW o \in Order, BuyWithWalletElsewhere(o)
  PROVE  LoyaltyInv'
<1>1. StatusTypes' /\ \A p \in Order : status[p] = "approved" => status'[p] = "approved"
  BY DEF LoyaltyInv, StatusTypes, BuyWithWalletElsewhere
<1>2. UNCHANGED <<state, task>>
  BY DEF BuyWithWalletElsewhere
<1>3. TasksFit'
  BY <1>1, <1>2 DEF LoyaltyInv, TasksFit
<1>4. LedgerInv'
  BY <1>2 DEF LoyaltyInv, LedgerInv, StateTypes, LedgerChain, EventOnce, state
<1>5. PurchasesApproved'
  BY <1>1, <1>2 DEF LoyaltyInv, PurchasesApproved, Recorded, Entries, state
<1> QED BY <1>1, <1>3, <1>4, <1>5 DEF LoyaltyInv

LEMMA RejectCancelledFits ==
  ASSUME LoyaltyInv, NEW w \in Worker, RejectCancelled(w)
  PROVE  LoyaltyInv'
<1> DEFINE o == task[w].order
           t == [task[w] EXCEPT !.pc = "rejected"]
<1>1. task[w] # Idle /\ task[w].pc = "cancel"
  BY DEF RejectCancelled, At
<1>2. o \in Order /\ t \in Task
  BY <1>1, TaskShapes DEF LoyaltyInv
<1>3. t.pc = "rejected"
  <2>1. task[w] \in Task
    BY <1>1, TaskShapes DEF LoyaltyInv
  <2> QED BY <2>1 DEF Task
<1>4. /\ status' = IF Undecided(o) THEN [status EXCEPT ![o] = "rejected"] ELSE status
      /\ Go(w, t) /\ UNCHANGED state
  BY DEF RejectCancelled
<1> HIDE DEF o, t
<1>5. CASE Undecided(o)
  BY <1>2, <1>3, <1>4, <1>5, DecideFits DEF Undecided
<1>6. CASE ~Undecided(o)
  BY <1>2, <1>3, <1>4, <1>6, WaitsFit
<1> QED BY <1>5, <1>6

\* The points of a purchase are asked for while the order is approved.
LEMMA AwardPurchaseFits ==
  ASSUME LoyaltyInv, NEW w \in Worker, AwardPurchase(w)
  PROVE  LoyaltyInv'
<1> DEFINE o == task[w].order
           p == PurchasePoints(PaidFor(o), earned[Buyer[o]])
           key == <<"purchase", o>>
           t == Request(Buyer[o], "PURCHASE", key, p)
<1>1. o \in Order
  BY TaskShapes DEF LoyaltyInv, AwardPurchase, At
<1>2. Buyer[o] \in User /\ earned[Buyer[o]] \in Nat
  BY <1>1, LoyaltyAssumption DEF LoyaltyInv, LedgerInv, StateTypes
<1>3. p \in Int
  BY <1>1, <1>2, PaidType, PointsType
<1>4. Go(w, IF status[o] # "approved" \/ p <= 0 THEN Idle ELSE t) /\ UNCHANGED <<status, state>>
  BY DEF AwardPurchase
<1>5. key \in Key /\ "PURCHASE" \in Kind
  BY <1>1 DEF Key, Kind
<1> HIDE DEF p
<1>6. t \in Task /\ t.key = key
  BY <1>2, <1>3, <1>5, RequestType
<1>7. CASE status[o] # "approved" \/ p <= 0
  BY <1>4, <1>7, WaitsFit
<1>8. CASE ~ (status[o] # "approved" \/ p <= 0)
  <2>1. \A q \in Order : t.key = <<"purchase", q>> => status[q] = "approved"
    BY <1>6, <1>8
  <2>2. Go(w, t)
    BY <1>4, <1>8
  <2> HIDE DEF t
  <2> QED BY <1>4, <1>6, <2>1, <2>2, WaitsFit
<1> QED BY <1>7, <1>8

\* Any other request is about no purchase.
LEMMA RequestFits ==
  ASSUME LoyaltyInv, NEW w \in Worker, NEW u \in User, NEW kind \in Kind, NEW key \in Key,
         NEW amount \in Int, \A o \in Order : key # <<"purchase", o>>,
         NEW t, t = Request(u, kind, key, amount)
                \/ t = [Request(u, kind, key, amount) EXCEPT !.pc = "write"],
         Go(w, t), UNCHANGED <<status, state>>
  PROVE  LoyaltyInv'
<1>1. t \in Task /\ t.key = key
  BY RequestType
<1> QED BY <1>1, WaitsFit

LEMMA ReversePurchaseFits ==
  ASSUME LoyaltyInv, NEW w \in Worker, ReversePurchase(w)
  PROVE  LoyaltyInv'
<1> DEFINE o == task[w].order
           u == Buyer[o]
           award == {e \in Entries(u) : e.key = <<"purchase", o>>}
           paid == (CHOOSE e \in award : TRUE).amount
<1>1. o \in Order /\ u \in User
  BY TaskShapes, LoyaltyAssumption DEF LoyaltyInv, ReversePurchase, At
<1>2. /\ Go(w, IF award = {} THEN Idle ELSE Request(u, "PURCHASE_REFUND", <<"refund", o>>, -paid))
      /\ UNCHANGED <<status, state>>
  BY DEF ReversePurchase
<1>3. award # {} => paid \in Int
  <2>1. ledger[u] \in Seq(Entry)
    BY <1>1 DEF LoyaltyInv, LedgerInv, StateTypes
  <2>2. \A i \in DOMAIN ledger[u] : ledger[u][i] \in Entry
    BY <2>1, LenProperties, ElementOfSeq
  <2>3. award \subseteq Entry
    BY <2>2 DEF Entries
  <2>4. award # {} => (CHOOSE e \in award : TRUE) \in award
    OBVIOUS
  <2>5. \A e \in Entry : e.amount \in Int
    BY DEF Entry
  <2> QED BY <2>3, <2>4, <2>5
<1>4. <<"refund", o>> \in Key /\ "PURCHASE_REFUND" \in Kind
      /\ \A q \in Order : <<"refund", o>> # <<"purchase", q>>
  BY <1>1 DEF Key, Kind
<1>5. CASE award = {}
  BY <1>2, <1>5, WaitsFit
<1>6. CASE award # {}
  <2>1. -paid \in Int
    BY <1>3, <1>6
  <2>2. Go(w, Request(u, "PURCHASE_REFUND", <<"refund", o>>, -paid))
    BY <1>2, <1>6
  <2> HIDE DEF paid, u, o
  <2> QED BY <1>1, <1>2, <1>4, <2>1, <2>2, RequestFits
<1> QED BY <1>5, <1>6

\* Requests by customers and administrators.
LEMMA AskFits ==
  ASSUME LoyaltyInv, NEW w \in Worker,
         \/ \E u \in User : Register(w, u) \/ \E d \in Corrections : Adjust(w, u, d)
         \/ \E p \in Invitations : Refer(w, p)
  PROVE  LoyaltyInv'
<1>1. ASSUME NEW u \in User, Register(w, u)
      PROVE  LoyaltyInv'
  <2>1. <<"registration", u>> \in Key /\ "REGISTRATION_BONUS" \in Kind /\ RegBonus \in Int
        /\ \A q \in Order : <<"registration", u>> # <<"purchase", q>>
    BY LoyaltyAssumption DEF Key, Kind
  <2> QED BY <1>1, <2>1, RequestFits DEF Register
<1>2. ASSUME NEW u \in User, NEW d \in Corrections, Adjust(w, u, d)
      PROVE  LoyaltyInv'
  <2>1. NoKey \in Key /\ "ADMIN_ADJUSTMENT" \in Kind /\ d \in Int
        /\ \A q \in Order : NoKey # <<"purchase", q>>
    BY LoyaltyAssumption DEF Key, Kind, NoKey
  <2> QED BY <1>2, <2>1, RequestFits DEF Adjust
<1>3. ASSUME NEW p \in Invitations, Refer(w, p)
      PROVE  LoyaltyInv'
  <2>1. <<"referral", p>> \in Key /\ "REFERRAL_BONUS" \in Kind /\ RefBonus \in Int
        /\ p[1] \in User /\ \A q \in Order : <<"referral", p>> # <<"purchase", q>>
    BY LoyaltyAssumption DEF Key, Kind
  <2> QED BY <1>3, <2>1, RequestFits DEF Refer
<1> QED BY <1>1, <1>2, <1>3

LEMMA CheckFits ==
  ASSUME LoyaltyInv, NEW w \in Worker, Check(w)
  PROVE  LoyaltyInv'
<1> DEFINE t == [task[w] EXCEPT !.pc = "write"]
<1>1. task[w] # Idle /\ task[w].pc = "check" /\ UNCHANGED <<status, state>>
  BY DEF Check, At
<1>2. t \in Task /\ t.key = task[w].key
  BY <1>1, TaskShapes DEF LoyaltyInv
<1>3. \A o \in Order : t.key = <<"purchase", o>> => status[o] = "approved"
  BY <1>1, <1>2 DEF LoyaltyInv, TasksFit
<1>4. Go(w, Idle) \/ Go(w, t)
  BY DEF Check
<1> HIDE DEF t
<1> QED BY <1>1, <1>2, <1>3, <1>4, WaitsFit

\* The transaction adds an entry with a key nobody has, or nothing.
LEMMA WriteFits ==
  ASSUME LoyaltyInv, NEW w \in Worker, Write(w)
  PROVE  LoyaltyInv'
<1> DEFINE u == task[w].user
           amount == task[w].amount
           key == task[w].key
           kind == task[w].kind
           balance == points[u] + amount
<1>1. task[w] # Idle /\ task[w].pc = "write" /\ Go(w, Idle) /\ UNCHANGED status
  BY DEF Write, At
<1>2. u \in User /\ kind \in Kind /\ key \in Key /\ amount \in Int
  BY <1>1, TaskShapes DEF LoyaltyInv
<1>3. points[u] \in Nat /\ earned[u] \in Nat
  BY <1>2 DEF LoyaltyInv, LedgerInv, StateTypes
<1>4. CASE balance < 0 \/ Duplicate(key)
  <2>1. UNCHANGED state
    BY <1>4 DEF Write
  <2> QED BY <1>1, <2>1, WaitsFit
<1>5. CASE ~ (balance < 0 \/ Duplicate(key))
  <2>1. /\ points' = [points EXCEPT ![u] = balance]
        /\ earned' = [earned EXCEPT ![u] = @ + (IF amount > 0 THEN amount ELSE 0)]
        /\ ledger' = [ledger EXCEPT ![u] = Append(@,
             [kind |-> kind, amount |-> amount, after |-> balance, key |-> key])]
        /\ UNCHANGED <<spent, wallet>>
    BY <1>5 DEF Write
  <2>2. balance \in Nat
    BY <1>2, <1>3, <1>5
  <2>3. \A o \in Order : key = <<"purchase", o>> => status[o] = "approved"
    BY <1>1 DEF LoyaltyInv, TasksFit
  <2> HIDE DEF u, amount, key, kind
  <2>4. key = NoKey \/ ~Recorded(key)
    BY <1>5 DEF Duplicate
  <2>5. LedgerInv
    BY DEF LoyaltyInv
  <2>6. balance = points[u] + amount
    OBVIOUS
  <2> HIDE DEF balance
  <2>7. /\ points' \in [User -> Nat] /\ ledger' \in [User -> Seq(Entry)]
        /\ LedgerChain' /\ EventOnce'
        /\ \A k : Recorded(k)' => k = key \/ Recorded(k)
    BY <1>2, <2>1, <2>2, <2>4, <2>5, <2>6, Appended
  <2>8. earned' \in [User -> Nat]
    BY <1>2, <1>3, <2>1 DEF LoyaltyInv, LedgerInv, StateTypes
  <2>9. LedgerInv'
    BY <2>1, <2>7, <2>8 DEF LoyaltyInv, LedgerInv, StateTypes
  <2>10. PurchasesApproved'
    BY <1>1, <2>3, <2>7 DEF LoyaltyInv, PurchasesApproved
  <2>11. StatusTypes' /\ TasksFit'
    BY <1>1 DEF LoyaltyInv, StatusTypes, TasksFit, Go
  <2> QED BY <2>9, <2>10, <2>11 DEF LoyaltyInv
<1> QED BY <1>4, <1>5

\* Points are changed into credit; the entry has no key.
LEMMA RedeemFits ==
  ASSUME LoyaltyInv, NEW u \in User, NEW n \in {1, 2}, Redeem(u, n)
  PROVE  LoyaltyInv'
<1> DEFINE p == n * Lot
           credit == n * LotValue
<1>1. p \in Nat /\ credit \in Nat
  BY LoyaltyAssumption
<1>2. /\ points' = [points EXCEPT ![u] = @ - p]
      /\ spent' = [spent EXCEPT ![u] = @ + p]
      /\ wallet' = [wallet EXCEPT ![u] = @ + credit]
      /\ ledger' = [ledger EXCEPT ![u] = Append(@,
           [kind |-> "POINTS_REDEEM", amount |-> -p, after |-> points[u] - p, key |-> NoKey])]
      /\ UNCHANGED <<status, earned, task>> /\ points[u] >= p
  BY DEF Redeem, Affordable
<1> HIDE DEF p, credit
<1> DEFINE balance == points[u] - p
           amount == -p
<1>3. LedgerInv /\ points[u] \in Nat /\ spent[u] \in Nat /\ wallet[u] \in Nat
  BY DEF LoyaltyInv, LedgerInv, StateTypes
<1>4. balance \in Nat /\ amount \in Int /\ balance = points[u] + amount
      /\ "POINTS_REDEEM" \in Kind /\ NoKey \in Key
  BY <1>1, <1>2, <1>3 DEF Kind, Key
<1>5. /\ points' = [points EXCEPT ![u] = balance]
      /\ ledger' = [ledger EXCEPT ![u] = Append(@,
           [kind |-> "POINTS_REDEEM", amount |-> amount, after |-> balance, key |-> NoKey])]
  BY <1>2, <1>3 DEF LedgerInv, StateTypes
<1> HIDE DEF balance, amount
<1>6. /\ points' \in [User -> Nat] /\ ledger' \in [User -> Seq(Entry)]
      /\ LedgerChain' /\ EventOnce'
      /\ \A k : Recorded(k)' => k = NoKey \/ Recorded(k)
  BY <1>3, <1>4, <1>5, Appended
<1>7. spent' \in [User -> Nat] /\ wallet' \in [User -> Nat]
  BY <1>1, <1>2, <1>3 DEF LedgerInv, StateTypes
<1>8. LedgerInv'
  BY <1>2, <1>3, <1>6, <1>7 DEF LedgerInv, StateTypes
<1>9. PurchasesApproved'
  <2>1. \A o \in Order : NoKey # <<"purchase", o>>
    BY DEF NoKey
  <2> QED BY <1>2, <1>6, <2>1 DEF LoyaltyInv, PurchasesApproved
<1>10. StatusTypes' /\ TasksFit'
  BY <1>2 DEF LoyaltyInv, StatusTypes, TasksFit
<1> QED BY <1>8, <1>9, <1>10 DEF LoyaltyInv

-----------------------------------------------------------------------------
(* All together.                                                              *)

LEMMA InitHolds == Init => LoyaltyInv
<1> SUFFICES ASSUME Init
             PROVE  LoyaltyInv
  OBVIOUS
<1>1. \A u \in User : ledger[u] = <<>> /\ Len(ledger[u]) = 0 /\ DOMAIN ledger[u] = {}
  BY DEF Init
<1>2. StateTypes
  <2>1. <<>> \in Seq(Entry)
    BY EmptySeq
  <2> QED BY <2>1 DEF Init, StateTypes
<1>3. LedgerInv
  <2>1. LedgerChain
    BY <1>1 DEF Init, LedgerChain
  <2>2. EventOnce
    BY <1>1 DEF EventOnce
  <2> QED BY <1>2, <2>1, <2>2 DEF LedgerInv
<1>4. PurchasesApproved
  BY <1>1 DEF PurchasesApproved, Recorded, Entries
<1>5. StatusTypes /\ TasksFit
  BY DEF Init, StatusTypes, TasksFit
<1> QED BY <1>3, <1>4, <1>5 DEF LoyaltyInv

LEMMA NextHolds ==
  ASSUME LoyaltyInv, [Next]_vars
  PROVE  LoyaltyInv'
<1>1. CASE UNCHANGED vars
  <2>1. UNCHANGED <<status, state, task>>
    BY <1>1 DEF vars, state
  <2>2. StatusTypes' /\ TasksFit'
    BY <2>1 DEF LoyaltyInv, StatusTypes, TasksFit
  <2>3. LedgerInv'
    BY <2>1 DEF LoyaltyInv, LedgerInv, StateTypes, LedgerChain, EventOnce, state
  <2>4. PurchasesApproved'
    BY <2>1 DEF LoyaltyInv, PurchasesApproved, Recorded, Entries, state
  <2> QED BY <2>2, <2>3, <2>4 DEF LoyaltyInv
<1>2. ASSUME NEW w \in Worker, Run(w)
      PROVE  LoyaltyInv'
  BY <1>2, RejectCancelledFits, AwardPurchaseFits, ReversePurchaseFits, CheckFits, WriteFits
     DEF Run
<1>3. ASSUME NEW w \in Mortal, Crash(w)
      PROVE  LoyaltyInv'
  <2>1. w \in Worker
    BY LoyaltyAssumption
  <2> QED BY <1>3, <2>1, WaitsFit DEF Crash
<1>4. ASSUME NEW w \in Worker, NEW o \in Order,
             \/ OrderApprove(w, o) \/ BaleOrderApprove(w, o) \/ PanelApprove(w, o)
             \/ RunCheckout(w, o) \/ CreateOrder(w, o) \/ Replay(w, o)
             \/ OrderReject(w, o) \/ BaleOrderReject(w, o) \/ PanelReject(w, o) \/ Cancel(w, o)
      PROVE  LoyaltyInv'
  <2>1. DecideStep(w, o)
    BY <1>4 DEF DecideStep, OrderApprove, BaleOrderApprove, PanelApprove, RunCheckout,
                CreateOrder, OrderReject, BaleOrderReject, PanelReject
  <2> QED BY <2>1, DecideStepFits
<1>5. ASSUME NEW o \in Order, CartCheckout(o) \/ BaleCheckout(o)
      PROVE  LoyaltyInv'
  BY <1>5, BuyElsewhereFits DEF CartCheckout, BaleCheckout
<1>6. ASSUME NEW w \in Worker, NEW u \in User,
             \/ Start(w, u) \/ BaleStart(w, u)
             \/ \E d \in Corrections : AdjustByHand(w, u, d) \/ PanelAdjust(w, u, d)
      PROVE  LoyaltyInv'
  BY <1>6, AskFits DEF Start, BaleStart, AdjustByHand, PanelAdjust
<1>7. ASSUME NEW w \in Worker, NEW p \in Invitations, Refer(w, p)
      PROVE  LoyaltyInv'
  BY <1>7, AskFits
<1>8. ASSUME NEW u \in User, NEW n \in {1, 2}, RedeemConfirmed(u, n) \/ BaleRedeem(u, n)
      PROVE  LoyaltyInv'
  BY <1>8, RedeemFits DEF RedeemConfirmed, BaleRedeem
<1> QED BY <1>1, <1>2, <1>3, <1>4, <1>5, <1>6, <1>7, <1>8 DEF Next

-----------------------------------------------------------------------------
(* The theorems.                                                              *)

\* LoyaltyInv holds in every state that is reached.
THEOREM Invariant == Spec => []LoyaltyInv
<1>1. LoyaltyInv /\ [Next]_vars => LoyaltyInv'
  BY NextHolds
<1> QED BY InitHolds, <1>1, PTL DEF Spec

\* Every state is well formed; no balance is ever negative.
THEOREM LoyaltyTypes == Spec => []TypeOK
<1>1. LoyaltyInv => TypeOK
  BY DEF LoyaltyInv, StatusTypes, TasksFit, LedgerInv, StateTypes, TypeOK
<1> QED BY Invariant, <1>1, PTL

\* The entries of a customer lead from zero to the balance, although handlers compute
\* what they write before the transactions of others.
THEOREM LedgerIsChain == Spec => []LedgerChain
<1>1. LoyaltyInv => LedgerChain
  BY DEF LoyaltyInv, LedgerInv
<1> QED BY Invariant, <1>1, PTL

\* No event is in the ledger twice, although its key is looked up outside the
\* transaction: the unique index has the last word.
THEOREM EventsCountOnce == Spec => []EventOnce
<1>1. LoyaltyInv => EventOnce
  BY DEF LoyaltyInv, LedgerInv
<1> QED BY Invariant, <1>1, PTL

\* An order that was rejected has no points, at whatever pace its handlers work: no
\* approval is ever taken back, and points are asked for after it.
THEOREM RejectedEarnNothing == Spec => []RejectedEarnsNothing
<1>1. LoyaltyInv => RejectedEarnsNothing
  BY DEF LoyaltyInv, PurchasesApproved, RejectedEarnsNothing
<1> QED BY Invariant, <1>1, PTL

-----------------------------------------------------------------------------
(* The state is the ledger summed up.                                         *)

\* Points are changed into credit by a transaction of its own, never by a request.
RequestsSpendNothing ==
  \A w \in Worker :
    task[w] # Idle /\ task[w].pc \in {"check", "write"} => task[w].kind # "POINTS_REDEEM"

SumsInv == StateIsLedger /\ RequestsSpendNothing

\* One more entry adds its amount to what the ledger adds up to.
LEMMA SumsGrow ==
  ASSUME NEW l \in Seq(Entry), NEW e \in Entry
  PROVE  /\ SumFunctionOnSet(Amounts(Append(l, e)), DOMAIN Append(l, e))
              = SumFunctionOnSet(Amounts(l), DOMAIN l) + e.amount
         /\ SumFunctionOnSet(Amounts(Append(l, e)), Gains(Append(l, e)))
              = SumFunctionOnSet(Amounts(l), Gains(l)) + (IF e.amount > 0 THEN e.amount ELSE 0)
         /\ SumFunctionOnSet(Amounts(Append(l, e)), Redemptions(Append(l, e)))
              = SumFunctionOnSet(Amounts(l), Redemptions(l))
                  + (IF e.kind = "POINTS_REDEEM" THEN e.amount ELSE 0)
<1> DEFINE k == Append(l, e)
           n == Len(l) + 1
           f == Amounts(l)
           g == Amounts(k)
<1>1. Len(l) \in Nat /\ DOMAIN l = 1..Len(l) /\ \A i \in DOMAIN l : l[i] \in Entry
  BY LenProperties, ElementOfSeq
<1>2. /\ k \in Seq(Entry) /\ Len(k) = n /\ k[n] = e
      /\ \A i \in 1..Len(l) : k[i] = l[i]
  BY AppendProperties
<1>3. DOMAIN k = 1..n
  BY <1>2, LenProperties
<1> HIDE DEF k
<1>4. n \notin DOMAIN l /\ DOMAIN k = DOMAIN l \cup {n} /\ n \in DOMAIN k
  BY <1>1, <1>3
<1>5. e.amount \in Int /\ \A x \in Entry : x.amount \in Int
  BY DEF Entry
<1>6. g[n] = e.amount /\ g[n] \in Int
  BY <1>2, <1>4, <1>5 DEF Amounts
<1>7. \A i \in DOMAIN l : f[i] \in Int /\ g[i] = f[i]
  BY <1>1, <1>2, <1>4, <1>5 DEF Amounts
<1>8. IsFiniteSet(DOMAIN l)
  BY <1>1, FS_Interval
<1> HIDE DEF f, g, n
<1>9. ASSUME NEW S, S \subseteq DOMAIN l
      PROVE  /\ SumFunctionOnSet(f, S) \in Int
             /\ SumFunctionOnSet(g, S) = SumFunctionOnSet(f, S)
             /\ SumFunctionOnSet(g, S \cup {n}) = SumFunctionOnSet(f, S) + e.amount
  <2>1. IsFiniteSet(S)
    BY <1>8, <1>9, FS_Subset
  <2>2. n \notin S /\ \A i \in S : f[i] \in Int /\ g[i] = f[i]
    BY <1>4, <1>7, <1>9
  <2>3. SumFunctionOnSet(f, S) \in Int
    BY <2>1, <2>2, SumType
  <2>4. SumFunctionOnSet(g, S) = SumFunctionOnSet(f, S)
    BY <2>1, <2>2, SumSame
  <2>5. SumFunctionOnSet(g, S \cup {n}) = SumFunctionOnSet(f, S) + g[n]
    BY <1>6, <2>1, <2>2, SumGrows
  <2> QED BY <1>6, <2>3, <2>4, <2>5
<1>10. SumFunctionOnSet(g, DOMAIN k) = SumFunctionOnSet(f, DOMAIN l) + e.amount
  <2>1. SumFunctionOnSet(g, DOMAIN l \cup {n}) = SumFunctionOnSet(f, DOMAIN l) + e.amount
    BY <1>9
  <2> QED BY <1>4, <2>1, Zenon
<1>11. Gains(l) \subseteq DOMAIN l /\ Redemptions(l) \subseteq DOMAIN l
  BY DEF Gains, Redemptions
<1>12. \A i \in DOMAIN l : k[i] = l[i]
  BY <1>1, <1>2
<1>13. Gains(k) = IF e.amount > 0 THEN Gains(l) \cup {n} ELSE Gains(l)
  BY <1>2, <1>4, <1>12 DEF Gains
<1>14. Redemptions(k) = IF e.kind = "POINTS_REDEEM" THEN Redemptions(l) \cup {n} ELSE Redemptions(l)
  BY <1>2, <1>4, <1>12 DEF Redemptions
<1>15. SumFunctionOnSet(g, Gains(k))
         = SumFunctionOnSet(f, Gains(l)) + (IF e.amount > 0 THEN e.amount ELSE 0)
  <2>1. /\ SumFunctionOnSet(f, Gains(l)) \in Int
        /\ SumFunctionOnSet(g, Gains(l)) = SumFunctionOnSet(f, Gains(l))
        /\ SumFunctionOnSet(g, Gains(l) \cup {n}) = SumFunctionOnSet(f, Gains(l)) + e.amount
    BY <1>9, <1>11
  <2>2. CASE e.amount > 0
    <3>1. Gains(k) = Gains(l) \cup {n}
      BY <1>13, <2>2
    <3>2. SumFunctionOnSet(g, Gains(k)) = SumFunctionOnSet(f, Gains(l)) + e.amount
      BY <2>1, <3>1, Zenon
    <3> QED BY <2>2, <3>2
  <2>3. CASE ~(e.amount > 0)
    <3>1. Gains(k) = Gains(l)
      BY <1>13, <2>3
    <3>2. SumFunctionOnSet(g, Gains(k)) = SumFunctionOnSet(f, Gains(l))
      BY <2>1, <3>1, Zenon
    <3> QED BY <2>1, <2>3, <3>2
  <2> QED BY <2>2, <2>3
<1>16. SumFunctionOnSet(g, Redemptions(k))
         = SumFunctionOnSet(f, Redemptions(l)) + (IF e.kind = "POINTS_REDEEM" THEN e.amount ELSE 0)
  <2>1. /\ SumFunctionOnSet(f, Redemptions(l)) \in Int
        /\ SumFunctionOnSet(g, Redemptions(l)) = SumFunctionOnSet(f, Redemptions(l))
        /\ SumFunctionOnSet(g, Redemptions(l) \cup {n})
             = SumFunctionOnSet(f, Redemptions(l)) + e.amount
    BY <1>9, <1>11
  <2>2. CASE e.kind = "POINTS_REDEEM"
    <3>1. Redemptions(k) = Redemptions(l) \cup {n}
      BY <1>14, <2>2
    <3>2. SumFunctionOnSet(g, Redemptions(k)) = SumFunctionOnSet(f, Redemptions(l)) + e.amount
      BY <2>1, <3>1, Zenon
    <3> QED BY <2>2, <3>2
  <2>3. CASE e.kind # "POINTS_REDEEM"
    <3>1. Redemptions(k) = Redemptions(l)
      BY <1>14, <2>3
    <3>2. SumFunctionOnSet(g, Redemptions(k)) = SumFunctionOnSet(f, Redemptions(l))
      BY <2>1, <3>1, Zenon
    <3> QED BY <2>1, <2>3, <3>2
  <2> QED BY <2>2, <2>3
<1> QED BY <1>10, <1>15, <1>16 DEF f, g, k

\* What the ledger l adds up to for a customer with these points, earned and spent.
Summed(l, p, e, s) ==
  /\ p = SumFunctionOnSet(Amounts(l), DOMAIN l)
  /\ e = SumFunctionOnSet(Amounts(l), Gains(l))
  /\ s = -SumFunctionOnSet(Amounts(l), Redemptions(l))

LEMMA Sums ==
  /\ StateIsLedger <=> \A u \in User : /\ Summed(ledger[u], points[u], earned[u], spent[u])
                                       /\ wallet[u] * Lot = spent[u] * LotValue
  /\ StateIsLedger' <=> \A u \in User : /\ Summed(ledger'[u], points'[u], earned'[u], spent'[u])
                                        /\ wallet'[u] * Lot = spent'[u] * LotValue
BY DEF StateIsLedger, Summed

\* Sums of a ledger that grows are sums of numbers.
LEMMA SummedNext ==
  ASSUME NEW l \in Seq(Entry), NEW e \in Entry, NEW p \in Nat, NEW a \in Nat, NEW s \in Nat,
         Summed(l, p, a, s)
  PROVE  Summed(Append(l, e), p + e.amount, a + (IF e.amount > 0 THEN e.amount ELSE 0),
                s - (IF e.kind = "POINTS_REDEEM" THEN e.amount ELSE 0))
<1> DEFINE all == SumFunctionOnSet(Amounts(l), DOMAIN l)
           gains == SumFunctionOnSet(Amounts(l), Gains(l))
           redeemed == SumFunctionOnSet(Amounts(l), Redemptions(l))
           all2 == SumFunctionOnSet(Amounts(Append(l, e)), DOMAIN Append(l, e))
           gains2 == SumFunctionOnSet(Amounts(Append(l, e)), Gains(Append(l, e)))
           redeemed2 == SumFunctionOnSet(Amounts(Append(l, e)), Redemptions(Append(l, e)))
<1>1. /\ all2 = all + e.amount
      /\ gains2 = gains + (IF e.amount > 0 THEN e.amount ELSE 0)
      /\ redeemed2 = redeemed + (IF e.kind = "POINTS_REDEEM" THEN e.amount ELSE 0)
  BY SumsGrow
<1>2. p = all /\ a = gains /\ s = -redeemed
  BY DEF Summed
<1>3. redeemed \in Int
  <2>1. Len(l) \in Nat /\ DOMAIN l = 1..Len(l) /\ \A i \in DOMAIN l : l[i] \in Entry
    BY LenProperties, ElementOfSeq
  <2>2. Redemptions(l) \subseteq DOMAIN l /\ IsFiniteSet(DOMAIN l)
    BY <2>1, FS_Interval DEF Redemptions
  <2>3. IsFiniteSet(Redemptions(l))
    BY <2>2, FS_Subset
  <2>4. \A i \in Redemptions(l) : Amounts(l)[i] \in Int
    BY <2>1, <2>2 DEF Amounts, Entry
  <2> QED BY <2>3, <2>4, SumType
<1>4. e.amount \in Int
  BY DEF Entry
<1> HIDE DEF all, gains, redeemed, all2, gains2, redeemed2
<1>5. /\ p + e.amount = all2
      /\ a + (IF e.amount > 0 THEN e.amount ELSE 0) = gains2
      /\ s - (IF e.kind = "POINTS_REDEEM" THEN e.amount ELSE 0) = -redeemed2
  BY <1>1, <1>2, <1>3, <1>4
<1> QED BY <1>5 DEF Summed, all2, gains2, redeemed2

\* The transaction of a request changes points, what was earned and the ledger together.
LEMMA WriteSums ==
  ASSUME LoyaltyInv, SumsInv, NEW w \in Worker, Write(w)
  PROVE  StateIsLedger'
<1> DEFINE u == task[w].user
           amount == task[w].amount
           key == task[w].key
           kind == task[w].kind
           balance == points[u] + amount
           e == [kind |-> kind, amount |-> amount, after |-> balance, key |-> key]
<1>1. task[w] # Idle /\ task[w].pc = "write"
  BY DEF Write, At
<1>2. u \in User /\ kind \in Kind /\ key \in Key /\ amount \in Int /\ kind # "POINTS_REDEEM"
  BY <1>1, TaskShapes DEF LoyaltyInv, SumsInv, RequestsSpendNothing
<1>3. points[u] \in Nat /\ earned[u] \in Nat /\ spent[u] \in Nat /\ ledger[u] \in Seq(Entry)
  BY <1>2 DEF LoyaltyInv, LedgerInv, StateTypes
<1>4. \A v \in User : Summed(ledger[v], points[v], earned[v], spent[v])
                        /\ wallet[v] * Lot = spent[v] * LotValue
  BY Sums DEF SumsInv
<1>5. CASE UNCHANGED state
  BY <1>4, <1>5, Sums DEF state
<1>6. CASE /\ ~(balance < 0)
           /\ points' = [points EXCEPT ![u] = balance]
           /\ earned' = [earned EXCEPT ![u] = @ + (IF amount > 0 THEN amount ELSE 0)]
           /\ ledger' = [ledger EXCEPT ![u] = Append(@, e)]
           /\ UNCHANGED <<spent, wallet>>
  <2> DEFINE gain == IF amount > 0 THEN amount ELSE 0
  <2>1. /\ e \in Entry /\ e.amount = amount /\ e.kind = kind
    BY <1>2, <1>3, <1>6 DEF Entry
  <2>2. /\ ledger'[u] = Append(ledger[u], e) /\ points'[u] = points[u] + amount
        /\ earned'[u] = earned[u] + gain
        /\ \A v \in User \ {u} : /\ ledger'[v] = ledger[v] /\ points'[v] = points[v]
                                 /\ earned'[v] = earned[v]
    BY <1>2, <1>6 DEF LoyaltyInv, LedgerInv, StateTypes
  <2> HIDE DEF e, amount, kind, u, key
  <2>3. Summed(Append(ledger[u], e), points[u] + e.amount,
               earned[u] + (IF e.amount > 0 THEN e.amount ELSE 0),
               spent[u] - (IF e.kind = "POINTS_REDEEM" THEN e.amount ELSE 0))
    BY <1>2, <1>3, <1>4, <2>1, SummedNext
  <2>4. spent[u] - (IF e.kind = "POINTS_REDEEM" THEN e.amount ELSE 0) = spent[u]
    BY <1>2, <1>3, <2>1
  <2>5. Summed(ledger'[u], points'[u], earned'[u], spent[u])
    BY <2>1, <2>2, <2>3, <2>4
  <2>6. \A v \in User : Summed(ledger'[v], points'[v], earned'[v], spent'[v])
                          /\ wallet'[v] * Lot = spent'[v] * LotValue
    BY <1>4, <1>6, <2>2, <2>5
  <2> QED BY <2>6, Sums
<1> QED BY <1>5, <1>6 DEF Write

\* A redemption changes points, what was spent, the wallet and the ledger together.
LEMMA RedeemSums ==
  ASSUME LoyaltyInv, SumsInv, NEW u \in User, NEW n \in {1, 2}, Redeem(u, n)
  PROVE  StateIsLedger'
<1> DEFINE p == n * Lot
           credit == n * LotValue
           e == [kind |-> "POINTS_REDEEM", amount |-> -p, after |-> points[u] - p, key |-> NoKey]
<1>1. p \in Nat /\ credit \in Nat /\ p > 0 /\ p * LotValue = credit * Lot /\ Lot \in Nat
      /\ LotValue \in Nat
  BY LoyaltyAssumption
<1>2. /\ points' = [points EXCEPT ![u] = @ - p]
      /\ spent' = [spent EXCEPT ![u] = @ + p]
      /\ wallet' = [wallet EXCEPT ![u] = @ + credit]
      /\ ledger' = [ledger EXCEPT ![u] = Append(@, e)]
      /\ UNCHANGED earned /\ points[u] >= p
  BY DEF Redeem, Affordable
<1> HIDE DEF p, credit
<1>3. /\ points[u] \in Nat /\ earned[u] \in Nat /\ spent[u] \in Nat /\ wallet[u] \in Nat
      /\ ledger[u] \in Seq(Entry)
  BY DEF LoyaltyInv, LedgerInv, StateTypes
<1>4. \A v \in User : Summed(ledger[v], points[v], earned[v], spent[v])
                        /\ wallet[v] * Lot = spent[v] * LotValue
  BY Sums DEF SumsInv
<1>5. e \in Entry /\ e.amount = -p /\ e.kind = "POINTS_REDEEM"
  BY <1>1, <1>2, <1>3 DEF Entry, Kind, Key
<1>6. /\ ledger'[u] = Append(ledger[u], e) /\ points'[u] = points[u] - p
      /\ spent'[u] = spent[u] + p /\ wallet'[u] = wallet[u] + credit
      /\ \A v \in User \ {u} : /\ ledger'[v] = ledger[v] /\ points'[v] = points[v]
                               /\ spent'[v] = spent[v] /\ wallet'[v] = wallet[v]
  BY <1>2 DEF LoyaltyInv, LedgerInv, StateTypes
<1> HIDE DEF e
<1>7. Summed(Append(ledger[u], e), points[u] + e.amount,
             earned[u] + (IF e.amount > 0 THEN e.amount ELSE 0),
             spent[u] - (IF e.kind = "POINTS_REDEEM" THEN e.amount ELSE 0))
  BY <1>3, <1>4, <1>5, SummedNext
<1>8. /\ points[u] + e.amount = points[u] - p
      /\ earned[u] + (IF e.amount > 0 THEN e.amount ELSE 0) = earned[u]
      /\ spent[u] - (IF e.kind = "POINTS_REDEEM" THEN e.amount ELSE 0) = spent[u] + p
  <2>1. p \in Nat /\ p > 0
    BY <1>1
  <2>2. points[u] \in Nat /\ earned[u] \in Nat /\ spent[u] \in Nat
    BY <1>3
  <2> QED BY <1>5, <2>1, <2>2
<1>9. Summed(ledger'[u], points'[u], earned[u], spent'[u])
  BY <1>6, <1>7, <1>8
<1>10. wallet'[u] * Lot = spent'[u] * LotValue
  <2>1. (wallet[u] + credit) * Lot = wallet[u] * Lot + credit * Lot
    BY <1>1, <1>3
  <2>2. (spent[u] + p) * LotValue = spent[u] * LotValue + p * LotValue
    BY <1>1, <1>3
  <2> QED BY <1>1, <1>4, <1>6, <2>1, <2>2
<1>11. \A v \in User : Summed(ledger'[v], points'[v], earned'[v], spent'[v])
                         /\ wallet'[v] * Lot = spent'[v] * LotValue
  BY <1>2, <1>4, <1>6, <1>9, <1>10
<1> QED BY <1>11, Sums

\* What handlers ask for is never a redemption.
LEMMA RequestsStep ==
  ASSUME LoyaltyInv, RequestsSpendNothing, [Next]_vars
  PROVE  RequestsSpendNothing'
<1>1. ASSUME NEW w \in Worker, NEW t, Go(w, t),
             t # Idle /\ t.pc \in {"check", "write"} => t.kind # "POINTS_REDEEM"
      PROVE  RequestsSpendNothing'
  <2>1. task'[w] = t /\ \A v \in Worker \ {w} : task'[v] = task[v]
    BY <1>1 DEF LoyaltyInv, TasksFit, Go
  <2> QED BY <1>1, <2>1 DEF RequestsSpendNothing
<1>2. ASSUME NEW w \in Worker, Go(w, Idle)
      PROVE  RequestsSpendNothing'
  BY <1>1, <1>2
<1>3. ASSUME NEW w \in Worker, NEW u, NEW kind, NEW key, NEW amount,
             Go(w, Request(u, kind, key, amount))
               \/ Go(w, [Request(u, kind, key, amount) EXCEPT !.pc = "write"]),
             kind # "POINTS_REDEEM"
      PROVE  RequestsSpendNothing'
  <2>1. /\ Request(u, kind, key, amount).kind = kind
        /\ [Request(u, kind, key, amount) EXCEPT !.pc = "write"].kind = kind
    BY DEF Request
  <2> QED BY <1>1, <1>3, <2>1
<1>4. ASSUME NEW w \in Worker, NEW o, NEW p \in {"approved", "cancel", "rejected"},
             Go(w, [pc |-> p, order |-> o])
      PROVE  RequestsSpendNothing'
  <2> DEFINE t == [pc |-> p, order |-> o]
  <2>1. t.pc \notin {"check", "write"}
    OBVIOUS
  <2> HIDE DEF t
  <2> QED BY <1>1, <1>4, <2>1 DEF t
<1>5. CASE UNCHANGED task
  BY <1>5 DEF RequestsSpendNothing
<1>6. ASSUME NEW w \in Worker, Run(w)
      PROVE  RequestsSpendNothing'
  <2>1. CASE RejectCancelled(w)
    <3> DEFINE t == [task[w] EXCEPT !.pc = "rejected"]
    <3>1. task[w] # Idle /\ Go(w, t)
      BY <2>1 DEF RejectCancelled, At
    <3>2. t.pc = "rejected"
      <4>1. task[w] \in Task
        BY <3>1, TaskShapes DEF LoyaltyInv
      <4> QED BY <4>1 DEF Task
    <3> HIDE DEF t
    <3> QED BY <1>1, <3>1, <3>2
  <2>2. CASE AwardPurchase(w)
    BY <1>2, <1>3, <2>2 DEF AwardPurchase
  <2>3. CASE ReversePurchase(w)
    BY <1>2, <1>3, <2>3 DEF ReversePurchase
  <2>4. CASE Check(w)
    <3> DEFINE t == [task[w] EXCEPT !.pc = "write"]
    <3>1. task[w] # Idle /\ task[w].pc = "check" /\ (Go(w, Idle) \/ Go(w, t))
      BY <2>4 DEF Check, At
    <3>2. t.kind = task[w].kind
      <4>1. task[w] \in Task
        BY <3>1, TaskShapes DEF LoyaltyInv
      <4> QED BY <3>1, <4>1 DEF Task
    <3>3. task[w].kind # "POINTS_REDEEM"
      BY <3>1 DEF RequestsSpendNothing
    <3> HIDE DEF t
    <3> QED BY <1>1, <1>2, <3>1, <3>2, <3>3
  <2>5. CASE Write(w)
    BY <1>2, <2>5 DEF Write
  <2> QED BY <1>6, <2>1, <2>2, <2>3, <2>4, <2>5 DEF Run
<1>7. ASSUME NEW w \in Mortal, Crash(w)
      PROVE  RequestsSpendNothing'
  BY <1>2, <1>7, LoyaltyAssumption DEF Crash
<1>8. ASSUME NEW w \in Worker, NEW o \in Order, DecideStep(w, o)
      PROVE  RequestsSpendNothing'
  BY <1>4, <1>8 DEF DecideStep, Approve, BuyWithWallet, Replay, Reject, Cancel
<1>9. ASSUME NEW o \in Order, BuyWithWalletElsewhere(o)
      PROVE  RequestsSpendNothing'
  BY <1>5, <1>9 DEF BuyWithWalletElsewhere
<1>10. ASSUME NEW w \in Worker,
              \/ \E u \in User : Register(w, u) \/ \E d \in Corrections : Adjust(w, u, d)
              \/ \E p \in Invitations : Refer(w, p)
       PROVE  RequestsSpendNothing'
  BY <1>3, <1>10 DEF Register, Adjust, Refer
<1>11. ASSUME NEW u \in User, NEW n \in {1, 2}, Redeem(u, n)
       PROVE  RequestsSpendNothing'
  BY <1>5, <1>11 DEF Redeem
<1>12. CASE UNCHANGED vars
  BY <1>5, <1>12 DEF vars
<1> QED BY <1>6, <1>7, <1>8, <1>9, <1>10, <1>11, <1>12
    DEF Next, DecideStep, OrderApprove, BaleOrderApprove, PanelApprove, RunCheckout, CreateOrder,
        OrderReject, BaleOrderReject, PanelReject, CartCheckout, BaleCheckout, Start, BaleStart,
        AdjustByHand, PanelAdjust, RedeemConfirmed, BaleRedeem

LEMMA SumsStep ==
  ASSUME LoyaltyInv, SumsInv, [Next]_vars
  PROVE  SumsInv'
<1>1. RequestsSpendNothing'
  BY RequestsStep DEF SumsInv
<1>2. CASE UNCHANGED state
  <2>1. StateIsLedger'
    BY <1>2, Sums DEF SumsInv, state
  <2> QED BY <1>1, <2>1 DEF SumsInv
<1>3. ASSUME NEW w \in Worker, Write(w)
      PROVE  SumsInv'
  BY <1>1, <1>3, WriteSums DEF SumsInv
<1>4. ASSUME NEW u \in User, NEW n \in {1, 2}, Redeem(u, n)
      PROVE  SumsInv'
  BY <1>1, <1>4, RedeemSums DEF SumsInv
<1>5. CASE /\ \A w \in Worker : ~Write(w)
           /\ \A u \in User, n \in {1, 2} : ~Redeem(u, n)
  <2>1. UNCHANGED state
    BY <1>5, LoyaltyAssumption
    DEF Next, vars, state, Run, RejectCancelled, AwardPurchase, ReversePurchase, Check, Crash,
        OrderApprove, BaleOrderApprove, PanelApprove, Approve, RunCheckout, CreateOrder,
        BuyWithWallet, Replay, OrderReject, BaleOrderReject, PanelReject, Reject, Cancel,
        CartCheckout, BaleCheckout, BuyWithWalletElsewhere, Start, BaleStart, Register,
        AdjustByHand, PanelAdjust, Adjust, Refer, RedeemConfirmed, BaleRedeem
  <2> QED BY <1>2, <2>1
<1> QED BY <1>3, <1>4, <1>5

\* The totals that are stored are the ledger's, for any number of customers, orders and
\* handlers and any rules: a transaction changes them with its entry or not at all, and
\* what handlers computed before it does not enter them.
THEOREM LedgerAddsUp == Spec => []StateIsLedger
<1>1. Init => SumsInv
  <2> SUFFICES ASSUME Init PROVE SumsInv
    OBVIOUS
  <2>1. ASSUME NEW u \in User
        PROVE  Summed(ledger[u], 0, 0, 0)
    <3>1. ledger[u] = <<>>
      BY <2>1 DEF Init
    <3>2. /\ DOMAIN ledger[u] = {} /\ Gains(ledger[u]) = {} /\ Redemptions(ledger[u]) = {}
      BY <3>1 DEF Gains, Redemptions
    <3>3. /\ SumFunctionOnSet(Amounts(ledger[u]), DOMAIN ledger[u]) = 0
          /\ SumFunctionOnSet(Amounts(ledger[u]), Gains(ledger[u])) = 0
          /\ SumFunctionOnSet(Amounts(ledger[u]), Redemptions(ledger[u])) = 0
      BY <3>2, SumEmpty, Zenon
    <3> DEFINE n == SumFunctionOnSet(Amounts(ledger[u]), Redemptions(ledger[u]))
    <3>4. n = 0
      BY <3>3
    <3> HIDE DEF n
    <3>5. n \in Int /\ n >= 0 /\ n <= 0
      BY <3>4
    <3>6. \A m \in Int : m >= 0 /\ m <= 0 => 0 = -m
      OBVIOUS
    <3>7. 0 = -n
      BY <3>5, <3>6, Zenon
    <3> QED BY <3>3, <3>7 DEF Summed, n
  <2>2. /\ \A u \in User : points[u] = 0 /\ earned[u] = 0 /\ spent[u] = 0 /\ wallet[u] = 0
        /\ 0 * Lot = 0 /\ 0 * LotValue = 0
    BY LoyaltyAssumption DEF Init
  <2>3. StateIsLedger
    BY <2>1, <2>2, Sums
  <2>4. RequestsSpendNothing
    BY DEF Init, RequestsSpendNothing
  <2> QED BY <2>3, <2>4 DEF SumsInv
<1>2. LoyaltyInv /\ SumsInv /\ [Next]_vars => SumsInv'
  BY SumsStep
<1>3. SumsInv => StateIsLedger
  BY DEF SumsInv
<1> QED BY <1>1, <1>2, <1>3, Invariant, PTL DEF Spec
=============================================================================
