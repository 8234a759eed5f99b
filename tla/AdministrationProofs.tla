-------------------------- MODULE AdministrationProofs -------------------------
(*****************************************************************************)
(* What holds of the components that administrators work with, each on its   *)
(* own: the decisions and the stock (Fulfillment), the wizards for codes and *)
(* points, the samples and the spins (Promotions), the settings (Settings).  *)
(* Any number of administrators, orders, customers, codes, threads and       *)
(* updates that are handled at the same time; any lifetime of a copy.        *)
(*****************************************************************************)
EXTENDS Promotions, Settings, Fulfillment, SumTheorems, TLAPS

-----------------------------------------------------------------------------
(* Fulfillment: types and the history of decisions.                           *)

\* Who is to record a decision records the one that was made, and who is to write a
\* stage writes that of an order that exists; what was not sold was not given back.
ToldAsDecided ==
  \A a \in Admin : handling[a] # Free /\ handling[a].pc = "decided" =>
    status[handling[a].order] = handling[a].to
StagesOfOrders ==
  \A a \in Admin : handling[a] # Free /\ handling[a].pc = "write" =>
    status[handling[a].order] # "none"
FreedWereSold == \A o \in Order : status[o] = "none" => freed[o] = 0
HistoryInv ==
  FulfillmentTypeOK /\ ToldAsDecided /\ StagesOfOrders /\ FreedWereSold /\ DecisionsTruthful

\* What an administrator's request has at each of its points.
LEMMA HandlingShapes ==
  ASSUME FulfillmentTypeOK, NEW a \in Admin, handling[a] # Free
  PROVE  /\ handling[a] \in Handling /\ handling[a].order \in Order
         /\ handling[a].pc = "write" => handling[a].to \in Stage
         /\ handling[a].pc = "decided" => handling[a].to \in Verdict
<1>1. handling[a] \in Handling
  BY DEF FulfillmentTypeOK
<1> DEFINE t == handling[a]
<1> HIDE DEF t
<1>2. t \in Handling
  BY <1>1 DEF t
<1>3. /\ t.order \in Order
      /\ t.pc = "write" => t.to \in Stage
      /\ t.pc = "decided" => t.to \in Verdict
  BY <1>2 DEF Handling
<1> QED BY <1>1, <1>3 DEF t

\* Giving back what an order holds leaves an amount, and one more return in the history.
LEMMA ReleaseTypes ==
  ASSUME FulfillmentTypeOK, NEW o \in Order
  PROVE  Release(o) \in Nat /\ FreedOnceMore(o) \in [Order -> 0..2]
<1>1. Qty[o] \in Nat /\ reserved \in Nat
  BY FulfillmentAssumption DEF FulfillmentTypeOK
<1>2. Release(o) \in Nat
  BY <1>1 DEF Release
<1>3. FreedOnceMore(o) \in [Order -> 0..2]
  BY DEF FreedOnceMore, FulfillmentTypeOK
<1> QED BY <1>2, <1>3

\* A decision is made once: nobody is about to record another one of the order.
LEMMA DecisionKeeps ==
  ASSUME HistoryInv, NEW a \in Admin, NEW o \in Order, NEW v \in Verdict,
         handling[a] = Free, Undecided(o),
         status' = [status EXCEPT ![o] = v],
         handling' = [handling EXCEPT ![a] = [pc |-> "decided", order |-> o, to |-> v]],
         stage' \in [Order -> Stage], reserved' \in Nat, freed' \in [Order -> 0..2],
         \A p \in Order : p # o => freed'[p] = freed[p],
         UNCHANGED <<onHand, events>>
  PROVE  HistoryInv'
<1>1. status \in [Order -> {"none", "pending"} \cup Verdict] /\ status[o] = "pending"
      /\ handling \in [Admin -> Handling \cup {Free}] /\ events \subseteq Order \X Verdict
  BY DEF HistoryInv, FulfillmentTypeOK, Undecided
<1>2. v # "pending" /\ v # "none"
  BY DEF Verdict
<1>3. status'[o] = v /\ \A p \in Order : p # o => status'[p] = status[p]
  BY <1>1
<1> DEFINE t == [pc |-> "decided", order |-> o, to |-> v]
<1>4. t \in Handling /\ t.pc = "decided" /\ t.order = o /\ t.to = v
  BY DEF Handling
<1>5. handling'[a] = t /\ \A b \in Admin : b # a => handling'[b] = handling[b]
  BY <1>1
<1> HIDE DEF t
<1>6. FulfillmentTypeOK'
  <2>1. status' \in [Order -> {"none", "pending"} \cup Verdict]
    BY <1>1
  <2>2. handling' \in [Admin -> Handling \cup {Free}]
    BY <1>1, <1>4 DEF t
  <2> QED BY <2>1, <2>2 DEF HistoryInv, FulfillmentTypeOK
<1>7. \A b \in Admin : handling[b] # Free /\ handling[b].pc = "decided" => handling[b].order # o
  BY <1>1, HandlingShapes DEF HistoryInv, ToldAsDecided, Verdict
<1>8. ToldAsDecided'
  <2> SUFFICES ASSUME NEW b \in Admin, handling'[b] # Free, handling'[b].pc = "decided"
               PROVE  status'[handling'[b].order] = handling'[b].to
    BY DEF ToldAsDecided
  <2>1. CASE b = a
    BY <1>3, <1>4, <1>5, <2>1
  <2>2. CASE b # a
    <3>1. handling'[b] = handling[b]
      BY <1>5, <2>2
    <3>2. handling[b].order \in Order /\ handling[b].order # o
      BY <1>7, <3>1, HandlingShapes DEF HistoryInv
    <3> QED BY <1>3, <3>1, <3>2 DEF HistoryInv, ToldAsDecided
  <2> QED BY <2>1, <2>2
<1>9. StagesOfOrders'
  <2> SUFFICES ASSUME NEW b \in Admin, handling'[b] # Free, handling'[b].pc = "write"
               PROVE  status'[handling'[b].order] # "none"
    BY DEF StagesOfOrders
  <2>1. b # a /\ handling'[b] = handling[b]
    BY <1>4, <1>5
  <2>2. handling[b].order \in Order /\ status[handling[b].order] # "none"
    BY <2>1, HandlingShapes DEF HistoryInv, StagesOfOrders
  <2> QED BY <1>2, <1>3, <2>1, <2>2
<1>10. FreedWereSold'
  BY <1>2, <1>3 DEF HistoryInv, FreedWereSold
<1>11. DecisionsTruthful'
  <2> SUFFICES ASSUME NEW e \in events PROVE status'[e[1]] = e[2]
    BY DEF DecisionsTruthful
  <2>1. e[1] \in Order /\ e[2] \in Verdict
    BY <1>1
  <2>2. status[e[1]] = e[2]
    BY DEF HistoryInv, DecisionsTruthful
  <2>3. e[1] # o
    BY <1>1, <2>1, <2>2 DEF Verdict
  <2> QED BY <1>3, <2>1, <2>2, <2>3
<1> QED BY <1>6, <1>8, <1>9, <1>10, <1>11 DEF HistoryInv

\* Requests come and go: one ends, or turns to an order that exists.
LEMMA RequestKeeps ==
  ASSUME HistoryInv, NEW a \in Admin, NEW t,
         handling' = [handling EXCEPT ![a] = t],
         t = Free \/ \E o \in Order, to \in Stage :
           status[o] # "none" /\ t = [pc |-> "write", order |-> o, to |-> to],
         stage' \in [Order -> Stage], reserved' \in Nat, freed' \in [Order -> 0..2],
         \A o \in Order : status[o] = "none" => freed'[o] = freed[o],
         UNCHANGED <<status, onHand, events>>
  PROVE  HistoryInv'
<1>1. handling \in [Admin -> Handling \cup {Free}]
  BY DEF HistoryInv, FulfillmentTypeOK
<1>2. handling'[a] = t /\ \A b \in Admin : b # a => handling'[b] = handling[b]
  BY <1>1
<1>3. t = Free \/ (t \in Handling /\ t.pc = "write" /\ status[t.order] # "none")
  BY DEF Handling
<1>4. handling' \in [Admin -> Handling \cup {Free}]
  BY <1>1, <1>3
<1>5. FulfillmentTypeOK'
  BY <1>4 DEF HistoryInv, FulfillmentTypeOK
<1>6. ToldAsDecided' /\ StagesOfOrders'
  BY <1>2, <1>3 DEF HistoryInv, ToldAsDecided, StagesOfOrders
<1>7. FreedWereSold' /\ DecisionsTruthful'
  BY DEF HistoryInv, FreedWereSold, DecisionsTruthful
<1> QED BY <1>5, <1>6, <1>7 DEF HistoryInv

\* The stages of several transactions: each keeps the history true.
LEMMA HistoryStep ==
  ASSUME HistoryInv, [FulfillmentNext]_fulfillmentVars
  PROVE  HistoryInv'
<1>1. FulfillmentTypeOK
  BY DEF HistoryInv
<1>2. ASSUME NEW o \in Order, Sell(o)
      PROVE  HistoryInv'
  <2>1. PICK s \in {"pending", "approved"} : status' = [status EXCEPT ![o] = s]
    BY <1>2 DEF Sell
  <2>2. status'[o] = s /\ (\A p \in Order : p # o => status'[p] = status[p])
        /\ status[o] = "none" /\ UNCHANGED <<stage, onHand, freed, events, handling>>
    BY <1>1, <1>2, <2>1 DEF FulfillmentTypeOK, Sell
  <2>3. FulfillmentTypeOK'
    <3>1. Qty[o] \in Nat
      BY FulfillmentAssumption
    <3>2. reserved' \in Nat
      BY <1>1, <1>2, <3>1 DEF FulfillmentTypeOK, Sell
    <3>3. status' \in [Order -> {"none", "pending"} \cup Verdict]
      BY <1>1, <2>1 DEF FulfillmentTypeOK, Verdict
    <3> QED BY <1>1, <2>2, <3>2, <3>3 DEF FulfillmentTypeOK
  <2>4. \A p \in Order : status[p] # "none" => status'[p] = status[p]
    BY <2>2
  <2>5. ToldAsDecided' /\ StagesOfOrders'
    <3> SUFFICES ASSUME NEW b \in Admin, handling[b] # Free
                 PROVE  /\ handling[b].pc = "decided" =>
                             status'[handling[b].order] = handling[b].to
                        /\ handling[b].pc = "write" => status'[handling[b].order] # "none"
      BY <2>2 DEF ToldAsDecided, StagesOfOrders
    <3>1. /\ handling[b].order \in Order
          /\ handling[b].pc = "decided" => handling[b].to \in Verdict
      BY <1>1, HandlingShapes
    <3> QED BY <2>4, <3>1 DEF HistoryInv, ToldAsDecided, StagesOfOrders, Verdict
  <2>6. FreedWereSold'
    BY <2>2 DEF HistoryInv, FreedWereSold
  <2>7. DecisionsTruthful'
    <3> SUFFICES ASSUME NEW e \in events PROVE status'[e[1]] = e[2]
      BY <2>2 DEF DecisionsTruthful
    <3>1. e[1] \in Order /\ e[2] \in Verdict /\ status[e[1]] = e[2]
      BY <1>1 DEF FulfillmentTypeOK, HistoryInv, DecisionsTruthful
    <3> QED BY <2>4, <3>1 DEF Verdict
  <2> QED BY <2>3, <2>5, <2>6, <2>7 DEF HistoryInv
<1>3. ASSUME NEW a \in Admin, NEW o \in Order, Approve(a, o)
      PROVE  HistoryInv'
  <2>1. stage' \in [Order -> Stage] /\ reserved' \in Nat /\ freed' \in [Order -> 0..2]
    BY <1>1, <1>3 DEF FulfillmentTypeOK, Approve, Stage
  <2> QED BY <1>3, <2>1, DecisionKeeps DEF Approve, Verdict
<1>4. ASSUME NEW a \in Admin, NEW o \in Order, Reject(a, o)
      PROVE  HistoryInv'
  <2>1. stage' \in [Order -> Stage] /\ reserved' \in Nat /\ freed' \in [Order -> 0..2]
    BY <1>1, <1>4, ReleaseTypes DEF FulfillmentTypeOK, Reject
  <2>2. \A p \in Order : p # o => freed'[p] = freed[p]
    BY <1>1, <1>4 DEF FulfillmentTypeOK, Reject, FreedOnceMore
  <2> QED BY <1>4, <2>1, <2>2, DecisionKeeps DEF Reject, Verdict
<1>5. ASSUME NEW a \in Admin, NEW o \in Order, NEW to \in Targets, ApiFulfillment(a, o, to)
      PROVE  HistoryInv'
  <2>1. to \in Stage
    BY FulfillmentAssumption
  <2>2. UNCHANGED <<status, stage, onHand, reserved, freed, events>> /\ status[o] # "none"
        /\ handling' = [handling EXCEPT ![a] = [pc |-> "write", order |-> o, to |-> to]]
    BY <1>5 DEF ApiFulfillment, ReadStage
  <2>3. stage' \in [Order -> Stage] /\ reserved' \in Nat /\ freed' \in [Order -> 0..2]
    BY <1>1, <2>2 DEF FulfillmentTypeOK
  <2> QED BY <2>1, <2>2, <2>3, RequestKeeps
<1>6. ASSUME NEW a \in Admin, LogDecision(a)
      PROVE  HistoryInv'
  <2>1. handling[a].order \in Order /\ handling[a].to \in Verdict
        /\ status[handling[a].order] = handling[a].to
    BY <1>1, <1>6, HandlingShapes DEF LogDecision, HistoryInv, ToldAsDecided
  <2>2. FulfillmentTypeOK'
    BY <1>1, <1>6, <2>1 DEF FulfillmentTypeOK, LogDecision
  <2>3. DecisionsTruthful'
    <3> SUFFICES ASSUME NEW e \in events' PROVE status[e[1]] = e[2]
      BY <1>6 DEF LogDecision, DecisionsTruthful
    <3>1. e \in events \/ e = <<handling[a].order, handling[a].to>>
      BY <1>6 DEF LogDecision
    <3> QED BY <2>1, <3>1 DEF HistoryInv, DecisionsTruthful
  <2>4. \A b \in Admin : handling'[b] = Free \/ handling'[b] = handling[b]
    BY <1>1, <1>6 DEF FulfillmentTypeOK, LogDecision
  <2>5. ToldAsDecided' /\ StagesOfOrders' /\ FreedWereSold'
    BY <1>6, <2>4 DEF LogDecision, HistoryInv, ToldAsDecided, StagesOfOrders, FreedWereSold
  <2> QED BY <2>2, <2>3, <2>5 DEF HistoryInv
<1>7. ASSUME NEW a \in Admin, WriteStage(a)
      PROVE  HistoryInv'
  <2> DEFINE o == handling[a].order
  <2>1. o \in Order /\ handling[a].to \in Stage /\ status[o] # "none"
    BY <1>1, <1>7, HandlingShapes DEF WriteStage, HistoryInv, StagesOfOrders
  <2>2. stage' \in [Order -> Stage]
    BY <1>1, <1>7, <2>1 DEF FulfillmentTypeOK, WriteStage
  <2>3. reserved' \in Nat /\ freed' \in [Order -> 0..2]
    BY <1>1, <1>7, <2>1, ReleaseTypes DEF FulfillmentTypeOK, WriteStage
  <2>4. \A p \in Order : status[p] = "none" => freed'[p] = freed[p]
    BY <1>1, <1>7, <2>1 DEF FulfillmentTypeOK, WriteStage, FreedOnceMore
  <2>5. handling' = [handling EXCEPT ![a] = Free] /\ UNCHANGED <<status, onHand, events>>
    BY <1>7 DEF WriteStage
  <2> QED BY <2>2, <2>3, <2>4, <2>5, RequestKeeps
<1>8. ASSUME NEW a \in Admin, Crash(a)
      PROVE  HistoryInv'
  <2>1. UNCHANGED <<status, stage, onHand, reserved, freed, events>>
        /\ handling' = [handling EXCEPT ![a] = Free]
    BY <1>8 DEF Crash
  <2>2. stage' \in [Order -> Stage] /\ reserved' \in Nat /\ freed' \in [Order -> 0..2]
    BY <1>1, <2>1 DEF FulfillmentTypeOK
  <2> QED BY <2>1, <2>2, RequestKeeps
<1>9. ASSUME onHand' \in Nat, UNCHANGED <<status, stage, reserved, freed, events, handling>>
      PROVE  HistoryInv'
  BY <1>9 DEF HistoryInv, FulfillmentTypeOK, ToldAsDecided, StagesOfOrders, FreedWereSold,
     DecisionsTruthful
<1>10. ASSUME NEW n \in Levels, SetInventory(n)
       PROVE  HistoryInv'
  BY <1>9, <1>10, FulfillmentAssumption DEF SetInventory
<1>11. ASSUME NEW d \in Deltas, ApiInventory(d)
       PROVE  HistoryInv'
  <2>1. onHand + d \in Nat
    BY <1>1, <1>11, FulfillmentAssumption DEF FulfillmentTypeOK, ApiInventory, AdjustInventory
  <2> QED BY <1>9, <1>11, <2>1 DEF ApiInventory, AdjustInventory
<1>12. CASE UNCHANGED fulfillmentVars
  BY <1>12 DEF fulfillmentVars, HistoryInv, FulfillmentTypeOK, ToldAsDecided, StagesOfOrders,
     FreedWereSold, DecisionsTruthful
<1> QED BY <1>2, <1>3, <1>4, <1>5, <1>6, <1>7, <1>8, <1>10, <1>11, <1>12 DEF FulfillmentNext

\* The history is true in every state.
LEMMA HistoryHolds == FulfillmentSpec => []HistoryInv
<1>1. FulfillmentInit => HistoryInv
  <2> SUFFICES ASSUME FulfillmentInit PROVE HistoryInv
    OBVIOUS
  <2>1. FulfillmentTypeOK
    BY FulfillmentAssumption DEF FulfillmentInit, FulfillmentTypeOK, Stage
  <2> QED BY <2>1 DEF FulfillmentInit, HistoryInv, ToldAsDecided, StagesOfOrders,
       FreedWereSold, DecisionsTruthful
<1>2. HistoryInv /\ [FulfillmentNext]_fulfillmentVars => HistoryInv'
  BY HistoryStep
<1> QED BY <1>1, <1>2, PTL DEF FulfillmentSpec

-----------------------------------------------------------------------------
(* Fulfillment: the reservation.                                              *)

\* A set of orders holds an amount.
LEMMA QtyOfNat ==
  ASSUME NEW orders \in SUBSET Order
  PROVE  IsFiniteSet(orders) /\ QtyOf(orders) \in Nat /\ \A o \in orders : Qty[o] <= QtyOf(orders)
<1>1. IsFiniteSet(orders) /\ \A o \in orders : Qty[o] \in Nat
  BY FulfillmentAssumption, FS_Subset
<1> QED BY <1>1, SumNat, SumPart DEF QtyOf

\* The open orders hold what is reserved, unless one gave its goods back twice, and
\* never less.
ReservedInv == NothingStuck /\ ReservedExact

\* Where no order is sold and none gives its goods back, the reservation stays right.
LEMMA ReservedAlone ==
  ASSUME ReservedInv, UNCHANGED <<reserved, freed>>,
         \A o \in Order : status'[o] = "none" <=> status[o] = "none"
  PROVE  ReservedInv'
<1>1. Open' = Open
  BY DEF Open, Sold
<1> QED BY <1>1 DEF ReservedInv, NothingStuck, ReservedExact

\* A sale reserves what the order asks for.
LEMMA SellReserves ==
  ASSUME HistoryInv, ReservedInv, NEW o \in Order, Sell(o)
  PROVE  ReservedInv'
<1>1. /\ status[o] = "none" /\ reserved' = reserved + Qty[o] /\ UNCHANGED freed
      /\ status'[o] # "none" /\ \A p \in Order : p # o => status'[p] = status[p]
  BY DEF Sell, HistoryInv, FulfillmentTypeOK
<1>2. freed[o] = 0
  BY <1>1 DEF HistoryInv, FreedWereSold
<1>3. o \notin Open /\ Open' = Open \cup {o} /\ Open \in SUBSET Order
  BY <1>1, <1>2 DEF Open, Sold
<1>4. QtyOf(Open') = Qty[o] + QtyOf(Open)
  <2>1. \A p \in Open \cup {o} : Qty[p] \in Int
    BY <1>3, FulfillmentAssumption
  <2>2. IsFiniteSet(Open)
    BY <1>3, QtyOfNat
  <2> QED BY <1>3, <2>1, <2>2, SumAdd DEF QtyOf
<1>5. reserved \in Nat /\ Qty[o] \in Nat /\ QtyOf(Open) \in Nat
  BY <1>3, QtyOfNat, FulfillmentAssumption DEF HistoryInv, FulfillmentTypeOK
<1>6. NothingStuck'
  BY <1>1, <1>4, <1>5 DEF ReservedInv, NothingStuck
<1>7. ReservedExact'
  BY <1>1, <1>4, <1>5 DEF ReservedInv, ReservedExact
<1> QED BY <1>6, <1>7 DEF ReservedInv

\* An order that gives its goods back is open no longer; the second time it gives
\* back what is not its own, and history says so.
LEMMA ReleaseReserves ==
  ASSUME HistoryInv, ReservedInv, NEW o \in Order, status[o] # "none",
         reserved' = Release(o), freed' = FreedOnceMore(o),
         \A p \in Order : status'[p] = "none" <=> status[p] = "none"
  PROVE  ReservedInv'
<1>1. freed \in [Order -> 0..2] /\ reserved \in Nat /\ Qty[o] \in Nat
  BY FulfillmentAssumption DEF HistoryInv, FulfillmentTypeOK
<1>2. /\ freed'[o] = IF freed[o] < 2 THEN freed[o] + 1 ELSE freed[o]
      /\ \A p \in Order : p # o => freed'[p] = freed[p]
  BY <1>1 DEF FreedOnceMore
<1>3. freed[o] \in 0..2
  BY <1>1
<1>4. Open' = Open \ {o} /\ Open \in SUBSET Order /\ Open' \in SUBSET Order
  BY <1>2, <1>3 DEF Open, Sold
<1>5. QtyOf(Open) \in Nat /\ QtyOf(Open') \in Nat
  BY <1>4, QtyOfNat
<1>6. CASE freed[o] = 0
  <2>1. o \in Open
    BY <1>6 DEF Open, Sold
  <2>2. QtyOf(Open) = Qty[o] + QtyOf(Open')
    <3>1. IsFiniteSet(Open) /\ \A p \in Open : Qty[p] \in Int
      BY <1>4, QtyOfNat, FulfillmentAssumption
    <3> QED BY <1>4, <2>1, <3>1, SumRemove DEF QtyOf
  <2>3. NothingStuck'
    BY <1>1, <1>5, <2>2 DEF ReservedInv, NothingStuck, Release
  <2>4. (\A p \in Order : freed'[p] <= 1) => \A p \in Order : freed[p] <= 1
    BY <1>2, <1>6
  <2>5. ReservedExact'
    BY <1>1, <1>5, <2>2, <2>4 DEF ReservedInv, ReservedExact, Release
  <2> QED BY <2>3, <2>5 DEF ReservedInv
<1>7. CASE freed[o] # 0
  <2>1. Open' = Open
    BY <1>4, <1>7 DEF Open
  <2>2. NothingStuck'
    BY <1>1, <1>5, <2>1 DEF ReservedInv, NothingStuck, Release
  <2>3. ~ (freed'[o] <= 1)
    BY <1>2, <1>3, <1>7
  <2>4. ReservedExact'
    BY <2>3 DEF ReservedExact
  <2> QED BY <2>2, <2>4 DEF ReservedInv
<1> QED BY <1>6, <1>7

LEMMA ReservedStep ==
  ASSUME HistoryInv, HistoryInv', ReservedInv, [FulfillmentNext]_fulfillmentVars
  PROVE  ReservedInv'
<1>1. status \in [Order -> {"none", "pending"} \cup Verdict]
  BY DEF HistoryInv, FulfillmentTypeOK
<1>2. ASSUME NEW a \in Admin, NEW o \in Order, Approve(a, o)
      PROVE  ReservedInv'
  <2>1. status' = [status EXCEPT ![o] = "approved"] /\ status[o] = "pending"
    BY <1>2 DEF Approve, Undecided
  <2>2. UNCHANGED <<reserved, freed>>
    BY <1>2 DEF Approve
  <2> QED BY <1>1, <2>1, <2>2, ReservedAlone
<1>3. ASSUME NEW a \in Admin, NEW o \in Order, Reject(a, o)
      PROVE  ReservedInv'
  <2>1. status' = [status EXCEPT ![o] = "rejected"] /\ status[o] = "pending"
    BY <1>3 DEF Reject, Undecided
  <2>2. reserved' = Release(o) /\ freed' = FreedOnceMore(o)
    BY <1>3 DEF Reject
  <2> QED BY <1>1, <2>1, <2>2, ReleaseReserves
<1>4. ASSUME NEW a \in Admin, WriteStage(a)
      PROVE  ReservedInv'
  <2> DEFINE o == handling[a].order
  <2>1. o \in Order /\ status[o] # "none" /\ UNCHANGED status
    BY <1>4, HandlingShapes DEF WriteStage, HistoryInv, StagesOfOrders
  <2>2. CASE handling[a].to = "cancelled"
    BY <1>4, <2>1, <2>2, ReleaseReserves DEF WriteStage
  <2>3. CASE handling[a].to # "cancelled"
    BY <1>4, <2>1, <2>3, ReservedAlone DEF WriteStage
  <2> QED BY <2>2, <2>3
<1>5. ASSUME UNCHANGED <<status, reserved, freed>>
      PROVE  ReservedInv'
  BY <1>5, ReservedAlone
<1>6. ASSUME NEW a \in Admin,
             \/ LogDecision(a) \/ Crash(a)
             \/ \E o \in Order, to \in Targets : ApiFulfillment(a, o, to)
      PROVE  ReservedInv'
  BY <1>5, <1>6 DEF LogDecision, Crash, ApiFulfillment, ReadStage
<1>7. ASSUME \/ \E n \in Levels : SetInventory(n)
             \/ \E d \in Deltas : ApiInventory(d)
      PROVE  ReservedInv'
  BY <1>5, <1>7 DEF SetInventory, ApiInventory, AdjustInventory
<1>8. CASE UNCHANGED fulfillmentVars
  BY <1>5, <1>8 DEF fulfillmentVars
<1> QED BY <1>2, <1>3, <1>4, <1>6, <1>7, <1>8, SellReserves DEF FulfillmentNext

\* What is reserved is right in every state.
LEMMA ReservedHolds == FulfillmentSpec => []ReservedInv
<1>1. FulfillmentInit => ReservedInv
  <2> SUFFICES ASSUME FulfillmentInit PROVE ReservedInv
    OBVIOUS
  <2>1. Open = {} /\ reserved = 0
    BY DEF FulfillmentInit, Open, Sold
  <2>2. QtyOf(Open) = 0
    BY <2>1, SumEmpty DEF QtyOf
  <2> QED BY <2>1, <2>2 DEF ReservedInv, NothingStuck, ReservedExact
<1>2. HistoryInv /\ HistoryInv' /\ ReservedInv /\ [FulfillmentNext]_fulfillmentVars
        => ReservedInv'
  BY ReservedStep
<1> QED BY <1>1, <1>2, HistoryHolds, PTL DEF FulfillmentSpec

-----------------------------------------------------------------------------
(* Fulfillment: the theorems.                                                 *)

\* No stock and no reservation is ever negative, and what an administrator's request
\* is about to write is there, for any number of administrators and orders.
THEOREM FulfillmentTypes == FulfillmentSpec => []FulfillmentTypeOK
<1>1. HistoryInv => FulfillmentTypeOK
  BY DEF HistoryInv
<1> QED BY <1>1, HistoryHolds, PTL

\* The history of decisions is true: the event of a decision is added after the
\* decision's transaction, but no order is decided twice.
THEOREM HistoryIsTrue == FulfillmentSpec => []DecisionsTruthful
<1>1. HistoryInv => DecisionsTruthful
  BY DEF HistoryInv
<1> QED BY <1>1, HistoryHolds, PTL

\* Goods come back on sale when their order ends: no more is reserved than the open
\* orders ask for.
THEOREM GoodsComeBack == FulfillmentSpec => []NothingStuck
<1>1. ReservedInv => NothingStuck
  BY DEF ReservedInv
<1> QED BY <1>1, ReservedHolds, PTL

\* Exactly that much is reserved, unless an order gave its goods back twice.
THEOREM ReservationsAddUp == FulfillmentSpec => []ReservedExact
<1>1. ReservedInv => ReservedExact
  BY DEF ReservedInv
<1> QED BY <1>1, ReservedHolds, PTL

-----------------------------------------------------------------------------
(* Promotions: what a task has, and the invariant.                            *)

\* A code is stored with the worth that was typed for it.
CreatesAsTyped == \A s \in Slot : At(s, "create") => task[s].worth = task[s].code

\* The inductive invariant: the wizard knows what it asks about, so what it hands to a
\* task belongs together, and so does what the task stores.
FsmFits == state \in State \cup {NoState} /\ data \in Data /\ WizardKnows
CodesFit == worth \in [Code -> Code \cup {None}] /\ CodeAsTyped
GiftsFit ==
  /\ stocked \in BOOLEAN /\ used \in [Player -> 0..MaxGifts] /\ spun \in [Player -> BOOLEAN]
  /\ spins \in [Player -> 0..MaxGifts]
TasksFit == task \in [Slot -> Task \cup {Idle}] /\ CreatesAsTyped /\ AmountForTarget
PromotionsInv == FsmFits /\ CodesFit /\ GiftsFit /\ TasksFit

-----------------------------------------------------------------------------
(* Promotions: tasks.                                                       *)

\* A handler that is at a point has what that point needs.
LEMMA TaskShapes ==
  ASSUME TasksFit, NEW s \in Slot, task[s] # Idle
  PROVE  /\ task[s] \in Task
         /\ task[s].pc = "look" => task[s].code \in Code
         /\ task[s].pc = "create" => task[s].code \in Code /\ task[s].worth = task[s].code
         /\ task[s].pc = "find" => task[s].user \in User
         /\ task[s].pc \in {"reset", "used", "take", "mark", "spin", "record", "draw"}
              => task[s].user \in Player
<1>1. task[s] \in Task
  BY DEF TasksFit
<1> DEFINE t == task[s]
<1> HIDE DEF t
<1>2. t \in Task
  BY <1>1 DEF t
<1>3. /\ t.pc = "look" => t.code \in Code
      /\ t.pc = "create" => t.code \in Code
      /\ t.pc = "find" => t.user \in User
      /\ t.pc \in {"reset", "used", "take", "mark", "spin", "record", "draw"} => t.user \in Player
  BY <1>2 DEF Task
<1>4. t.pc = "create" => t.worth = t.code
  BY DEF TasksFit, CreatesAsTyped, At, t
<1> QED BY <1>1, <1>3, <1>4 DEF t

\* A task whose parts belong together.
Fitting(t) ==
  \/ t = Idle
  \/ /\ t \in Task
     /\ t.pc = "create" => t.worth = t.code
     /\ t.pc = "adjust" => t.user = t.amount

\* A handler that turns to such a task, or is over, leaves the others as they were.
LEMMA GoFits ==
  ASSUME TasksFit, NEW s \in Slot, NEW t, Fitting(t), Go(s, t)
  PROVE  TasksFit'
<1>1. /\ task' \in [Slot -> Task \cup {Idle}] /\ task'[s] = t
      /\ \A r \in Slot : r # s => task'[r] = task[r]
  BY DEF TasksFit, Go, Fitting
<1>2. CreatesAsTyped' /\ AmountForTarget'
  BY <1>1 DEF TasksFit, CreatesAsTyped, AmountForTarget, At, Me, Fitting
<1> QED BY <1>1, <1>2 DEF TasksFit

\* The tasks that handlers begin with or go on to.
LEMMA Tasks ==
  /\ Fitting(Idle) /\ Fitting([pc |-> "clear"]) /\ Fitting([pc |-> "samples"])
  /\ \A c \in Code : /\ Fitting([pc |-> "look", code |-> c])
                     /\ Fitting([pc |-> "create", code |-> c, worth |-> c])
  /\ \A u \in User : /\ Fitting([pc |-> "find", user |-> u])
                     /\ Fitting([pc |-> "adjust", user |-> u, amount |-> u])
  /\ \A p \in {"reset", "used", "spin"}, u \in Player : Fitting([pc |-> p, user |-> u])
BY DEF Fitting, Task

\* A sample or a spin goes on with its customer.
LEMMA NextPoint ==
  ASSUME TasksFit, NEW s \in Slot, At(s, "used") \/ At(s, "take") \/ At(s, "spin") \/ At(s, "record"),
         NEW p \in {"take", "mark", "record", "draw"}
  PROVE  Fitting([task[s] EXCEPT !.pc = p])
<1> DEFINE t == task[s]
<1>1. t \in Task /\ t.pc \in {"used", "take", "spin", "record"}
  BY DEF TasksFit, At
<1> HIDE DEF t
<1> DEFINE Gifts == [pc : {"reset", "used", "take", "mark", "spin", "record", "draw"}, user : Player]
<1>2. t \in Gifts
  BY <1>1 DEF Task
<1>3. [t EXCEPT !.pc = p] \in Gifts /\ [t EXCEPT !.pc = p].pc = p
  BY <1>2
<1>4. [t EXCEPT !.pc = p] \in Task
  BY <1>3 DEF Task
<1> QED BY <1>3, <1>4 DEF Fitting, t

-----------------------------------------------------------------------------
(* Promotions: the wizards.                                                 *)

\* What a wizard keeps remains a conversation's data.
LEMMA DataTypes ==
  ASSUME data \in Data
  PROVE  /\ \A c \in Code : /\ [data EXCEPT !.code = c] \in Data
                            /\ [data EXCEPT !.code = c].code = c
         /\ [data EXCEPT !.worth = data.code] \in Data
         /\ [data EXCEPT !.worth = data.code].code = data.code
         /\ [data EXCEPT !.worth = data.code].worth = data.code
         /\ \A u \in User : /\ [data EXCEPT !.target = u] \in Data
                            /\ [data EXCEPT !.target = u].target = u
         /\ [data EXCEPT !.amount = data.target] \in Data
         /\ [data EXCEPT !.amount = data.target].target = data.target
         /\ [data EXCEPT !.amount = data.target].amount = data.target
         /\ \A b \in BOOLEAN : [data EXCEPT !.samples = b] \in Data
         /\ NoData \in Data
BY DEF Data, NoData

\* A wizard that is left fits.
LEMMA ClearFits ==
  ASSUME FsmFits, Clear
  PROVE  FsmFits'
BY PromotionsAssumption, DataTypes DEF FsmFits, Clear, WizardKnows, State
\* The wizards' steps: what they ask fits what they know, and what they begin is sound.
LEMMA WizardKeeps ==
  ASSUME PromotionsInv, Wizard
  PROVE  PromotionsInv'
<1> USE DEF Ask, Put, FsmOnly
<1>1. FsmFits /\ TasksFit /\ data \in Data
  BY DEF PromotionsInv, FsmFits
<1>2. CodesFit' /\ GiftsFit'
  <2>1. UNCHANGED <<worth, gifts>>
    BY DEF Wizard, Leave, AskCode, TypeWorth, AskUser, TypeAmount, AskSamples, SendSample, AskReset,
           TypeUses, TypeReason, SamplesDone, TypeCode, TypeUser, TypeReset, Begin
  <2> QED BY <2>1 DEF PromotionsInv, CodesFit, CodeAsTyped, GiftsFit, gifts
<1>3. CASE Leave
  BY <1>1, <1>2, <1>3, ClearFits DEF Leave, PromotionsInv, TasksFit, CreatesAsTyped,
     AmountForTarget, At, Me
<1>4. CASE \/ AskCode \/ TypeWorth \/ AskUser \/ TypeAmount \/ AskSamples \/ SendSample \/ AskReset
  <2>1. TasksFit'
    <3>1. UNCHANGED task
      BY <1>4 DEF AskCode, TypeWorth, AskUser, TypeAmount, AskSamples, SendSample, AskReset
    <3> QED BY <1>1, <3>1 DEF TasksFit, CreatesAsTyped, AmountForTarget, At, Me
  <2>2. CASE AskSamples \/ SendSample
    <3>1. data' \in Data /\ state' = "sample_files"
      BY <1>1, <2>2, DataTypes DEF AskSamples, SendSample
    <3>2. FsmFits'
      BY <3>1 DEF FsmFits, WizardKnows, State
    <3> QED BY <1>2, <2>1, <3>2 DEF PromotionsInv
  <2>3. CASE TypeWorth
    <3>1. /\ data' \in Data /\ state' = "uses" /\ data'.code = data.code /\ data'.worth = data.code
          /\ data.code # None
      BY <1>1, <2>3, DataTypes DEF TypeWorth, FsmFits, WizardKnows
    <3>2. FsmFits'
      BY <3>1 DEF FsmFits, WizardKnows, State
    <3> QED BY <1>2, <2>1, <3>2 DEF PromotionsInv
  <2>4. CASE TypeAmount
    <3>1. /\ data' \in Data /\ state' = "reason" /\ data'.target = data.target
          /\ data'.amount = data.target /\ data.target # None
      BY <1>1, <2>4, DataTypes DEF TypeAmount, FsmFits, WizardKnows
    <3>2. FsmFits'
      BY <3>1 DEF FsmFits, WizardKnows, State
    <3> QED BY <1>2, <2>1, <3>2 DEF PromotionsInv
  <2>5. CASE AskCode \/ AskUser \/ AskReset
    <3>1. FsmFits'
      BY <1>1, <2>5 DEF AskCode, AskUser, AskReset, FsmFits, WizardKnows, State
    <3> QED BY <1>2, <2>1, <3>1 DEF PromotionsInv
  <2> QED BY <1>4, <2>2, <2>3, <2>4, <2>5
<1>5. ASSUME NEW s \in Slot, NEW t, Fitting(t), Begin(s, t)
      PROVE  PromotionsInv'
  <2>1. TasksFit'
    BY <1>1, <1>5, GoFits DEF Begin
  <2>2. FsmFits'
    BY <1>1, <1>5 DEF Begin, FsmFits, WizardKnows, fsm
  <2> QED BY <1>2, <2>1, <2>2 DEF PromotionsInv
<1>6. ASSUME NEW s \in Slot, TypeUses(s)
      PROVE  PromotionsInv'
  <2>1. data.code \in Code /\ data.worth = data.code
    BY <1>1, <1>6 DEF TypeUses, FsmFits, WizardKnows, Data
  <2> QED BY <1>5, <1>6, <2>1, Tasks DEF TypeUses
<1>7. ASSUME NEW s \in Slot, TypeReason(s)
      PROVE  PromotionsInv'
  <2>1. data.target \in User /\ data.amount = data.target
    BY <1>1, <1>7 DEF TypeReason, FsmFits, WizardKnows, Data
  <2> QED BY <1>5, <1>7, <2>1, Tasks DEF TypeReason
<1>8. ASSUME NEW s \in Slot,
             \/ SamplesDone(s)
             \/ \E c \in Code : TypeCode(s, c)
             \/ \E u \in User : TypeUser(s, u)
             \/ \E u \in Player : TypeReset(s, u)
      PROVE  PromotionsInv'
  BY <1>5, <1>8, Tasks DEF SamplesDone, TypeCode, TypeUser, TypeReset
<1> QED BY <1>3, <1>4, <1>6, <1>7, <1>8 DEF Wizard

-----------------------------------------------------------------------------
(* Promotions: the steps of tasks.                                          *)

\* A task that changes nothing but itself.
LEMMA OnlyTask ==
  ASSUME PromotionsInv, NEW s \in Slot, NEW t, Fitting(t), Go(s, t), UNCHANGED <<fsm, worth, gifts>>
  PROVE  PromotionsInv'
<1>1. TasksFit'
  BY GoFits DEF PromotionsInv
<1> QED BY <1>1 DEF PromotionsInv, FsmFits, WizardKnows, CodesFit, CodeAsTyped, GiftsFit, fsm, gifts

\* A code of the wizard, of the panel, of the Bale bot or of the wheel.
LEMMA CodeStored ==
  ASSUME CodesFit, NEW c \in Code, NEW v \in {None, c}, worth' = [worth EXCEPT ![c] = v]
  PROVE  CodesFit'
BY DEF CodesFit, CodeAsTyped
\* A step that leaves tasks and codes alone, and the conversation.
LEMMA OnlyGifts ==
  ASSUME PromotionsInv, GiftsFit', UNCHANGED <<fsm, worth, task>>
  PROVE  PromotionsInv'
BY DEF PromotionsInv, FsmFits, WizardKnows, CodesFit, CodeAsTyped, TasksFit, CreatesAsTyped,
       AmountForTarget, At, Me, fsm

\* A code that is stored or deleted outside the wizard.
LEMMA OnlyCodes ==
  ASSUME PromotionsInv, NEW c \in Code, CreateCode(c, c) \/ DeleteCode(c), Codes
  PROVE  PromotionsInv'
<1>1. CodesFit'
  BY CodeStored DEF PromotionsInv, CreateCode, DeleteCode
<1> QED BY <1>1 DEF PromotionsInv, Codes, FsmFits, WizardKnows, GiftsFit, TasksFit,
           CreatesAsTyped, AmountForTarget, At, Me, fsm, gifts

\* The tasks of the wizards.
LEMMA WizardTasksKeep ==
  ASSUME PromotionsInv, NEW s \in Slot,
         \/ LateClear(s) \/ Fail(s) \/ CodeIsFree(s) \/ StoreCode(s) \/ UserFound(s) \/ Adjust(s)
         \/ StoreSamples(s) \/ Reset(s)
  PROVE  PromotionsInv'
<1> USE DEF Ask, Put, FsmOnly, End
<1>1. FsmFits /\ CodesFit /\ GiftsFit /\ TasksFit /\ data \in Data
  BY DEF PromotionsInv, FsmFits
<1>2. ASSUME UNCHANGED <<worth, gifts>>
      PROVE  CodesFit' /\ GiftsFit'
  BY <1>1, <1>2 DEF CodesFit, CodeAsTyped, GiftsFit, gifts
<1>3. CASE LateClear(s)
  <2>1. FsmFits'
    BY <1>1, <1>3, ClearFits DEF LateClear
  <2>2. TasksFit'
    BY <1>1, <1>3, GoFits, Tasks DEF LateClear
  <2> QED BY <1>2, <1>3, <2>1, <2>2 DEF LateClear, PromotionsInv
<1>4. CASE Fail(s)
  BY <1>4, OnlyTask, Tasks DEF Fail
<1>5. CASE CodeIsFree(s)
  <2>1. Go(s, Idle) /\ UNCHANGED <<worth, gifts>>
    BY <1>5 DEF CodeIsFree
  <2>2. TasksFit'
    BY <1>1, <2>1, GoFits, Tasks
  <2>3. FsmFits'
    <3>1. CASE UNCHANGED fsm
      BY <1>1, <3>1 DEF FsmFits, WizardKnows, fsm
    <3>2. CASE data' = [data EXCEPT !.code = task[s].code] /\ state' = "worth"
      <4>1. task[s].code \in Code /\ task[s].code # None
        BY <1>1, <1>5, TaskShapes, PromotionsAssumption DEF CodeIsFree, At
      <4>2. data' \in Data /\ data'.code # None
        BY <1>1, <3>2, <4>1, DataTypes
      <4> QED BY <3>2, <4>2 DEF FsmFits, WizardKnows, State
    <3> QED BY <1>5, <3>1, <3>2 DEF CodeIsFree
  <2> QED BY <1>2, <2>1, <2>2, <2>3 DEF PromotionsInv
<1>6. CASE StoreCode(s)
  <2> DEFINE t == task[s]
  <2>1. t.code \in Code /\ t.worth = t.code
    BY <1>1, <1>6, TaskShapes DEF StoreCode, At
  <2>2. Go(s, Idle) \/ Go(s, [pc |-> "clear"])
    BY <1>6 DEF StoreCode
  <2>3. TasksFit'
    BY <1>1, <2>2, GoFits, Tasks
  <2>4. UNCHANGED worth \/ worth' = [worth EXCEPT ![t.code] = t.worth]
    BY <1>6 DEF StoreCode, CreateCode
  <2> HIDE DEF t
  <2>5. CodesFit'
    BY <1>1, <2>1, <2>4, CodeStored DEF CodesFit, CodeAsTyped
  <2>6. FsmFits' /\ GiftsFit'
    BY <1>1, <1>6 DEF StoreCode, FsmFits, WizardKnows, GiftsFit, fsm, gifts
  <2> QED BY <2>3, <2>5, <2>6 DEF PromotionsInv
<1>7. CASE UserFound(s)
  <2>1. task[s].user \in User /\ task[s].user # None
    BY <1>1, <1>7, TaskShapes, PromotionsAssumption DEF UserFound, At
  <2>2. data' \in Data /\ data'.target # None /\ state' = "amount"
    BY <1>1, <1>7, <2>1, DataTypes DEF UserFound, Me
  <2>3. FsmFits'
    BY <2>2 DEF FsmFits, WizardKnows, State
  <2>4. TasksFit'
    BY <1>1, <1>7, GoFits, Tasks DEF UserFound
  <2> QED BY <1>2, <1>7, <2>3, <2>4 DEF UserFound, PromotionsInv
<1>8. CASE Adjust(s)
  <2>1. CASE Go(s, [pc |-> "clear"]) /\ UNCHANGED fsm
    BY <1>8, <2>1, OnlyTask, Tasks DEF Adjust
  <2>2. CASE Clear /\ Go(s, Idle)
    <3>1. FsmFits' /\ TasksFit'
      BY <1>1, <2>2, ClearFits, GoFits, Tasks
    <3> QED BY <1>2, <1>8, <3>1 DEF Adjust, PromotionsInv
  <2> QED BY <1>8, <2>1, <2>2 DEF Adjust
<1>9. CASE StoreSamples(s) \/ Reset(s)
  <2>1. TasksFit'
    BY <1>1, <1>9, GoFits, Tasks DEF StoreSamples, Reset
  <2>2. FsmFits' /\ CodesFit'
    BY <1>1, <1>9 DEF StoreSamples, Reset, FsmFits, WizardKnows, CodesFit, CodeAsTyped, fsm
  <2>3. GiftsFit'
    <3>1. CASE StoreSamples(s)
      BY <1>1, <3>1 DEF StoreSamples, AddSamples, GiftsFit
    <3>2. CASE Reset(s)
      <4>1. 0 \in 0..MaxGifts
        BY PromotionsAssumption
      <4> QED BY <1>1, <3>2, <4>1 DEF Reset, GiftsFit
    <3> QED BY <1>9, <3>1, <3>2
  <2> QED BY <2>1, <2>2, <2>3 DEF PromotionsInv
<1> QED BY <1>3, <1>4, <1>5, <1>6, <1>7, <1>8, <1>9

\* The tasks of the customers.
LEMMA GiftTasksKeep ==
  ASSUME PromotionsInv, NEW s \in Slot,
         \/ LookAtUsed(s) \/ TakeSample(s) \/ MarkUsed(s) \/ AskToSpin(s) \/ RecordSpin(s) \/ Draw(s)
  PROVE  PromotionsInv'
<1> USE DEF End
<1>1. FsmFits /\ CodesFit /\ GiftsFit /\ TasksFit
  BY DEF PromotionsInv
<1>2. CASE LookAtUsed(s) \/ TakeSample(s) \/ AskToSpin(s)
  <2>1. PICK t : Go(s, t) /\ Fitting(t)
    <3>1. CASE LookAtUsed(s)
      BY <1>1, <3>1, NextPoint, Tasks DEF LookAtUsed
    <3>2. CASE TakeSample(s)
      BY <1>1, <3>2, NextPoint, Tasks DEF TakeSample
    <3>3. CASE AskToSpin(s)
      BY <1>1, <3>3, NextPoint, Tasks DEF AskToSpin
    <3> QED BY <1>2, <3>1, <3>2, <3>3
  <2> QED BY <1>2, <2>1, OnlyTask DEF LookAtUsed, TakeSample, AskToSpin
<1>3. CASE MarkUsed(s)
  <2>1. TasksFit'
    BY <1>1, <1>3, GoFits, Tasks DEF MarkUsed
  <2>2. FsmFits' /\ CodesFit'
    BY <1>1, <1>3 DEF MarkUsed, FsmFits, WizardKnows, CodesFit, CodeAsTyped, fsm
  <2>3. Me(s) \in Player
    BY <1>1, <1>3, TaskShapes DEF MarkUsed, At, Me
  <2>4. GiftsFit'
    BY <1>1, <1>3, <2>3, PromotionsAssumption DEF MarkUsed, GiftsFit
  <2> QED BY <2>1, <2>2, <2>4 DEF PromotionsInv
<1>4. CASE RecordSpin(s)
  <2>1. TasksFit'
    BY <1>1, <1>4, GoFits, NextPoint DEF RecordSpin
  <2>2. FsmFits' /\ CodesFit'
    BY <1>1, <1>4 DEF RecordSpin, FsmFits, WizardKnows, CodesFit, CodeAsTyped, fsm
  <2>3. Me(s) \in Player
    BY <1>1, <1>4, TaskShapes DEF RecordSpin, At, Me
  <2>4. GiftsFit'
    BY <1>1, <1>4, <2>3, PromotionsAssumption DEF RecordSpin, GiftsFit
  <2> QED BY <2>1, <2>2, <2>4 DEF PromotionsInv
<1>5. CASE Draw(s)
  <2>1. TasksFit'
    BY <1>1, <1>5, GoFits, Tasks DEF Draw
  <2>2. FsmFits' /\ GiftsFit'
    BY <1>1, <1>5 DEF Draw, FsmFits, WizardKnows, GiftsFit, fsm, gifts
  <2>3. CodesFit'
    <3>1. CASE UNCHANGED worth
      BY <1>1, <3>1 DEF CodesFit, CodeAsTyped
    <3>2. ASSUME NEW c \in Code, CreateCode(c, c)
          PROVE  CodesFit'
      BY <1>1, <3>2, CodeStored DEF CreateCode
    <3> QED BY <1>5, <3>1, <3>2 DEF Draw
  <2> QED BY <2>1, <2>2, <2>3 DEF PromotionsInv
<1> QED BY <1>2, <1>3, <1>4, <1>5

\* Customers begin tasks, and their cooldown passes.
LEMMA CustomerKeeps ==
  ASSUME PromotionsInv, NEW u \in Player, Customer(u)
  PROVE  PromotionsInv'
<1>1. CASE CooldownPasses(u)
  <2>1. GiftsFit'
    BY <1>1, PromotionsAssumption DEF PromotionsInv, GiftsFit, CooldownPasses
  <2> QED BY <1>1, <2>1, OnlyGifts DEF CooldownPasses
<1>2. ASSUME NEW s \in Slot,
             \/ SampleButton(s, u) \/ ClaimSample(s, u)
             \/ WheelButton(s, u) \/ BaleWheelButton(s, u) \/ SpinRequest(s, u)
      PROVE  PromotionsInv'
  <2>1. PICK p \in {"used", "spin"} : Begin(s, [pc |-> p, user |-> u])
    BY <1>2 DEF SampleButton, ClaimSample, WheelButton, BaleWheelButton, SpinRequest
  <2>2. Fitting([pc |-> p, user |-> u])
    BY Tasks
  <2> QED BY <2>1, <2>2, OnlyTask DEF Begin
<1> QED BY <1>1, <1>2 DEF Customer

\* The panel and the Bale bot.
LEMMA ElsewhereKeeps ==
  ASSUME PromotionsInv, Elsewhere
  PROVE  PromotionsInv'
<1>1. CASE SampleDelete \/ PanelUploadSample \/ PanelDeleteSample
  <2>1. GiftsFit'
    BY <1>1 DEF PromotionsInv, GiftsFit, SampleDelete, PanelUploadSample, PanelDeleteSample,
                DeleteSample, AddSamples
  <2>2. UNCHANGED <<fsm, worth, task>>
    BY <1>1 DEF SampleDelete, PanelUploadSample, PanelDeleteSample, Bank
  <2> QED BY <2>1, <2>2, OnlyGifts
<1>2. ASSUME NEW c \in Code,
             \/ CodeDelete(c) \/ BaleCodeDelete(c) \/ PanelDeleteCode(c)
             \/ BaleNewCode(c) \/ PanelNewCode(c)
      PROVE  PromotionsInv'
  BY <1>2, OnlyCodes DEF CodeDelete, BaleCodeDelete, PanelDeleteCode, BaleNewCode, PanelNewCode
<1> QED BY <1>1, <1>2 DEF Elsewhere

-----------------------------------------------------------------------------
(* Promotions: the theorems.                                                *)

\* The invariant holds in every state.
LEMMA PromotionsInvHolds == Spec => []PromotionsInv
<1>1. ASSUME Init
      PROVE  PromotionsInv
  <2>1. FsmFits
    <3>1. NoData \in Data
      BY PromotionsAssumption DEF NoData, Data
    <3> QED BY <1>1, <3>1, PromotionsAssumption DEF Init, FsmFits, WizardKnows, State
  <2>2. CodesFit /\ TasksFit
    BY <1>1 DEF Init, CodesFit, CodeAsTyped, TasksFit, CreatesAsTyped, AmountForTarget, At
  <2>3. GiftsFit
    <3>1. 0 \in 0..MaxGifts
      BY PromotionsAssumption
    <3> QED BY <1>1, <3>1 DEF Init, GiftsFit
  <2> QED BY <2>1, <2>2, <2>3 DEF PromotionsInv
<1>2. ASSUME PromotionsInv, [Next]_vars
      PROVE  PromotionsInv'
  <2>1. CASE UNCHANGED vars
    BY <1>2, <2>1 DEF PromotionsInv, FsmFits, WizardKnows, CodesFit, CodeAsTyped, GiftsFit,
       TasksFit, CreatesAsTyped, AmountForTarget, At, Me, vars, fsm, gifts
  <2>2. CASE Next
    <3>1. ASSUME NEW s \in Slot, Goes(s)
          PROVE  PromotionsInv'
      BY <1>2, <3>1, WizardTasksKeep, GiftTasksKeep DEF Goes
    <3> QED BY <1>2, <2>2, <3>1, WizardKeeps, ElsewhereKeeps, CustomerKeeps DEF Next
  <2> QED BY <1>2, <2>1, <2>2
<1> QED BY <1>1, <1>2, PTL DEF Spec

\* Every state is well formed: what a task is about to store or to spend is there.
THEOREM PromotionsTypes == Spec => []TypeOK
<1>1. PromotionsInv => TypeOK
  BY DEF PromotionsInv, FsmFits, CodesFit, GiftsFit, TasksFit, TypeOK
<1> QED BY <1>1, PromotionsInvHolds, PTL

\* A discount code is worth what was typed for it, however many names are on their way
\* to the wizard.
THEOREM CodesWorthAsTyped == Spec => []CodeAsTyped
<1>1. PromotionsInv => CodeAsTyped
  BY DEF PromotionsInv, CodesFit
<1> QED BY <1>1, PromotionsInvHolds, PTL

\* Points go to the customer their number was typed for.
THEOREM PointsForTheirCustomer == Spec => []AmountForTarget
<1>1. PromotionsInv => AmountForTarget
  BY DEF PromotionsInv, TasksFit
<1> QED BY <1>1, PromotionsInvHolds, PTL

-----------------------------------------------------------------------------
(* Promotions: how many gifts.                                                *)

\* The handlers that may still record a spin of a customer, or count a sample.
Spinning(u) == {s \in Slot : At(s, "record") /\ Me(s) = u}
Taking(u) == {s \in Slot : (At(s, "take") \/ At(s, "mark")) /\ Me(s) = u}

\* What a customer got and may still get from those handlers is no more than there are
\* handlers; who may spin got nothing since the cooldown passed.
SpinsFit(u) ==
  /\ ~spun[u] => spins[u] = 0
  /\ spins[u] + Cardinality(Spinning(u)) <= Cardinality(Slot)
SamplesFit(u) == used[u] + Cardinality(Taking(u)) <= Cardinality(Slot)
GiftsInv == \A u \in Player : SpinsFit(u) /\ SamplesFit(u)

\* Handlers P and Q before and after a step, n and m gifts: the sum is bounded when the
\* count begins anew, stays while no handler joins, or grows by what one of them gave.
LEMMA GiftsAddUp ==
  ASSUME IsFiniteSet(Slot), NEW P \in SUBSET Slot, NEW Q \in SUBSET Slot,
         NEW n \in Nat, NEW m \in Nat,
         n + Cardinality(P) <= Cardinality(Slot),
         \/ m = 0
         \/ m = n /\ Q \subseteq P
         \/ m = n + 1 /\ \E s \in P : Q \subseteq P \ {s}
  PROVE  m + Cardinality(Q) <= Cardinality(Slot)
<1>1. /\ IsFiniteSet(P) /\ Cardinality(P) \in Nat
      /\ Cardinality(Q) \in Nat /\ Cardinality(Q) <= Cardinality(Slot)
      /\ Cardinality(Slot) \in Nat
  BY FS_Subset, FS_CardinalityType
<1>2. CASE m = 0
  BY <1>1, <1>2
<1>3. CASE m = n /\ Q \subseteq P
  <2>1. Cardinality(Q) <= Cardinality(P)
    BY <1>1, <1>3, FS_Subset
  <2> QED BY <1>1, <1>3, <2>1
<1>4. CASE m = n + 1 /\ \E s \in P : Q \subseteq P \ {s}
  <2>1. PICK s \in P : Q \subseteq P \ {s}
    BY <1>4
  <2>2. IsFiniteSet(P \ {s}) /\ Cardinality(P \ {s}) = Cardinality(P) - 1
    BY <1>1, FS_RemoveElement
  <2>3. Cardinality(Q) <= Cardinality(P) - 1
    BY <2>1, <2>2, FS_Subset
  <2> QED BY <1>1, <1>4, <2>3
<1> QED BY <1>2, <1>3, <1>4

\* How a handler comes to give something: it has asked, or looked, before.
LEMMA NextGift ==
  ASSUME TasksFit, [Next]_vars, NEW s \in Slot, task'[s] # task[s], task'[s] # Idle,
         task'[s].pc \in {"record", "take", "mark"}
  PROVE  /\ task'[s].user = Me(s)
         /\ \/ task'[s].pc = "record" /\ AskToSpin(s) /\ CanSpin(Me(s))
            \/ task'[s].pc = "take" /\ LookAtUsed(s) /\ ~(used[Me(s)] >= 1)
            \/ task'[s].pc = "mark" /\ At(s, "take")
<1> DEFINE Turns ==
      /\ task'[s].user = Me(s)
      /\ \/ task'[s].pc = "record" /\ AskToSpin(s) /\ CanSpin(Me(s))
         \/ task'[s].pc = "take" /\ LookAtUsed(s) /\ ~(used[Me(s)] >= 1)
         \/ task'[s].pc = "mark" /\ At(s, "take")
<1>1. ASSUME NEW r \in Slot, NEW t, Go(r, t)
      PROVE  r = s /\ task'[s] = t
  BY <1>1 DEF TasksFit, Go
<1>2. ASSUME NEW r \in Slot, End(r)
      PROVE  FALSE
  BY <1>1, <1>2 DEF End
<1>3. ASSUME NEW r \in Slot, NEW t, Begin(r, t)
      PROVE  task'[s] = t
  BY <1>1, <1>3 DEF Begin
<1>4. ASSUME NEW r \in Slot, NEW t, NEW p \in {"take", "mark", "record", "draw"},
             Go(r, [task[r] EXCEPT !.pc = p]),
             At(r, "used") \/ At(r, "take") \/ At(r, "spin") \/ At(r, "record")
      PROVE  r = s /\ task'[s].pc = p /\ task'[s].user = Me(s)
  <2>1. r = s /\ task'[s] = [task[s] EXCEPT !.pc = p]
    BY <1>1, <1>4
  <2>2. task[s] \in [pc : {"reset", "used", "take", "mark", "spin", "record", "draw"}, user : Player]
    BY <1>4, <2>1, TaskShapes DEF At, Task
  <2> QED BY <2>1, <2>2 DEF Me
<1>5. ASSUME NEW r \in Slot, AskToSpin(r)
      PROVE  Turns
  <2>1. CanSpin(Me(r)) /\ Go(r, [task[r] EXCEPT !.pc = "record"])
    BY <1>2, <1>5 DEF AskToSpin, End
  <2>2. r = s /\ task'[s].pc = "record" /\ task'[s].user = Me(s)
    BY <1>4, <1>5, <2>1 DEF AskToSpin
  <2> QED BY <1>5, <2>1, <2>2
<1>6. ASSUME NEW r \in Slot, LookAtUsed(r)
      PROVE  Turns
  <2>1. ~(used[Me(r)] >= 1) /\ Go(r, [task[r] EXCEPT !.pc = "take"])
    BY <1>2, <1>6 DEF LookAtUsed, End
  <2>2. r = s /\ task'[s].pc = "take" /\ task'[s].user = Me(s)
    BY <1>4, <1>6, <2>1 DEF LookAtUsed
  <2> QED BY <1>6, <2>1, <2>2
<1>7. ASSUME NEW r \in Slot, TakeSample(r)
      PROVE  Turns
  <2>1. Go(r, [task[r] EXCEPT !.pc = "mark"])
    BY <1>2, <1>7 DEF TakeSample, End
  <2>2. r = s /\ task'[s].pc = "mark" /\ task'[s].user = Me(s)
    BY <1>4, <1>7, <2>1 DEF TakeSample
  <2> QED BY <1>7, <2>2 DEF TakeSample
<1>8. ASSUME NEW r \in Slot, RecordSpin(r)
      PROVE  FALSE
  BY <1>4, <1>8 DEF RecordSpin
<1> HIDE DEF Turns
<1>9. ASSUME NEW r \in Slot, Goes(r)
      PROVE  Turns
  <2>1. CASE StoreCode(r) \/ Adjust(r) \/ StoreSamples(r) \/ Reset(r)
    <3>1. End(r) \/ Go(r, [pc |-> "clear"])
      BY <2>1 DEF StoreCode, Adjust, StoreSamples, Reset
    <3> QED BY <1>1, <1>2, <3>1
  <2>2. CASE LateClear(r) \/ Fail(r) \/ CodeIsFree(r) \/ UserFound(r) \/ MarkUsed(r) \/ Draw(r)
    BY <1>2, <2>2 DEF LateClear, Fail, CodeIsFree, UserFound, MarkUsed, Draw
  <2> QED BY <1>5, <1>6, <1>7, <1>8, <1>9, <2>1, <2>2 DEF Goes
<1>10. ASSUME NEW r \in Slot, NEW u,
              \/ SampleButton(r, u) \/ ClaimSample(r, u)
              \/ WheelButton(r, u) \/ BaleWheelButton(r, u) \/ SpinRequest(r, u)
              \/ TypeUses(r) \/ TypeReason(r) \/ SamplesDone(r)
              \/ TypeCode(r, u) \/ TypeUser(r, u) \/ TypeReset(r, u)
       PROVE  FALSE
  <2>1. CASE \/ SampleButton(r, u) \/ ClaimSample(r, u)
             \/ WheelButton(r, u) \/ BaleWheelButton(r, u) \/ SpinRequest(r, u)
    BY <1>3, <2>1 DEF SampleButton, ClaimSample, WheelButton, BaleWheelButton, SpinRequest
  <2>2. CASE TypeUses(r) \/ TypeReason(r) \/ SamplesDone(r)
    BY <1>3, <2>2 DEF TypeUses, TypeReason, SamplesDone
  <2>3. CASE TypeCode(r, u) \/ TypeUser(r, u) \/ TypeReset(r, u)
    BY <1>3, <2>3 DEF TypeCode, TypeUser, TypeReset
  <2> QED BY <1>10, <2>1, <2>2, <2>3
<1>11. ASSUME Wizard PROVE Turns
  BY <1>10, <1>11 DEF Wizard, Leave, AskCode, TypeWorth, AskUser, TypeAmount, AskSamples,
     SendSample, AskReset
<1>12. ASSUME Elsewhere PROVE Turns
  BY <1>12 DEF Elsewhere, SampleDelete, PanelUploadSample, PanelDeleteSample, Bank, CodeDelete,
     BaleCodeDelete, PanelDeleteCode, BaleNewCode, PanelNewCode, Codes
<1>13. ASSUME NEW u \in Player, Customer(u)
       PROVE  FALSE
  BY <1>10, <1>13 DEF Customer, CooldownPasses
<1>14. task' # task
  OBVIOUS
<1>15. Turns
  <2>1. CASE Next
    BY <1>9, <1>11, <1>12, <1>13, <2>1 DEF Next
  <2>2. CASE UNCHANGED vars
    BY <1>14, <2>2 DEF vars
  <2> QED BY <2>1, <2>2
<1> QED BY <1>15 DEF Turns

\* What a customer got changes in few ways.
LEMMA GiftsChange ==
  ASSUME PromotionsInv, [Next]_vars, NEW u \in Player
  PROVE  /\ \/ \E s \in Slot : RecordSpin(s) /\ Me(s) = u
            \/ ~spun'[u] /\ spins'[u] = 0
            \/ spins'[u] = spins[u] /\ spun'[u] = spun[u]
         /\ \/ \E s \in Slot : MarkUsed(s) /\ Me(s) = u
            \/ used'[u] = 0
            \/ used'[u] = used[u]
<1>1. GiftsFit
  BY DEF PromotionsInv
<1>2. CASE UNCHANGED gifts
  BY <1>2 DEF gifts
<1>3. ASSUME NEW s \in Slot, RecordSpin(s) \/ MarkUsed(s) \/ Reset(s)
      PROVE  /\ \/ RecordSpin(s) /\ Me(s) = u
                \/ spins'[u] = spins[u] /\ spun'[u] = spun[u]
             /\ \/ MarkUsed(s) /\ Me(s) = u
                \/ used'[u] = 0
                \/ used'[u] = used[u]
  <2>1. CASE RecordSpin(s)
    BY <1>1, <2>1 DEF RecordSpin, GiftsFit
  <2>2. CASE MarkUsed(s)
    BY <1>1, <2>2 DEF MarkUsed, GiftsFit
  <2>3. CASE Reset(s)
    BY <1>1, <2>3 DEF Reset, GiftsFit
  <2> QED BY <1>3, <2>1, <2>2, <2>3
<1>4. ASSUME NEW c \in Player, CooldownPasses(c)
      PROVE  /\ \/ ~spun'[u] /\ spins'[u] = 0
                \/ spins'[u] = spins[u] /\ spun'[u] = spun[u]
             /\ used'[u] = used[u]
  BY <1>1, <1>4 DEF CooldownPasses, GiftsFit
<1>5. CASE UNCHANGED <<used, spun, spins>>
  BY <1>5
<1>6. CASE UNCHANGED vars
  BY <1>2, <1>6 DEF vars
<1>7. ASSUME NEW s \in Slot, Goes(s), ~(RecordSpin(s) \/ MarkUsed(s) \/ Reset(s))
      PROVE  UNCHANGED <<used, spun, spins>>
  BY <1>7 DEF Goes, LateClear, Fail, CodeIsFree, StoreCode, UserFound, Adjust, StoreSamples,
     AddSamples, LookAtUsed, TakeSample, AskToSpin, Draw, FsmOnly, gifts
<1>8. CASE Wizard
  BY <1>2, <1>8 DEF Wizard, Leave, AskCode, TypeWorth, AskUser, TypeAmount, AskSamples,
     SendSample, AskReset, TypeUses, TypeReason, SamplesDone, TypeCode, TypeUser, TypeReset,
     Begin, FsmOnly
<1>9. CASE Elsewhere
  BY <1>5, <1>9 DEF Elsewhere, SampleDelete, PanelUploadSample, PanelDeleteSample, AddSamples,
     DeleteSample, CodeDelete, BaleCodeDelete, PanelDeleteCode, BaleNewCode, PanelNewCode, Codes,
     gifts
<1>10. ASSUME NEW c \in Player, Customer(c), ~CooldownPasses(c)
       PROVE  UNCHANGED gifts
  BY <1>10 DEF Customer, SampleButton, ClaimSample, WheelButton, BaleWheelButton, SpinRequest,
     Begin
<1>11. CASE \E s \in Slot : Goes(s)
  BY <1>3, <1>5, <1>7, <1>11
<1>12. CASE \E c \in Player : Customer(c)
  BY <1>2, <1>4, <1>10, <1>12
<1> QED BY <1>6, <1>8, <1>9, <1>11, <1>12 DEF Next

\* The bound on a customer's spins is kept: a handler that comes to record one has seen
\* that the customer got none.
LEMMA SpinsStayFit ==
  ASSUME IsFiniteSet(Slot), PromotionsInv, PromotionsInv', [Next]_vars,
         NEW u \in Player, SpinsFit(u)
  PROVE  SpinsFit(u)'
<1> DEFINE P == Spinning(u)
           Q == Spinning(u)'
           n == spins[u]
           m == spins'[u]
<1>1. TasksFit /\ TasksFit' /\ n \in Nat /\ m \in Nat /\ spun[u] \in BOOLEAN
  BY DEF PromotionsInv, GiftsFit
<1>2. P \in SUBSET Slot /\ Q \in SUBSET Slot
  BY DEF Spinning
<1>3. ASSUME NEW s \in Q, s \notin P
      PROVE  AskToSpin(s) /\ n = 0
  <2>1. /\ s \in Slot /\ task'[s] # Idle /\ task'[s].pc = "record" /\ task'[s].user = u
        /\ task'[s] # task[s]
    BY <1>3 DEF Spinning, At, Me
  <2>2. AskToSpin(s) /\ CanSpin(Me(s)) /\ Me(s) = u
    BY <1>1, <2>1, NextGift
  <2> QED BY <2>2 DEF CanSpin, SpinsFit
<1>4. ASSUME NEW s \in Slot, RecordSpin(s), Me(s) = u
      PROVE  SpinsFit(u)'
  <2>1. Q \subseteq P \ {s} /\ s \in P
    <3>1. s \in P /\ task'[s].pc # "record"
      <4>1. task'[s] = [task[s] EXCEPT !.pc = "draw"] /\ At(s, "record")
        BY <1>1, <1>4 DEF RecordSpin, Go, TasksFit
      <4>2. task[s] \in [pc : {"reset", "used", "take", "mark", "spin", "record", "draw"},
                         user : Player]
        BY <1>1, <4>1, TaskShapes DEF At, Task
      <4> QED BY <1>4, <4>1, <4>2 DEF Spinning
    <3>2. \A r \in Slot : r # s => task'[r] = task[r]
      BY <1>1, <1>4 DEF RecordSpin, Go, TasksFit
    <3> QED BY <3>1, <3>2 DEF Spinning, At, Me
  <2>2. m = n + 1 /\ spun'[u]
    BY <1>4 DEF RecordSpin, PromotionsInv, GiftsFit
  <2>3. n + Cardinality(P) <= Cardinality(Slot)
    BY DEF SpinsFit
  <2>4. m + Cardinality(Q) <= Cardinality(Slot)
    <3> HIDE DEF P, Q, n, m
    <3> QED BY <1>1, <1>2, <2>1, <2>2, <2>3, GiftsAddUp
  <2> QED BY <2>2, <2>4 DEF SpinsFit
<1>5. CASE \/ ~spun'[u] /\ m = 0
           \/ m = n /\ spun'[u] = spun[u]
  <2>1. m = 0 \/ (m = n /\ Q \subseteq P)
    BY <1>3, <1>5
  <2>2. n + Cardinality(P) <= Cardinality(Slot)
    BY DEF SpinsFit
  <2>3. m + Cardinality(Q) <= Cardinality(Slot)
    <3> HIDE DEF P, Q, n, m
    <3> QED BY <1>1, <1>2, <2>1, <2>2, GiftsAddUp
  <2> QED BY <1>5, <2>3 DEF SpinsFit
<1> QED BY <1>4, <1>5, GiftsChange

\* The same for samples: a handler that comes to take one has seen that none was counted.
LEMMA SamplesStayFit ==
  ASSUME IsFiniteSet(Slot), PromotionsInv, PromotionsInv', [Next]_vars,
         NEW u \in Player, SamplesFit(u)
  PROVE  SamplesFit(u)'
<1> DEFINE P == Taking(u)
           Q == Taking(u)'
           n == used[u]
           m == used'[u]
<1>1. TasksFit /\ TasksFit' /\ n \in Nat /\ m \in Nat
  BY DEF PromotionsInv, GiftsFit
<1>2. P \in SUBSET Slot /\ Q \in SUBSET Slot
  BY DEF Taking
<1>3. ASSUME NEW s \in Q, s \notin P
      PROVE  n = 0
  <2>1. /\ s \in Slot /\ task'[s] # Idle /\ task'[s].pc \in {"take", "mark"} /\ task'[s].user = u
        /\ task'[s] # task[s]
    BY <1>3 DEF Taking, At, Me
  <2>2. Me(s) = u /\ (At(s, "take") \/ ~(used[Me(s)] >= 1))
    BY <1>1, <2>1, NextGift
  <2>3. ~At(s, "take")
    BY <1>3, <2>1, <2>2 DEF Taking
  <2> QED BY <1>1, <2>2, <2>3
<1>4. ASSUME NEW s \in Slot, MarkUsed(s), Me(s) = u
      PROVE  SamplesFit(u)'
  <2>1. Q \subseteq P \ {s} /\ s \in P
    <3>1. s \in P /\ task'[s] = Idle
      BY <1>1, <1>4 DEF MarkUsed, End, Go, TasksFit, Taking
    <3>2. \A r \in Slot : r # s => task'[r] = task[r]
      BY <1>1, <1>4 DEF MarkUsed, End, Go, TasksFit
    <3> QED BY <3>1, <3>2 DEF Taking, At, Me
  <2>2. m = n + 1
    BY <1>4 DEF MarkUsed, PromotionsInv, GiftsFit
  <2>3. n + Cardinality(P) <= Cardinality(Slot)
    BY DEF SamplesFit
  <2>4. m + Cardinality(Q) <= Cardinality(Slot)
    <3> HIDE DEF P, Q, n, m
    <3> QED BY <1>1, <1>2, <2>1, <2>2, <2>3, GiftsAddUp
  <2> QED BY <2>4 DEF SamplesFit
<1>5. CASE m = 0 \/ m = n
  <2>1. m = 0 \/ (m = n /\ Q \subseteq P)
    BY <1>3, <1>5
  <2>2. n + Cardinality(P) <= Cardinality(Slot)
    BY DEF SamplesFit
  <2>3. m + Cardinality(Q) <= Cardinality(Slot)
    <3> HIDE DEF P, Q, n, m
    <3> QED BY <1>1, <1>2, <2>1, <2>2, GiftsAddUp
  <2> QED BY <2>3 DEF SamplesFit
<1> QED BY <1>4, <1>5, GiftsChange

\* A customer gets no more spins in a cooldown, and no more samples that are counted, than
\* requests are handled at once: the checks before them let no later request through.
THEOREM GiftsWithinRush == IsFiniteSet(Slot) => (Spec => []GiftsLimited)
<1> SUFFICES ASSUME IsFiniteSet(Slot) PROVE Spec => []GiftsLimited
  OBVIOUS
<1>0. Cardinality(Slot) \in Nat
  BY FS_CardinalityType
<1>1. Init => GiftsInv
  <2> SUFFICES ASSUME Init, NEW u \in Player
               PROVE  SpinsFit(u) /\ SamplesFit(u)
    BY DEF GiftsInv
  <2>1. Spinning(u) = {} /\ Taking(u) = {}
    BY DEF Init, Spinning, Taking, At
  <2>2. Cardinality(Spinning(u)) = 0 /\ Cardinality(Taking(u)) = 0
    BY <2>1, FS_EmptySet
  <2> QED BY <1>0, <2>2 DEF Init, SpinsFit, SamplesFit
<1>2. PromotionsInv /\ PromotionsInv' /\ GiftsInv /\ [Next]_vars => GiftsInv'
  BY SpinsStayFit, SamplesStayFit DEF GiftsInv
<1>3. PromotionsInv /\ GiftsInv => GiftsLimited
  <2> SUFFICES ASSUME PromotionsInv, GiftsInv, NEW u \in Player
               PROVE  spins[u] <= Cardinality(Slot) /\ used[u] <= Cardinality(Slot)
    BY DEF GiftsLimited
  <2>1. Spinning(u) \subseteq Slot /\ Taking(u) \subseteq Slot
    BY DEF Spinning, Taking
  <2>2. Cardinality(Spinning(u)) \in Nat /\ Cardinality(Taking(u)) \in Nat
    BY <2>1, FS_Subset, FS_CardinalityType
  <2>3. spins[u] \in Nat /\ used[u] \in Nat
    BY DEF PromotionsInv, GiftsFit
  <2> QED BY <1>0, <2>2, <2>3 DEF GiftsInv, SpinsFit, SamplesFit
<1> QED BY <1>1, <1>2, <1>3, PromotionsInvHolds, PTL DEF Spec

-----------------------------------------------------------------------------
(* Settings: types.                                                         *)

\* A thread that is at a point of a handler has a call with what that point needs.
LEMMA CallShapes ==
  ASSUME SettingsTypeOK, NEW w \in Worker, call[w] # NoCall
  PROVE  /\ call[w] \in Call
         /\ call[w].home \in Process /\ call[w].key \in Key /\ call[w].plan \in Plan
         /\ call[w].pc = "install" => call[w].rows \in [Key -> Value]
         /\ call[w].pc \in {"set", "own"} => call[w].value \in Value
<1>1. call[w] \in Call
  BY DEF SettingsTypeOK
<1> DEFINE t == call[w]
<1> HIDE DEF t
<1>2. t \in Call
  BY <1>1 DEF t
<1>3. /\ t.home \in Process /\ t.key \in Key /\ t.plan \in Plan
      /\ t.pc = "install" => t.rows \in [Key -> Value]
      /\ t.pc \in {"set", "own"} => t.value \in Value
  BY <1>2 DEF Call
<1> QED BY <1>1, <1>3 DEF t

\* What the threads do, and how long they have waited.
CallsFit == call \in [Worker -> Call \cup {NoCall}] /\ waited \in [Worker -> 0..Wait]

\* Whatever a thread turns to next is a call, or it is idle.
LEMMA GoTypes ==
  ASSUME SettingsTypeOK, NEW w \in Worker, NEW t \in Call \cup {NoCall}, Proceed(w, t)
  PROVE  CallsFit'
BY SettingsAssumption DEF SettingsTypeOK, CallsFit, Proceed

\* A handler that reads or writes a setting first has begun a call.
LEMMA FirstTasks ==
  ASSUME SettingsTypeOK, NEW w \in Worker, NEW p \in Process, NEW k \in Key, NEW plan \in Plan
  PROVE  /\ Get(w, p, k, plan) => CallsFit'
         /\ \A v \in Value : Set(w, p, k, v, plan) => CallsFit'
<1>1. [pc |-> "get", home |-> p, key |-> k, plan |-> plan] \in Call
  BY DEF Call
<1>2. \A v \in Value : [pc |-> "set", home |-> p, key |-> k, value |-> v, plan |-> plan] \in Call
  BY DEF Call
<1> QED BY <1>1, <1>2, GoTypes DEF Get, Set

\* Who takes a value takes it from a copy: one that was loaded never goes away.
Loaded == \A w \in Worker : Doing(w, "take") => cache[Mine(w)] # NoCopy

\* The table is what is true now.
TableIsNow == lag[table[Dated]] = 0

\* The inductive invariant that StaleBounded follows from.
SettingsInv == SettingsTypeOK /\ Loaded /\ TableIsNow /\ CopyAlmostAsOldAsItLooks /\ EntriesReadBeforeWait

-----------------------------------------------------------------------------
(* Settings: what a step of a handler is: it begins with a question or an answer.*)

\* A handler begins with a call for one setting and does nothing else yet.
LEMMA Beginnings ==
  ASSUME SettingsTypeOK, NEW w \in Worker, Bot(w) \/ Request(w)
  PROVE  /\ call[w] = NoCall /\ UNCHANGED <<table, cache, age, lag>>
         /\ \E p \in Process, k \in Key, plan \in Plan :
              Get(w, p, k, plan) \/ \E v \in Value : Set(w, p, k, v, plan)
<1> USE DEF Process, Key, Plan
<1>1. Starts(w)
  BY DEF Bot, Request, Menu, JoinFirst, ForceJoinPage, ReferralPage, FreeProductPage,
         InviteBonusPage, WheelPage, LoyaltyPage, LoyaltyLimits, ButtonPage, MainMenuPage,
         ColourPage, CardPage, WelcomePage, BaleForceJoinPage, BaleReferralPage,
         BaleWheelPage, PanelSetting, CommerceForm, ReferralForm, WheelForm, LoyaltyForm,
         ForceJoinForm, MenuForm
<1>2. \E p \in Process :
        \/ Toggle(w, p) \/ GuardedToggle(w, p) \/ Answer(w, p) \/ Form(w, p) \/ Show(w, p)
        \/ \E k \in Key, v \in Value : Set(w, p, k, v, "done") \/ Set(w, p, k, v, "second")
  BY DEF Bot, Request, Menu, JoinFirst, ForceJoinPage, ReferralPage, FreeProductPage,
         InviteBonusPage, WheelPage, LoyaltyPage, LoyaltyLimits, ButtonPage, MainMenuPage,
         ColourPage, CardPage, WelcomePage, BaleForceJoinPage, BaleReferralPage,
         BaleWheelPage, PanelSetting, CommerceForm, ReferralForm, WheelForm, LoyaltyForm,
         ForceJoinForm, MenuForm
<1>3. \E p \in Process, k \in Key, plan \in Plan :
        Get(w, p, k, plan) \/ \E v \in Value : Set(w, p, k, v, plan)
  BY <1>2 DEF Toggle, GuardedToggle, Answer, Form, Show
<1> QED BY <1>1, <1>3 DEF Starts

\* Every step of a handler keeps the types.
LEMMA RunTypes ==
  ASSUME SettingsTypeOK, Loaded, NEW w \in Worker, Run(w)
  PROVE  SettingsTypeOK'
<1> DEFINE t == call[w]
<1>1. t # NoCall
  BY DEF Run, Use, Select, Install, Store, KeepOwn, Take, Doing
<1>2. t \in Call /\ t.home \in Process /\ t.key \in Key /\ t.plan \in Plan
  BY <1>1, CallShapes
<1>3. NoCall \in Call \cup {NoCall}
  OBVIOUS
<1> HIDE DEF t
<1>4. CASE Use(w)
  <2>1. t.pc = "get"
    BY <1>4 DEF Use, Doing, t
  <2>2. [t EXCEPT !.pc = "take"] \in Call
    <3>1. t \in [pc : {"get", "take"}, home : Process, key : Key, plan : Plan]
      BY <1>2, <2>1 DEF Call
    <3>2. [t EXCEPT !.pc = "take"] \in [pc : {"get", "take"}, home : Process, key : Key, plan : Plan]
      BY <3>1
    <3> QED BY <3>2 DEF Call
  <2>3. CallsFit'
    BY <1>4, <2>2, GoTypes DEF Use, t
  <2> QED BY <1>4, <2>3 DEF SettingsTypeOK, CallsFit, Use
<1>5. CASE Select(w)
  <2>1. [pc |-> "install", home |-> t.home, key |-> t.key, plan |-> t.plan, rows |-> table]
          \in Call
    BY <1>2 DEF SettingsTypeOK, Call
  <2>2. CallsFit'
    BY <1>5, <2>1, GoTypes DEF Select, Mine, t
  <2> QED BY <1>5, <2>2 DEF SettingsTypeOK, CallsFit, Select
<1>6. CASE Install(w)
  <2>1. t.rows \in [Key -> Value]
    BY <1>1, <1>6, CallShapes DEF Install, Doing, t
  <2>2. [pc |-> "take", home |-> t.home, key |-> t.key, plan |-> t.plan] \in Call
    BY <1>2 DEF Call
  <2>3. CallsFit'
    BY <1>6, <2>2, GoTypes DEF Install, Mine, t
  <2>4. cache' \in [Process -> [Key -> Value] \cup {NoCopy}] /\ age' \in [Process -> 0..TTL + 1]
    BY <1>2, <1>6, <2>1, SettingsAssumption DEF SettingsTypeOK, Install, Mine, t
  <2> QED BY <1>6, <2>3, <2>4 DEF SettingsTypeOK, CallsFit, Install
<1>7. CASE Store(w)
  <2>1. t.pc = "set" /\ t.value \in Value
    BY <1>1, <1>7, CallShapes DEF Store, Doing, t
  <2>2. [t EXCEPT !.pc = "own"] \in Call
    <3>1. t \in [pc : {"set", "own"}, home : Process, key : Key, value : Value, plan : Plan]
      BY <1>2, <2>1 DEF Call
    <3>2. [t EXCEPT !.pc = "own"]
            \in [pc : {"set", "own"}, home : Process, key : Key, value : Value, plan : Plan]
      BY <3>1
    <3> QED BY <3>2 DEF Call
  <2>3. CallsFit'
    BY <1>7, <2>2, GoTypes DEF Store, t
  <2>4. table' \in [Key -> Value]
    BY <1>2, <1>7, <2>1 DEF SettingsTypeOK, Store, t
  <2>5. lag' \in [Value -> 0..TTL + Wait + 1]
    BY <1>2, <1>7, <2>1, SettingsAssumption DEF SettingsTypeOK, Store, t
  <2> QED BY <1>7, <2>3, <2>4, <2>5 DEF SettingsTypeOK, CallsFit, Store
<1>8. CASE KeepOwn(w)
  <2>1. t.value \in Value
    BY <1>1, <1>8, CallShapes DEF KeepOwn, Doing, t
  <2>2. cache' \in [Process -> [Key -> Value] \cup {NoCopy}]
    <3>1. CASE cache[t.home] = NoCopy
      BY <1>8, <3>1 DEF SettingsTypeOK, KeepOwn, Mine, t
    <3>2. CASE cache[t.home] # NoCopy
      <4>1. cache[t.home] \in [Key -> Value]
        BY <1>2, <3>2 DEF SettingsTypeOK
      <4>2. cache' = [cache EXCEPT ![t.home][t.key] = t.value]
        BY <1>8, <3>2, Zenon DEF KeepOwn, Mine, t
      <4> QED BY <1>2, <2>1, <4>1, <4>2 DEF SettingsTypeOK
    <3> QED BY <3>1, <3>2
  <2>3. CallsFit'
    <3>1. CASE Proceed(w, NoCall)
      BY <1>3, <3>1, GoTypes
    <3>2. ASSUME NEW v \in Value, Set(w, t.home, "entry", v, "done")
          PROVE  CallsFit'
      BY <1>2, <3>2, FirstTasks DEF Key, Plan
    <3> QED BY <1>8, <3>1, <3>2 DEF KeepOwn, Mine, t
  <2> QED BY <1>8, <2>2, <2>3 DEF SettingsTypeOK, CallsFit, KeepOwn
<1>9. CASE Take(w)
  <2>1. CASE Proceed(w, NoCall)
    <3>1. CallsFit'
      BY <1>3, <2>1, GoTypes
    <3> QED BY <1>9, <3>1 DEF SettingsTypeOK, CallsFit, Take
  <2>2. CASE \E v \in Value : Set(w, t.home, t.key, v, "done")
    <3>1. CallsFit'
      BY <1>2, <2>2, FirstTasks DEF Plan
    <3> QED BY <1>9, <3>1 DEF SettingsTypeOK, CallsFit, Take
  <2>3. CASE Get(w, t.home, "entry", "check") \/ \E v \in Value : Set(w, t.home, "switch", v, "done")
    <3>1. CallsFit'
      BY <1>2, <2>3, FirstTasks DEF Plan, Key
    <3> QED BY <1>9, <3>1 DEF SettingsTypeOK, CallsFit, Take
  <2>4. CASE t.plan = "flip" /\ Set(w, t.home, t.key, 1 - cache[t.home][t.key], "done")
    <3>1. cache[t.home] \in [Key -> Value]
      BY <1>2, <1>9 DEF SettingsTypeOK, Loaded, Take, Mine, t
    <3>2. cache[t.home][t.key] \in Value
      BY <1>2, <3>1
    <3> QED BY <2>2, <2>4, <3>2 DEF Value
  <2> QED BY <1>9, <2>1, <2>2, <2>3, <2>4 DEF Take, Mine, t, Value
<1> QED BY <1>4, <1>5, <1>6, <1>7, <1>8, <1>9 DEF Run

\* Every step of the system keeps the types.
LEMMA NextTypes ==
  ASSUME SettingsTypeOK, Loaded, [SettingsNext]_settingsVars
  PROVE  SettingsTypeOK'
<1>1. CASE UNCHANGED settingsVars
  BY <1>1 DEF SettingsTypeOK, settingsVars
<1>2. CASE Tick
  <2>1. /\ \A n \in 0..TTL + 1 : Older(n, TTL) \in 0..TTL + 1
        /\ \A n \in 0..TTL + Wait + 1 : Older(n, TTL + Wait) \in 0..TTL + Wait + 1
    BY SettingsAssumption DEF Older
  <2>2. age' \in [Process -> 0..TTL + 1]
    BY <1>2, <2>1 DEF SettingsTypeOK, Tick
  <2>3. lag' \in [Value -> 0..TTL + Wait + 1]
    BY <1>2, <2>1, SettingsAssumption DEF SettingsTypeOK, Tick
  <2>4. waited' \in [Worker -> 0..Wait]
    BY <1>2, SettingsAssumption DEF SettingsTypeOK, Tick
  <2> QED BY <1>2, <2>2, <2>3, <2>4 DEF SettingsTypeOK, Tick
<1>3. ASSUME NEW w \in Worker, Run(w)
      PROVE  SettingsTypeOK'
  BY <1>3, RunTypes
<1>4. ASSUME NEW w \in Worker, Bot(w) \/ Request(w)
      PROVE  SettingsTypeOK'
  <2>1. UNCHANGED <<table, cache, age, lag>>
    BY <1>4, Beginnings
  <2>2. CallsFit'
    BY <1>4, Beginnings, FirstTasks
  <2> QED BY <2>1, <2>2 DEF SettingsTypeOK, CallsFit
<1> QED BY <1>1, <1>2, <1>3, <1>4 DEF SettingsNext

-----------------------------------------------------------------------------
(* Settings: how old a value may be.                                        *)

\* A worker that begins something is not between the halves of a load or of a write,
\* and takes no value.
LEMMA NewTask ==
  ASSUME SettingsTypeOK, NEW w \in Worker, NEW p \in Process, NEW k \in Key, NEW plan \in Plan,
         Get(w, p, k, plan) \/ \E v \in Value : Set(w, p, k, v, plan)
  PROVE  call'[w].pc \in {"get", "set"}
<1>1. CASE Get(w, p, k, plan)
  <2>1. call'[w] = [pc |-> "get", home |-> p, key |-> k, plan |-> plan]
    BY <1>1 DEF SettingsTypeOK, Get, Proceed
  <2> QED BY <2>1
<1>2. ASSUME NEW v \in Value, Set(w, p, k, v, plan)
      PROVE  call'[w].pc = "set"
  <2>1. call'[w] = [pc |-> "set", home |-> p, key |-> k, value |-> v, plan |-> plan]
    BY <1>2 DEF SettingsTypeOK, Set, Proceed
  <2> QED BY <2>1
<1> QED BY <1>1, <1>2

\* What was read or written before a wait still fits when another step touches neither
\* the table nor the clock.
LEMMA Quiet ==
  ASSUME SettingsInv, NEW w \in Worker,
         UNCHANGED <<table, cache, age, lag>>,
         \A x \in Worker : x # w => call'[x] = call[x] /\ waited'[x] = waited[x],
         call'[w] = NoCall \/ call'[w].pc \in {"get", "set"}
  PROVE  /\ Loaded' /\ TableIsNow' /\ CopyAlmostAsOldAsItLooks' /\ EntriesReadBeforeWait'
BY DEF SettingsInv, Loaded, TableIsNow, CopyAlmostAsOldAsItLooks, EntriesReadBeforeWait, Doing, Mine

\* The other workers' tasks are left alone by a step of one, which waits anew.
LEMMA OthersStay ==
  ASSUME SettingsTypeOK, NEW w \in Worker, NEW t, Proceed(w, t)
  PROVE  /\ call'[w] = t /\ waited'[w] = 0
         /\ \A x \in Worker : x # w => call'[x] = call[x] /\ waited'[x] = waited[x]
BY DEF SettingsTypeOK, Proceed

\* Time makes a copy and what it holds older alike, and what was read or written before
\* a wait no older than the wait is long.
LEMMA TickKeeps ==
  ASSUME SettingsInv, Tick
  PROVE  Loaded' /\ TableIsNow' /\ CopyAlmostAsOldAsItLooks' /\ EntriesReadBeforeWait'
<1>1. SettingsTypeOK /\ Loaded /\ CopyAlmostAsOldAsItLooks /\ EntriesReadBeforeWait
  BY DEF SettingsInv
<1>2. Loaded'
  BY <1>1 DEF Loaded, Tick, Doing, Mine
<1>3. /\ \A v \in Value : lag'[v] = IF table[Dated] = v THEN 0 ELSE Older(lag[v], TTL + Wait)
      /\ \A v \in Value : lag[v] \in 0..TTL + Wait + 1
  BY <1>1 DEF Tick, SettingsTypeOK
<1>4. TableIsNow'
  BY <1>1, <1>3, SettingsAssumption DEF SettingsTypeOK, TableIsNow, Tick
<1>5. CopyAlmostAsOldAsItLooks'
  <2> SUFFICES ASSUME NEW p \in Process, cache[p] # NoCopy
               PROVE  lag'[cache[p][Dated]] <= age'[p] + Wait
    BY DEF CopyAlmostAsOldAsItLooks, Tick
  <2>1. cache[p][Dated] \in Value /\ age[p] \in 0..TTL + 1
    BY <1>1, SettingsAssumption DEF SettingsTypeOK
  <2> DEFINE n == lag[cache[p][Dated]]
  <2>2. n \in 0..TTL + Wait + 1 /\ n <= age[p] + Wait
    BY <1>1, <1>3, <2>1 DEF CopyAlmostAsOldAsItLooks
  <2>3. Older(n, TTL + Wait) <= Older(age[p], TTL) + Wait /\ 0 <= Older(age[p], TTL) + Wait
    BY <2>1, <2>2, SettingsAssumption DEF Older
  <2>4. age'[p] = Older(age[p], TTL)
    BY DEF Tick
  <2>5. lag'[cache[p][Dated]] = 0 \/ lag'[cache[p][Dated]] = Older(n, TTL + Wait)
    BY <1>3, <2>1
  <2> QED BY <2>3, <2>4, <2>5
<1>6. ASSUME NEW w \in Worker, Waits(w), NEW v \in Value, lag[v] <= waited[w]
      PROVE  lag'[v] <= waited'[w]
  <2>1. waited'[w] = waited[w] + 1 /\ waited[w] \in 0..Wait
    BY <1>1, <1>6 DEF Tick, SettingsTypeOK
  <2>2. lag'[v] = 0 \/ lag'[v] = Older(lag[v], TTL + Wait)
    BY <1>3
  <2>3. Older(lag[v], TTL + Wait) <= lag[v] + 1
    BY <1>3, SettingsAssumption DEF Older
  <2>4. lag[v] \in Nat /\ Older(lag[v], TTL + Wait) \in Nat
    BY <1>3, SettingsAssumption DEF Older
  <2> QED BY <1>6, <2>1, <2>2, <2>3, <2>4, SettingsAssumption
<1>7. EntriesReadBeforeWait'
  <2> SUFFICES ASSUME NEW w \in Worker
               PROVE  /\ Doing(w, "install") => lag'[call[w].rows[Dated]] <= waited'[w]
                      /\ Doing(w, "own") /\ call[w].key = Dated
                           => lag'[call[w].value] <= waited'[w]
    BY DEF EntriesReadBeforeWait, Tick, Doing
  <2>1. /\ Doing(w, "install") => call[w].rows[Dated] \in Value
        /\ Doing(w, "own") => call[w].value \in Value
    BY <1>1, CallShapes, SettingsAssumption DEF Doing
  <2> QED BY <1>1, <1>6, <2>1 DEF EntriesReadBeforeWait, Waits
<1> QED BY <1>2, <1>4, <1>5, <1>7

\* Every step of a handler keeps what the copies promise.
LEMMA RunKeeps ==
  ASSUME SettingsInv, NEW w \in Worker, Run(w)
  PROVE  Loaded' /\ TableIsNow' /\ CopyAlmostAsOldAsItLooks' /\ EntriesReadBeforeWait'
<1> DEFINE t == call[w]
<1>1. t # NoCall
  BY DEF Run, Use, Select, Install, Store, KeepOwn, Take, Doing
<1>2. SettingsTypeOK /\ Loaded /\ TableIsNow /\ CopyAlmostAsOldAsItLooks /\ EntriesReadBeforeWait
  BY DEF SettingsInv
<1>3. t \in Call /\ t.home \in Process /\ t.key \in Key /\ t.plan \in Plan
  BY <1>1, <1>2, CallShapes
<1> HIDE DEF t
<1>4. CASE Use(w)
  <2>1. Proceed(w, [t EXCEPT !.pc = "take"]) /\ t.pc = "get" /\ Fresh(t.home)
    BY <1>4 DEF Use, Mine, Doing, t
  <2>2. [t EXCEPT !.pc = "take"].pc = "take" /\ [t EXCEPT !.pc = "take"].home = t.home
    <3>1. t \in [pc : {"get", "take"}, home : Process, key : Key, plan : Plan]
      BY <1>3, <2>1 DEF Call
    <3> QED BY <3>1
  <2>3. /\ call'[w].pc = "take" /\ call'[w].home = t.home
        /\ \A x \in Worker : x # w => call'[x] = call[x] /\ waited'[x] = waited[x]
    BY <1>2, <2>1, <2>2, OthersStay
  <2> QED BY <1>2, <1>4, <2>1, <2>3
       DEF Use, Fresh, Loaded, TableIsNow, CopyAlmostAsOldAsItLooks, EntriesReadBeforeWait, Doing, Mine
<1>5. CASE Select(w)
  <2> DEFINE n == [pc |-> "install", home |-> t.home, key |-> t.key, plan |-> t.plan, rows |-> table]
  <2>1. Proceed(w, n)
    BY <1>5 DEF Select, Mine, t
  <2>2. n.pc = "install" /\ n.rows = table
    OBVIOUS
  <2> HIDE DEF n
  <2>3. /\ call'[w] = n /\ waited'[w] = 0
        /\ \A x \in Worker : x # w => call'[x] = call[x] /\ waited'[x] = waited[x]
    BY <1>2, <2>1, OthersStay
  <2> QED BY <1>2, <1>5, <2>2, <2>3
       DEF Select, Loaded, TableIsNow, CopyAlmostAsOldAsItLooks, EntriesReadBeforeWait, Doing, Mine
<1>6. CASE Install(w)
  <2> DEFINE n == [pc |-> "take", home |-> t.home, key |-> t.key, plan |-> t.plan]
  <2>1. Proceed(w, n)
    BY <1>6 DEF Install, Mine, t
  <2>2. n.pc = "take" /\ n.home = t.home
    OBVIOUS
  <2> HIDE DEF n
  <2>3. /\ call'[w] = n /\ waited'[w] = 0
        /\ \A x \in Worker : x # w => call'[x] = call[x] /\ waited'[x] = waited[x]
    BY <1>2, <2>1, OthersStay
  <2>4. t.rows \in [Key -> Value] /\ lag[t.rows[Dated]] <= Wait
    <3>1. /\ t.rows \in [Key -> Value] /\ lag[t.rows[Dated]] <= waited[w]
          /\ waited[w] \in 0..Wait
      BY <1>1, <1>2, <1>6, CallShapes DEF Install, Doing, EntriesReadBeforeWait, SettingsTypeOK, t
    <3>2. lag[t.rows[Dated]] \in 0..TTL + Wait + 1
      BY <1>2, <3>1, SettingsAssumption DEF SettingsTypeOK
    <3> QED BY <3>1, <3>2, SettingsAssumption
  <2>5. cache' = [cache EXCEPT ![t.home] = t.rows] /\ age' = [age EXCEPT ![t.home] = 0]
        /\ UNCHANGED <<table, lag>>
    BY <1>6 DEF Install, Mine, t
  <2>6. t.rows # NoCopy
    BY <2>4, SettingsAssumption
  <2>7. Loaded'
    BY <1>2, <1>3, <2>2, <2>3, <2>5, <2>6 DEF SettingsTypeOK, Loaded, Doing, Mine
  <2>8. CopyAlmostAsOldAsItLooks'
    BY <1>2, <1>3, <2>4, <2>5, SettingsAssumption DEF SettingsTypeOK, CopyAlmostAsOldAsItLooks
  <2>9. EntriesReadBeforeWait'
    BY <1>2, <2>2, <2>3, <2>5 DEF EntriesReadBeforeWait, Doing
  <2> QED BY <1>2, <2>5, <2>7, <2>8, <2>9 DEF TableIsNow
<1>7. CASE Store(w)
  <2>1. Proceed(w, [t EXCEPT !.pc = "own"]) /\ t.pc = "set" /\ t.value \in Value
    BY <1>1, <1>2, <1>7, CallShapes DEF Store, Doing, t
  <2>2. /\ [t EXCEPT !.pc = "own"].pc = "own" /\ [t EXCEPT !.pc = "own"].key = t.key
        /\ [t EXCEPT !.pc = "own"].value = t.value
    <3>1. t \in [pc : {"set", "own"}, home : Process, key : Key, value : Value, plan : Plan]
      BY <1>3, <2>1 DEF Call
    <3> QED BY <3>1
  <2>3. /\ call'[w].pc = "own" /\ call'[w].key = t.key /\ call'[w].value = t.value
        /\ waited'[w] = 0
        /\ \A x \in Worker : x # w => call'[x] = call[x] /\ waited'[x] = waited[x]
    BY <1>2, <2>1, <2>2, OthersStay
  <2>4. /\ table' = [table EXCEPT ![t.key] = t.value]
        /\ lag' = IF t.key = Dated THEN [lag EXCEPT ![t.value] = 0] ELSE lag
        /\ UNCHANGED <<cache, age>>
    BY <1>7 DEF Store, t
  <2>5. \A v \in Value :
          /\ lag'[v] = IF t.key = Dated /\ v = t.value THEN 0 ELSE lag[v]
          /\ 0 <= lag[v] /\ lag[v] \in Int /\ lag'[v] <= lag[v]
    BY <1>2, <2>1, <2>4, SettingsAssumption DEF SettingsTypeOK
  <2>6. TableIsNow'
    BY <1>2, <1>3, <2>1, <2>4, <2>5, SettingsAssumption DEF SettingsTypeOK, TableIsNow
  <2>7. CopyAlmostAsOldAsItLooks'
    <3> SUFFICES ASSUME NEW p \in Process, cache[p] # NoCopy
                 PROVE  lag'[cache[p][Dated]] <= age[p] + Wait
      BY <2>4 DEF CopyAlmostAsOldAsItLooks
    <3>1. cache[p][Dated] \in Value /\ age[p] \in 0..TTL + 1
      BY <1>2, SettingsAssumption DEF SettingsTypeOK
    <3>2. lag[cache[p][Dated]] <= age[p] + Wait
      BY <1>2 DEF CopyAlmostAsOldAsItLooks
    <3> QED BY <2>5, <3>1, <3>2, SettingsAssumption
  <2>8. EntriesReadBeforeWait'
    <3>1. ASSUME NEW x \in Worker, Doing(x, "install")'
          PROVE  lag'[call'[x].rows[Dated]] <= waited'[x]
      <4>1. x # w /\ call'[x] = call[x] /\ waited'[x] = waited[x] /\ Doing(x, "install")
        BY <2>3, <3>1 DEF Doing
      <4>2. call[x].rows[Dated] \in Value /\ lag[call[x].rows[Dated]] <= waited[x]
        BY <1>2, <4>1, CallShapes, SettingsAssumption DEF EntriesReadBeforeWait, Doing
      <4>3. waited[x] \in Int
        BY <1>2, SettingsAssumption DEF SettingsTypeOK
      <4> QED BY <2>5, <4>1, <4>2, <4>3
    <3>2. ASSUME NEW x \in Worker, Doing(x, "own")', call'[x].key = Dated
          PROVE  lag'[call'[x].value] <= waited'[x]
      <4>1. CASE x = w
        BY <2>1, <2>3, <2>5, <3>2, <4>1
      <4>2. CASE x # w
        <5>1. call'[x] = call[x] /\ waited'[x] = waited[x] /\ Doing(x, "own")
          BY <2>3, <3>2, <4>2 DEF Doing
        <5>2. call[x].value \in Value /\ lag[call[x].value] <= waited[x]
          BY <1>2, <3>2, <5>1, CallShapes DEF EntriesReadBeforeWait, Doing
        <5>3. waited[x] \in Int
          BY <1>2, SettingsAssumption DEF SettingsTypeOK
        <5> QED BY <2>5, <5>1, <5>2, <5>3
      <4> QED BY <4>1, <4>2
    <3> QED BY <3>1, <3>2 DEF EntriesReadBeforeWait
  <2>9. Loaded'
    BY <1>2, <2>3, <2>4 DEF Loaded, Doing, Mine
  <2> QED BY <2>6, <2>7, <2>8, <2>9
<1>8. CASE KeepOwn(w)
  <2>1. t.value \in Value /\ (t.key = Dated => lag[t.value] <= Wait)
    <3>1. t.value \in Value /\ (t.key = Dated => lag[t.value] <= waited[w])
      BY <1>1, <1>2, <1>8, CallShapes DEF KeepOwn, Doing, EntriesReadBeforeWait, t
    <3>2. waited[w] \in 0..Wait /\ lag[t.value] \in 0..TTL + Wait + 1
      BY <1>2, <3>1 DEF SettingsTypeOK
    <3> QED BY <3>1, <3>2, SettingsAssumption
  <2>2. UNCHANGED <<table, age, lag>>
    BY <1>8 DEF KeepOwn
  <2>3. cache' = IF cache[t.home] = NoCopy THEN cache ELSE [cache EXCEPT ![t.home][t.key] = t.value]
    BY <1>8, Zenon DEF KeepOwn, Mine, t
  <2>4. (\E v \in Value : Set(w, t.home, "entry", v, "done")) \/ Proceed(w, NoCall)
    BY <1>8, Zenon DEF KeepOwn, Mine, t
  <2>5. call'[w] = NoCall \/ call'[w].pc \in {"get", "set"}
    <3>1. CASE Proceed(w, NoCall)
      BY <1>2, <3>1, OthersStay
    <3>2. CASE \E v \in Value : Set(w, t.home, "entry", v, "done")
      BY <1>2, <1>3, <3>2, NewTask DEF Key, Plan
    <3> QED BY <2>4, <3>1, <3>2
  <2>6. \A x \in Worker : x # w => call'[x] = call[x] /\ waited'[x] = waited[x]
    BY <1>2, <2>4, OthersStay DEF Set
  <2>7. \A p \in Process : (cache'[p] = NoCopy) <=> (cache[p] = NoCopy)
    <3>1. CASE cache[t.home] = NoCopy
      BY <2>3, <3>1
    <3>2. CASE cache[t.home] # NoCopy
      <4>1. [cache[t.home] EXCEPT ![t.key] = t.value] \in [Key -> Value]
        BY <1>2, <1>3, <2>1, <3>2 DEF SettingsTypeOK
      <4>2. [cache[t.home] EXCEPT ![t.key] = t.value] # NoCopy
        BY <4>1, SettingsAssumption
      <4>3. cache' = [cache EXCEPT ![t.home] = [cache[t.home] EXCEPT ![t.key] = t.value]]
        BY <2>3, <3>2
      <4> QED BY <1>2, <3>2, <4>2, <4>3 DEF SettingsTypeOK
    <3> QED BY <3>1, <3>2
  <2>8. Loaded'
    BY <1>2, <2>5, <2>6, <2>7, CallShapes DEF Loaded, Doing, Mine
  <2>9. CopyAlmostAsOldAsItLooks'
    <3> SUFFICES ASSUME NEW p \in Process, cache'[p] # NoCopy
                 PROVE  lag[cache'[p][Dated]] <= age[p] + Wait
      BY <2>2 DEF CopyAlmostAsOldAsItLooks
    <3>1. cache[p] # NoCopy /\ lag[cache[p][Dated]] <= age[p] + Wait /\ age[p] \in 0..TTL + 1
      BY <1>2, <2>7 DEF SettingsTypeOK, CopyAlmostAsOldAsItLooks
    <3>2. cache'[p][Dated] = IF p = t.home /\ t.key = Dated THEN t.value ELSE cache[p][Dated]
      BY <1>2, <1>3, <2>3, <3>1, SettingsAssumption DEF SettingsTypeOK
    <3>3. lag[cache'[p][Dated]] \in 0..TTL + Wait + 1
      BY <1>2, <2>1, <3>1, <3>2, SettingsAssumption DEF SettingsTypeOK
    <3> QED BY <2>1, <3>1, <3>2, <3>3, SettingsAssumption
  <2>10. EntriesReadBeforeWait' /\ TableIsNow'
    BY <1>2, <2>2, <2>5, <2>6 DEF EntriesReadBeforeWait, TableIsNow, Doing
  <2> QED BY <2>8, <2>9, <2>10
<1>9. CASE Take(w)
  <2>1. UNCHANGED <<table, cache, age, lag>>
    BY <1>9 DEF Take
  <2>2. \/ Proceed(w, NoCall)
        \/ \E k \in Key, plan \in Plan :
             Get(w, t.home, k, plan) \/ \E v \in Value : Set(w, t.home, k, v, plan)
    <3>1. cache[t.home] \in [Key -> Value]
      BY <1>2, <1>3, <1>9 DEF SettingsTypeOK, Loaded, Take, Mine, t
    <3>2. 1 - cache[t.home][t.key] \in Value
      BY <1>3, <3>1 DEF Value
    <3> QED BY <1>3, <1>9, <3>2 DEF Take, Mine, Key, Plan, Value, t
  <2>3. call'[w] = NoCall \/ call'[w].pc \in {"get", "set"}
    BY <1>2, <1>3, <2>2, NewTask, OthersStay
  <2>4. \A x \in Worker : x # w => call'[x] = call[x] /\ waited'[x] = waited[x]
    BY <1>2, <2>2, OthersStay DEF Get, Set
  <2> QED BY <2>1, <2>3, <2>4, Quiet
<1> QED BY <1>4, <1>5, <1>6, <1>7, <1>8, <1>9 DEF Run

\* The initial states satisfy the invariant.
LEMMA SettingsInitHolds ==
  ASSUME SettingsInit
  PROVE  SettingsInv
<1>1. SettingsTypeOK
  BY SettingsAssumption DEF SettingsInit, SettingsTypeOK, Value
<1>2. TableIsNow
  BY SettingsAssumption DEF SettingsInit, TableIsNow, Value
<1> QED BY <1>1, <1>2 DEF SettingsInit, SettingsInv, Loaded, CopyAlmostAsOldAsItLooks, EntriesReadBeforeWait, Doing

\* Every step keeps the invariant.
LEMMA SettingsNextHolds ==
  ASSUME SettingsInv, [SettingsNext]_settingsVars
  PROVE  SettingsInv'
<1>1. SettingsTypeOK /\ Loaded
  BY DEF SettingsInv
<1>2. SettingsTypeOK'
  BY <1>1, NextTypes
<1>3. Loaded' /\ TableIsNow' /\ CopyAlmostAsOldAsItLooks' /\ EntriesReadBeforeWait'
  <2>1. CASE UNCHANGED settingsVars
    BY <2>1 DEF SettingsInv, Loaded, TableIsNow, CopyAlmostAsOldAsItLooks, EntriesReadBeforeWait, Doing, Mine, settingsVars
  <2>2. CASE Tick
    BY <2>2, TickKeeps
  <2>3. ASSUME NEW w \in Worker, Run(w)
        PROVE  Loaded' /\ TableIsNow' /\ CopyAlmostAsOldAsItLooks' /\ EntriesReadBeforeWait'
    BY <2>3, RunKeeps
  <2>4. ASSUME NEW w \in Worker, Bot(w) \/ Request(w)
        PROVE  Loaded' /\ TableIsNow' /\ CopyAlmostAsOldAsItLooks' /\ EntriesReadBeforeWait'
    <3>1. UNCHANGED <<table, cache, age, lag>>
      BY <1>1, <2>4, Beginnings
    <3>2. PICK p \in Process, k \in Key, plan \in Plan :
            Get(w, p, k, plan) \/ \E v \in Value : Set(w, p, k, v, plan)
      BY <1>1, <2>4, Beginnings
    <3>3. call'[w].pc \in {"get", "set"}
      BY <1>1, <3>2, NewTask
    <3>4. \A x \in Worker : x # w => call'[x] = call[x] /\ waited'[x] = waited[x]
      BY <1>1, <3>2, OthersStay DEF Get, Set
    <3> QED BY <3>1, <3>3, <3>4, Quiet
  <2> QED BY <2>1, <2>2, <2>3, <2>4 DEF SettingsNext
<1> QED BY <1>2, <1>3 DEF SettingsInv

-----------------------------------------------------------------------------
\* The table, the copies, their ages and what the threads are at keep their types
\* (SettingsTypeOK), however loads and writes of one copy overlap.
THEOREM SettingsTypes == SettingsSpec => []SettingsTypeOK
<1>1. SettingsInit => SettingsInv
  BY SettingsInitHolds
<1>2. SettingsInv /\ [SettingsNext]_settingsVars => SettingsInv'
  BY SettingsNextHolds
<1>3. SettingsInv => SettingsTypeOK
  BY DEF SettingsInv
<1> QED BY <1>1, <1>2, <1>3, PTL DEF SettingsSpec

\* No process takes a value for current that was replaced longer ago than TTL and the
\* longest wait (StaleBounded), for any setting, any number of threads, any lifetime of a
\* copy and any bound on the wait for the lock, although a copy is replaced by rows that
\* were read before the wait and before another thread wrote.
THEOREM StaleForTTLAndWait == SettingsSpec => []StaleBounded
<1>1. SettingsInit => SettingsInv
  BY SettingsInitHolds
<1>2. SettingsInv /\ [SettingsNext]_settingsVars => SettingsInv'
  BY SettingsNextHolds
<1>3. SettingsInv => StaleBounded
  <2> SUFFICES ASSUME SettingsInv, NEW p \in Process, Fresh(p)
               PROVE  lag[cache[p][Dated]] <= TTL + Wait
    BY DEF StaleBounded
  <2>1. cache[p] # NoCopy /\ age[p] <= TTL /\ age[p] \in 0..TTL + 1
    BY DEF SettingsInv, SettingsTypeOK, Fresh
  <2>2. lag[cache[p][Dated]] <= age[p] + Wait
    BY <2>1 DEF SettingsInv, CopyAlmostAsOldAsItLooks
  <2>3. lag[cache[p][Dated]] \in 0..TTL + Wait + 1
    BY <2>1, SettingsAssumption DEF SettingsInv, SettingsTypeOK
  <2> QED BY <2>1, <2>2, <2>3, SettingsAssumption
<1> QED BY <1>1, <1>2, <1>3, PTL DEF SettingsSpec
=============================================================================
