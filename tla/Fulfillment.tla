------------------------------- MODULE Fulfillment -------------------------------
(*****************************************************************************)
(* What happens to a physical order after the checkout: the financial        *)
(* decision and the shipping stage (services/orders.py), and the stock of    *)
(* the variant (services/inventory.py), by administrators who work at the    *)
(* same time in the web panel and in the bots.                               *)
(*                                                                           *)
(* set_fulfillment_status reads the order in one transaction and writes the  *)
(* stage in another; decide_order decides in one and adds its event in       *)
(* another.  The event of a change of stage, which nothing reads, is left    *)
(* out.  A physical order is one row of one variant here.                    *)
(*****************************************************************************)
EXTENDS Integers, FiniteSetsExt

CONSTANTS
  Order,       \* orders of the variant
  Admin,       \* administrators' requests being served at the same time
  Qty,         \* order_items.quantity of every order
  Received,    \* inventory.on_hand at the start
  Levels,      \* what administrators set on_hand to
  Deltas,      \* what they add to on_hand, or take from it
  Targets,     \* stages administrators ask for
  Free         \* an administrator between two requests

Line == <<"processing", "packed", "shipped", "delivered">>
Stage == {"processing", "packed", "shipped", "delivered", "cancelled"}
Verdict == {"approved", "rejected"}

ASSUME FulfillmentAssumption ==
  /\ IsFiniteSet(Order)
  /\ Qty \in [Order -> Nat \ {0}] /\ Received \in Nat
  /\ Levels \subseteq Nat /\ Deltas \subseteq Int
  /\ Targets \subseteq Stage \ {"processing"}

VARIABLES
  status,    \* orders.status, "none" before the order exists
  stage,     \* orders.physical_fulfillment_status
  onHand,    \* inventory.on_hand
  reserved,  \* inventory.reserved
  freed,     \* history: how often an order's reservation was given back, 2 = more than once
  events,    \* fulfillment_events of decisions: order and verdict
  handling       \* what every administrator's request is doing

fulfillmentVars == <<status, stage, onHand, reserved, freed, events, handling>>

Handling == [pc : {"write"}, order : Order, to : Stage]
        \cup [pc : {"decided"}, order : Order, to : Verdict]

FulfillmentTypeOK ==
  /\ status \in [Order -> {"none", "pending"} \cup Verdict]
  /\ stage \in [Order -> Stage]
  /\ onHand \in Nat /\ reserved \in Nat
  /\ freed \in [Order -> 0..2]
  /\ events \subseteq Order \X Verdict
  /\ handling \in [Admin -> Handling \cup {Free}]

FulfillmentInit ==
  /\ status = [o \in Order |-> "none"]
  /\ stage = [o \in Order |-> "processing"]
  /\ onHand = Received /\ reserved = 0 /\ freed = [o \in Order |-> 0] /\ events = {}
  /\ handling = [a \in Admin |-> Free]

-----------------------------------------------------------------------------
(* Checkout, as far as the variant is concerned (module Checkout).            *)

\* _reserve_item inside the transaction; an order paid by the wallet is approved.
Sell(o) ==
  /\ status[o] = "none"
  /\ onHand - reserved >= Qty[o]
  /\ reserved' = reserved + Qty[o]
  /\ \E s \in {"pending", "approved"} : status' = [status EXCEPT ![o] = s]
  /\ UNCHANGED <<stage, onHand, freed, events, handling>>

-----------------------------------------------------------------------------
(* decide_order.                                                              *)

\* Mutation: one unit for every item, whatever its quantity.
ReleaseOne(o) == IF reserved = 0 THEN 0 ELSE reserved - 1

\* MAX(reserved - quantity, 0).
Release(o) == IF reserved < Qty[o] THEN 0 ELSE reserved - Qty[o]

FreedOnceMore(o) == [freed EXCEPT ![o] = IF @ < 2 THEN @ + 1 ELSE @]

\* Mutation: the decision is not conditional on status = 'pending'.
UndecidedOrNot(o) == status[o] # "none"

Undecided(o) == status[o] = "pending"

\* approve_order resets the stage, whatever it was.
Approve(a, o) ==
  /\ handling[a] = Free /\ Undecided(o)
  /\ status' = [status EXCEPT ![o] = "approved"]
  /\ stage' = [stage EXCEPT ![o] = "processing"]
  /\ handling' = [handling EXCEPT ![a] = [pc |-> "decided", order |-> o, to |-> "approved"]]
  /\ UNCHANGED <<onHand, reserved, freed, events>>

\* Mutation: a rejection keeps the reservation.
RejectKeeps(a, o) ==
  /\ handling[a] = Free /\ Undecided(o)
  /\ status' = [status EXCEPT ![o] = "rejected"]
  /\ freed' = FreedOnceMore(o)
  /\ handling' = [handling EXCEPT ![a] = [pc |-> "decided", order |-> o, to |-> "rejected"]]
  /\ UNCHANGED <<stage, onHand, reserved, events>>

\* reject_order gives the reservation back in the same transaction.
Reject(a, o) ==
  /\ handling[a] = Free /\ Undecided(o)
  /\ status' = [status EXCEPT ![o] = "rejected"]
  /\ reserved' = Release(o) /\ freed' = FreedOnceMore(o)
  /\ handling' = [handling EXCEPT ![a] = [pc |-> "decided", order |-> o, to |-> "rejected"]]
  /\ UNCHANGED <<stage, onHand, events>>

\* add_fulfillment_event, in a transaction of its own after the decision.
LogDecision(a) ==
  /\ handling[a] # Free /\ handling[a].pc = "decided"
  /\ events' = events \cup {<<handling[a].order, handling[a].to>>}
  /\ handling' = [handling EXCEPT ![a] = Free]
  /\ UNCHANGED <<status, stage, onHand, reserved, freed>>

-----------------------------------------------------------------------------
(* set_fulfillment_status.                                                    *)

\* valid.index(current), and 0 for a stage that is not on the line.
Position(s) == IF \E i \in 1..4 : Line[i] = s THEN CHOOSE i \in 1..4 : Line[i] = s ELSE 1

\* What the stage that was read allows; a stage the order already has is left.
Allowed(from, to) ==
  \/ to = "cancelled" /\ from # "cancelled"
  \/ to # "cancelled" /\ Position(to) = Position(from) + 1

\* get_order and the checks. A request that is refused changes nothing.
ReadStage(a, o, to) ==
  /\ handling[a] = Free /\ status[o] # "none"
  /\ Allowed(stage[o], to)
  /\ handling' = [handling EXCEPT ![a] = [pc |-> "write", order |-> o, to |-> to]]
  /\ UNCHANGED <<status, stage, onHand, reserved, freed, events>>
\* The panel; the bots have no button for it.
ApiFulfillment(a, o, to) == ReadStage(a, o, to)

\* set_physical_fulfillment_status or cancel_physical_fulfillment, which do not
\* look at the stage again.
WriteStage(a) ==
  LET t == handling[a]
  IN /\ t # Free /\ t.pc = "write"
     /\ stage' = [stage EXCEPT ![t.order] = t.to]
     /\ IF t.to = "cancelled"
        THEN reserved' = Release(t.order) /\ freed' = FreedOnceMore(t.order)
        ELSE UNCHANGED <<reserved, freed>>
     /\ handling' = [handling EXCEPT ![a] = Free]
     /\ UNCHANGED <<status, onHand, events>>

\* The process dies between two transactions, or the event fails.
Crash(a) ==
  /\ handling[a] # Free
  /\ handling' = [handling EXCEPT ![a] = Free]
  /\ UNCHANGED <<status, stage, onHand, reserved, freed, events>>

-----------------------------------------------------------------------------
(* The stock.                                                                 *)

SetInventory(n) ==
  /\ onHand' = n
  /\ UNCHANGED <<status, stage, reserved, freed, events, handling>>

\* Mutation: the UPDATE without (on_hand + ?) >= 0.
AdjustInventoryUnguarded(d) ==
  /\ onHand' = onHand + d
  /\ UNCHANGED <<status, stage, reserved, freed, events, handling>>

AdjustInventory(d) ==
  /\ onHand + d >= 0 /\ onHand + d <= 2 * Received     \* bound of the instance
  /\ onHand' = onHand + d
  /\ UNCHANGED <<status, stage, reserved, freed, events, handling>>
ApiInventory(d) == AdjustInventory(d)

-----------------------------------------------------------------------------
FulfillmentNext ==
  \/ \E o \in Order : Sell(o)
  \/ \E a \in Admin, o \in Order :
       Approve(a, o) \/ Reject(a, o) \/ \E to \in Targets : ApiFulfillment(a, o, to)
  \/ \E a \in Admin : LogDecision(a) \/ WriteStage(a) \/ Crash(a)
  \/ \E n \in Levels : SetInventory(n)
  \/ \E d \in Deltas : ApiInventory(d)

FulfillmentSpec == FulfillmentInit /\ [][FulfillmentNext]_fulfillmentVars

-----------------------------------------------------------------------------
(* What the shop may rely on.                                                 *)

Sold == {o \in Order : status[o] # "none"}
Open == {o \in Sold : freed[o] = 0}
QtyOf(orders) == SumFunctionOnSet(Qty, orders)

\* Nothing stays reserved for orders that were rejected or cancelled: whatever the
\* administrators do, goods come back on sale when their order ends.
NothingStuck == reserved <= QtyOf(Open)

\* As long as no order gave its goods back twice, the reservation is exactly what
\* the open orders hold, also while the stock is corrected under them.
ReservedExact == (\A o \in Order : freed[o] <= 1) => reserved = QtyOf(Open)

\* The history tells the truth about the money: an order with an approval event is
\* approved, one with a rejection event is rejected, also when several
\* administrators decide at once and requests die half way.
DecisionsTruthful ==
  \A e \in events : status[e[1]] = e[2]
=============================================================================
