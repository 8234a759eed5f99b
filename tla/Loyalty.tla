--------------------------------- MODULE Loyalty ---------------------------------
(*****************************************************************************)
(* The loyalty club (loyalty.py): points for approved orders, for joining    *)
(* and for inviting, corrections by administrators, and their conversion to  *)
(* wallet credit, on the ledger of database.py.                              *)
(*                                                                           *)
(* A worker is a request handler of one of the processes that share the      *)
(* database.  apply_loyalty_mutation first looks for the event's key outside *)
(* any transaction; its first write opens the transaction in which state and *)
(* ledger change together, and the unique index on the key has the last      *)
(* word.  The points of a purchase are computed even earlier, from a state   *)
(* that may have changed since.                                              *)
(*                                                                           *)
(* The club is switched on.  The tier stored with the state, which nothing   *)
(* reads, is left out.                                                       *)
(*****************************************************************************)
EXTENDS Integers, Sequences, FiniteSetsExt

CONSTANTS
  User, Order, Worker,
  Guest,           \* people who may follow the link of a customer
  Buyer,           \* orders.user_id
  Final, Shipping, Base, \* orders.final_price, shipping_cost, base_price
  Tiers,           \* loyalty_tiers by threshold: [min, mult], mult in percent
  Rate,            \* loyalty_points_per_toman
  MaxPerOrder,     \* loyalty_max_per_order, 0 = unlimited
  RegBonus, RefBonus, \* loyalty_reg_bonus, loyalty_referral_bonus, 0 = off
  Invitations,     \* which guest may follow whose link: pairs of referrer and guest
  Lot, LotValue,   \* loyalty_redeem_points and loyalty_redeem_toman
  MinRedeem,       \* loyalty_min_redeem
  Corrections,     \* what administrators add to the points, or take from them
  Mortal,          \* the workers whose process may die
  Idle,            \* a worker between two requests
  MaxEntry         \* bound: ledger entries from redemptions and corrections

ASSUME LoyaltyAssumption ==
  /\ Buyer \in [Order -> User]
  /\ Final \in [Order -> Nat] /\ Shipping \in [Order -> Nat] /\ Base \in [Order -> Nat]
  /\ Tiers \in Seq([min : Nat, mult : Nat])
  /\ Rate \in Nat \ {0} /\ MaxPerOrder \in Nat
  /\ RegBonus \in Nat /\ RefBonus \in Nat
  /\ Invitations \subseteq User \X Guest
  /\ Lot \in Nat \ {0} /\ LotValue \in Nat \ {0} /\ MinRedeem \in Nat
  /\ Corrections \subseteq Int \ {0} /\ Mortal \subseteq Worker /\ MaxEntry \in Nat

NoKey == <<"none">>
Key == ({"purchase", "refund"} \X Order) \cup ({"registration"} \X User)
         \cup ({"referral"} \X Invitations) \cup {NoKey}
Kind == {"PURCHASE", "PURCHASE_REFUND", "REGISTRATION_BONUS", "REFERRAL_BONUS",
         "ADMIN_ADJUSTMENT", "POINTS_REDEEM"}

Entry == [kind : Kind, amount : Int, after : Nat, key : Key]
Task == [pc : {"approved", "cancel", "rejected"}, order : Order]
        \cup [pc : {"check", "write"}, user : User, kind : Kind, key : Key, amount : Int]

ASSUME LoyaltySentinel == Idle \notin Task

VARIABLES
  status,   \* orders.status, "none" before the order is made
  points,   \* loyalty_state.current_points
  earned,   \* loyalty_state.lifetime_earned
  spent,    \* loyalty_state.lifetime_spent
  ledger,   \* loyalty_ledger, in the order of the ids, by customer
  wallet,   \* users.referral_credit from redemptions
  task      \* what every worker is doing

state == <<points, earned, spent, ledger, wallet>>
vars == <<status, points, earned, spent, ledger, wallet, task>>

TypeOK ==
  /\ status \in [Order -> {"none", "pending", "approved", "rejected"}]
  /\ points \in [User -> Nat] /\ earned \in [User -> Nat] /\ spent \in [User -> Nat]
  /\ ledger \in [User -> Seq(Entry)]
  /\ wallet \in [User -> Nat]
  /\ task \in [Worker -> Task \cup {Idle}]

\* Only an order that costs nothing in the end is made without waiting for payment.
Init ==
  /\ status = [o \in Order |-> IF Final[o] = 0 THEN "none" ELSE "pending"]
  /\ points = [u \in User |-> 0] /\ earned = [u \in User |-> 0]
  /\ spent = [u \in User |-> 0]
  /\ ledger = [u \in User |-> <<>>] /\ wallet = [u \in User |-> 0]
  /\ task = [w \in Worker |-> Idle]

-----------------------------------------------------------------------------
(* The rules.                                                                 *)

\* tier_for: the multiplier of the highest tier that is reached, 100 below all.
Multiplier(lifetime) ==
  LET reached == {i \in DOMAIN Tiers : Tiers[i].min <= lifetime}
  IN IF reached = {} THEN 100 ELSE Tiers[Max(reached)].mult

\* What was paid for the goods. An order that cost nothing in the end counts with
\* the price of its goods.
PaidFor(o) ==
  IF Final[o] = 0 THEN Base[o]
  ELSE IF Final[o] < Shipping[o] THEN 0 ELSE Final[o] - Shipping[o]

\* _purchase_points.
PurchasePoints(paid, lifetime) ==
  LET p == (paid * Multiplier(lifetime)) \div (Rate * 100)
  IN IF MaxPerOrder > 0 /\ p > MaxPerOrder THEN MaxPerOrder ELSE p

Entries(u) == {ledger[u][i] : i \in DOMAIN ledger[u]}
Recorded(k) == \E u \in User : \E e \in Entries(u) : e.key = k
Bounded == MapThenSumSet(LAMBDA u : Len(SelectSeq(ledger[u], LAMBDA e : e.key = NoKey)), User)
             < MaxEntry

At(w, p) == task[w] # Idle /\ task[w].pc = p
Go(w, t) == task' = [task EXCEPT ![w] = t]
Request(u, kind, key, amount) ==
  [pc |-> "check", user |-> u, kind |-> kind, key |-> key, amount |-> amount]

-----------------------------------------------------------------------------
(* The orders.                                                                *)

\* Mutation: UPDATE orders without status = 'pending'.
UndecidedOrNot(o) == status[o] \notin {"none", "rejected"}

Undecided(o) == status[o] = "pending"

\* decide_order; the handler goes on with award_after_approve.
Approve(w, o) ==
  /\ task[w] = Idle /\ Undecided(o)
  /\ status' = [status EXCEPT ![o] = "approved"]
  /\ Go(w, [pc |-> "approved", order |-> o])
  /\ UNCHANGED state

\* The buttons of the two bots and of the panel.
OrderApprove(w, o) == Approve(w, o)
BaleOrderApprove(w, o) == Approve(w, o)
PanelApprove(w, o) == Approve(w, o)

\* An order its buyer's wallet pays for, in the handlers that award points.
BuyWithWallet(w, o) ==
  /\ task[w] = Idle /\ status[o] = "none"
  /\ status' = [status EXCEPT ![o] = "approved"]
  /\ Go(w, [pc |-> "approved", order |-> o])
  /\ UNCHANGED state

RunCheckout(w, o) == BuyWithWallet(w, o)
CreateOrder(w, o) == BuyWithWallet(w, o)

\* The same in api_cart_checkout of the Mini App and in the Bale bot, which end here.
BuyWithWalletElsewhere(o) ==
  /\ status[o] = "none"
  /\ status' = [status EXCEPT ![o] = "approved"]
  /\ UNCHANGED <<state, task>>
CartCheckout(o) == BuyWithWalletElsewhere(o)
BaleCheckout(o) == BuyWithWalletElsewhere(o)

\* A checkout sent again is answered with its order, and awarded again.
Replay(w, o) ==
  /\ task[w] = Idle /\ status[o] = "approved"
  /\ Go(w, [pc |-> "approved", order |-> o])
  /\ UNCHANGED <<status, state>>

\* decide_order; the handler goes on with refund_loyalty_for_rejected.
Reject(w, o) ==
  /\ task[w] = Idle /\ Undecided(o)
  /\ status' = [status EXCEPT ![o] = "rejected"]
  /\ Go(w, [pc |-> "rejected", order |-> o])
  /\ UNCHANGED state

OrderReject(w, o) == Reject(w, o)
BaleOrderReject(w, o) == Reject(w, o)
PanelReject(w, o) == Reject(w, o)

\* cb_cancel_flow of the bot looks at the order, gives way, and rejects it; whatever
\* became of the order meanwhile, reverse_purchase follows.
Cancel(w, o) ==
  /\ task[w] = Idle /\ Undecided(o)
  /\ Go(w, [pc |-> "cancel", order |-> o])
  /\ UNCHANGED <<status, state>>

RejectCancelled(w) ==
  LET o == task[w].order
  IN /\ At(w, "cancel")
     /\ status' = IF Undecided(o) THEN [status EXCEPT ![o] = "rejected"] ELSE status
     /\ Go(w, [task[w] EXCEPT !.pc = "rejected"])
     /\ UNCHANGED state

-----------------------------------------------------------------------------
(* Points are asked for.                                                      *)

\* award_purchase, up to apply_loyalty_mutation.
AwardPurchase(w) ==
  /\ At(w, "approved")
  /\ LET o == task[w].order
         p == PurchasePoints(PaidFor(o), earned[Buyer[o]])
     IN Go(w, IF status[o] # "approved" \/ p <= 0 THEN Idle
              ELSE Request(Buyer[o], "PURCHASE", <<"purchase", o>>, p))
  /\ UNCHANGED <<status, state>>

\* reverse_purchase: only what was awarded is taken back.
ReversePurchase(w) ==
  /\ At(w, "rejected")
  /\ LET o == task[w].order
         award == {e \in Entries(Buyer[o]) : e.key = <<"purchase", o>>}
         paid == (CHOOSE e \in award : TRUE).amount
     IN Go(w, IF award = {} THEN Idle
              ELSE Request(Buyer[o], "PURCHASE_REFUND", <<"refund", o>>, -paid))
  /\ UNCHANGED <<status, state>>

\* award_registration, on every /start of either bot.
Register(w, u) ==
  /\ task[w] = Idle /\ RegBonus > 0
  /\ Go(w, Request(u, "REGISTRATION_BONUS", <<"registration", u>>, RegBonus))
  /\ UNCHANGED <<status, state>>
Start(w, u) == Register(w, u)
BaleStart(w, u) == Register(w, u)

\* award_referral, on every /start with a link.
Refer(w, p) ==
  /\ task[w] = Idle /\ RefBonus > 0
  /\ Go(w, Request(p[1], "REFERRAL_BONUS", <<"referral", p>>, RefBonus))
  /\ UNCHANGED <<status, state>>

\* admin_adjust has no key, so nothing is looked up.
Adjust(w, u, d) ==
  /\ task[w] = Idle /\ Bounded
  /\ Go(w, [Request(u, "ADMIN_ADJUSTMENT", NoKey, d) EXCEPT !.pc = "write"])
  /\ UNCHANGED <<status, state>>
AdjustByHand(w, u, d) == Adjust(w, u, d)
PanelAdjust(w, u, d) == Adjust(w, u, d)

-----------------------------------------------------------------------------
(* apply_loyalty_mutation.                                                    *)

\* Mutation: the kind is looked up in the place of the key.
CheckKind(w) ==
  /\ At(w, "check")
  /\ Go(w, IF \E e \in Entries(task[w].user) : e.kind = task[w].kind
           THEN Idle ELSE [task[w] EXCEPT !.pc = "write"])
  /\ UNCHANGED <<status, state>>

\* The key is looked up before the transaction.
Check(w) ==
  /\ At(w, "check")
  /\ Go(w, IF Recorded(task[w].key) THEN Idle ELSE [task[w] EXCEPT !.pc = "write"])
  /\ UNCHANGED <<status, state>>

\* Mutation: no unique index on idem_key.
NeverDuplicate(k) == FALSE

\* The unique index on idem_key refuses a second entry.
Duplicate(k) == k # NoKey /\ Recorded(k)

\* Mutation: what was written before the ledger refused the entry is committed.
WriteWithoutRollback(w) ==
  LET t == task[w]
      balance == points[t.user] + t.amount
  IN /\ At(w, "write")
     /\ IF balance < 0 THEN UNCHANGED state
        ELSE /\ points' = [points EXCEPT ![t.user] = balance]
             /\ earned' = [earned EXCEPT ![t.user] = @ + (IF t.amount > 0 THEN t.amount ELSE 0)]
             /\ ledger' = IF Duplicate(t.key) THEN ledger
                          ELSE [ledger EXCEPT ![t.user] = Append(@,
                            [kind |-> t.kind, amount |-> t.amount, after |-> balance, key |-> t.key])]
             /\ UNCHANGED <<spent, wallet>>
     /\ Go(w, Idle)
     /\ UNCHANGED status

\* The transaction: a negative balance or a key that is taken rolls it back.
Write(w) ==
  LET t == task[w]
      balance == points[t.user] + t.amount
  IN /\ At(w, "write")
     /\ IF balance < 0 \/ Duplicate(t.key) THEN UNCHANGED state
        ELSE /\ points' = [points EXCEPT ![t.user] = balance]
             /\ earned' = [earned EXCEPT ![t.user] = @ + (IF t.amount > 0 THEN t.amount ELSE 0)]
             /\ ledger' = [ledger EXCEPT ![t.user] = Append(@,
                  [kind |-> t.kind, amount |-> t.amount, after |-> balance, key |-> t.key])]
             /\ UNCHANGED <<spent, wallet>>
     /\ Go(w, Idle)
     /\ UNCHANGED status

-----------------------------------------------------------------------------
(* redeem: lots of points for wallet credit.                                  *)

\* Mutation: UPDATE loyalty_state without current_points >= ?.
AffordableAlways(u, p) == TRUE

Affordable(u, p) == points[u] >= p

\* redeem_points_for_wallet, one transaction with a key of its own.
Redeem(u, n) ==
  LET p == n * Lot
  IN /\ n > 0 /\ p >= MinRedeem /\ Bounded
     /\ Affordable(u, p)
     /\ points' = [points EXCEPT ![u] = @ - p]
     /\ spent' = [spent EXCEPT ![u] = @ + p]
     /\ wallet' = [wallet EXCEPT ![u] = @ + n * LotValue]
     /\ ledger' = [ledger EXCEPT ![u] = Append(@,
          [kind |-> "POINTS_REDEEM", amount |-> -p, after |-> points[u] - p, key |-> NoKey])]
     /\ UNCHANGED <<status, earned, task>>
RedeemConfirmed(u, n) == Redeem(u, n)
BaleRedeem(u, n) == Redeem(u, n)

\* The process dies; an open transaction is rolled back.
Crash(w) ==
  /\ task[w] # Idle
  /\ Go(w, Idle)
  /\ UNCHANGED <<status, state>>

-----------------------------------------------------------------------------
Run(w) == RejectCancelled(w) \/ AwardPurchase(w) \/ ReversePurchase(w) \/ Check(w) \/ Write(w)

Next ==
  \/ \E w \in Worker : Run(w)
  \/ \E w \in Mortal : Crash(w)
  \/ \E w \in Worker, o \in Order :
       \/ OrderApprove(w, o) \/ BaleOrderApprove(w, o) \/ PanelApprove(w, o)
       \/ RunCheckout(w, o) \/ CreateOrder(w, o) \/ Replay(w, o)
       \/ OrderReject(w, o) \/ BaleOrderReject(w, o) \/ PanelReject(w, o) \/ Cancel(w, o)
  \/ \E o \in Order : CartCheckout(o) \/ BaleCheckout(o)
  \/ \E w \in Worker, u \in User :
       \/ Start(w, u) \/ BaleStart(w, u)
       \/ \E d \in Corrections : AdjustByHand(w, u, d) \/ PanelAdjust(w, u, d)
  \/ \E w \in Worker, p \in Invitations : Refer(w, p)
  \/ \E u \in User, n \in {1, 2} : RedeemConfirmed(u, n) \/ BaleRedeem(u, n)

Spec == Init /\ [][Next]_vars

\* A handler that awards points goes on unless its process dies.
Award(w) == AwardPurchase(w) \/ Check(w) \/ Write(w)
FairSpec == Spec /\ \A w \in Worker \ Mortal : WF_task(Award(w))

-----------------------------------------------------------------------------
(* What the club promises.                                                    *)

\* "Every change of the balance is one new record" (docstring of loyalty.py): the
\* entries of a customer form a chain from zero to the current points, although
\* several handlers change the balance at once and some are rolled back.
LedgerChain ==
  \A u \in User :
    LET l == ledger[u]
    IN /\ points[u] = IF l = <<>> THEN 0 ELSE l[Len(l)].after
       /\ \A i \in 1..Len(l) :
            l[i].after = l[i].amount + IF i = 1 THEN 0 ELSE l[i - 1].after

\* An event earns points once: no two entries, of whichever customers, have the
\* same key, even if two processes handle the event at the same time.
EventOnce ==
  \A u, v \in User : \A i \in 1..Len(ledger[u]), j \in 1..Len(ledger[v]) :
    /\ ledger[u][i].key = ledger[v][j].key
    /\ ledger[u][i].key # NoKey
    => u = v /\ i = j

\* What the entries of a ledger add, which of them add to the points, and which spend
\* points for wallet credit.
Amounts(l) == [i \in DOMAIN l |-> l[i].amount]
Gains(l) == {i \in DOMAIN l : l[i].amount > 0}
Redemptions(l) == {i \in DOMAIN l : l[i].kind = "POINTS_REDEEM"}

\* The state is the ledger summed up: the points are what all entries add, what was
\* ever earned is what the gains added, refunds and corrections downwards leave it
\* alone, and every lot that was spent arrived in the wallet.
StateIsLedger ==
  \A u \in User :
    LET l == ledger[u]
    IN /\ points[u] = SumFunctionOnSet(Amounts(l), DOMAIN l)
       /\ earned[u] = SumFunctionOnSet(Amounts(l), Gains(l))
       /\ spent[u] = -SumFunctionOnSet(Amounts(l), Redemptions(l))
       /\ wallet[u] * Lot = spent[u] * LotValue

\* An order that was rejected has earned nothing, whatever handler still works.
RejectedEarnsNothing ==
  \A o \in Order : status[o] = "rejected" => ~Recorded(<<"purchase", o>>)

\* The handler that approved an order gets its points to the buyer, unless they
\* are nothing or its process dies: whoever else awards, redeems, corrects or
\* dies meanwhile.
Worthless(o) == PurchasePoints(PaidFor(o), 0) = 0
HandlerAwards ==
  \A w \in Worker \ Mortal, o \in Order :
    (At(w, "approved") /\ task[w].order = o)
      ~> (Recorded(<<"purchase", o>>) \/ Worthless(o))
=============================================================================
