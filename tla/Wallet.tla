---------------------------------- MODULE Wallet ----------------------------------
(*****************************************************************************)
(* What flows into the customers' wallets apart from refunds and points:     *)
(* the commission on the first purchase of an invited customer, the bonus    *)
(* per invitation, and top-ups that an administrator has approved; and the   *)
(* free product for many invitations.                                        *)
(*                                                                           *)
(* A worker is a handler of one of the processes that share the database.    *)
(* Every call of database.py is one step, because the lock of its process    *)
(* and the transaction of its first write protect it, except where it reads  *)
(* before it writes and another process may come in between.                 *)
(*                                                                           *)
(* All three models of referral are switched on.                             *)
(*****************************************************************************)
EXTENDS Integers, FiniteSetsExt

CONSTANTS
  User, Order, TopUp, Worker,
  NoOne,          \* referred_by IS NULL
  Link,           \* who may follow whose link: pairs of inviter and invited
  Buyer,          \* orders.user_id
  Commission,     \* referral_percent of what is paid for the goods of an order
  MaxCommissions, \* referral_commission_max_count, 0 = unlimited
  Bonus,          \* referral_invite_bonus_amount
  MaxBonuses,     \* referral_invite_bonus_max_count, 0 = unlimited
  Threshold,      \* referral_free_config_threshold
  Owner, Amount,  \* wallet_topups.user_id and amount
  Mortal,         \* the workers whose process may die
  Idle            \* a worker between two requests

ASSUME WalletAssumption ==
  /\ NoOne \notin User
  /\ Link \subseteq {p \in User \X User : p[1] # p[2]}
  /\ Buyer \in [Order -> User] /\ Commission \in [Order -> Nat \ {0}]
  /\ MaxCommissions \in Nat /\ Bonus \in Nat \ {0} /\ MaxBonuses \in Nat
  /\ Threshold \in Nat \ {0}
  /\ Owner \in [TopUp -> User] /\ Amount \in [TopUp -> Nat]
  /\ Mortal \subseteq Worker

\* What somebody is paid for.
Income == [kind : {"commission"}, of : Order, to : User]
          \cup [kind : {"bonus"}, of : User, to : User]
          \cup [kind : {"topup"}, of : TopUp, to : User]
Verdict == {"approved", "rejected"}
Task == [pc : {"set", "invite"}, inviter : User, user : User]
        \cup [pc : {"bonus"}, inviter : User, user : User, given : BOOLEAN]
        \cup [pc : {"award", "enter", "reward"}, order : Order]
        \cup [pc : {"claim"}, order : Order, inviter : User, full : BOOLEAN]
        \cup [pc : {"decide"}, topup : TopUp, verdict : Verdict]

ASSUME WalletSentinels == Idle \notin Task

VARIABLES
  referredBy, \* users.referred_by
  rewarded,   \* customers with referral_first_purchase_rewarded
  counted,    \* customers with referral_invite_bonus_given
  gifted,     \* customers with referral_free_config_given
  gifts,      \* history: how often a customer was given the free product
  credit,     \* users.referral_credit
  approved,   \* the orders with status approved
  awarded,    \* the orders whose points are in the ledger (module Loyalty)
  topup,      \* wallet_topups.status, "none" before the request
  paid,       \* history: how often each income was paid
  task        \* what every worker is doing

invitation == <<referredBy, counted, gifted, gifts>>
money == <<credit, paid>>
orders == <<approved, awarded>>
vars == <<referredBy, rewarded, counted, gifted, gifts, credit, approved, awarded, topup,
          paid, task>>

TypeOK ==
  /\ referredBy \in [User -> User \cup {NoOne}]
  /\ rewarded \subseteq User /\ counted \subseteq User /\ gifted \subseteq User
  /\ gifts \in [User -> Nat]
  /\ credit \in [User -> Nat]
  /\ approved \subseteq Order /\ awarded \subseteq Order
  /\ topup \in [TopUp -> {"none", "pending"} \cup Verdict]
  /\ paid \in [Income -> Nat]
  /\ task \in [Worker -> Task \cup {Idle}]

Init ==
  /\ referredBy = [u \in User |-> NoOne]
  /\ rewarded = {} /\ counted = {} /\ gifted = {} /\ gifts = [u \in User |-> 0]
  /\ credit = [u \in User |-> 0]
  /\ approved = {} /\ awarded = {}
  /\ topup = [t \in TopUp |-> "none"]
  /\ paid = [x \in Income |-> 0]
  /\ task = [w \in Worker |-> Idle]

At(w, p) == task[w] # Idle /\ task[w].pc = p
Go(w, t) == task' = [task EXCEPT ![w] = t]

Pay(x, n) ==
  /\ credit' = [credit EXCEPT ![x.to] = @ + n]
  /\ paid' = [paid EXCEPT ![x] = @ + 1]
Invited(r) == {u \in User : referredBy[u] = r}

-----------------------------------------------------------------------------
(* /start with a link; the same customer may follow two at once.              *)

\* get_user in either bot: who was invited already is not looked at again.
TelegramStart(u) == referredBy[u] = NoOne
BaleStart(u) == referredBy[u] = NoOne
Start(w, p) ==
  /\ task[w] = Idle /\ (TelegramStart(p[2]) \/ BaleStart(p[2]))
  /\ Go(w, [pc |-> "set", inviter |-> p[1], user |-> p[2]])
  /\ UNCHANGED <<invitation, money, rewarded, orders, topup>>

\* Mutation: set_referred_by does not look again.
NotYet(u) == TRUE

NotInvited(u) == referredBy[u] = NoOne

\* set_referred_by; the handler goes on, whether or not it came first. It looks before it
\* writes, but a customer is served by one bot, whose lock is held for both.
SetReferredBy(w) ==
  LET t == task[w]
  IN /\ At(w, "set")
     /\ referredBy' = IF NotInvited(t.user)
                      THEN [referredBy EXCEPT ![t.user] = t.inviter] ELSE referredBy
     /\ Go(w, [t EXCEPT !.pc = "invite"])
     /\ UNCHANGED <<counted, gifted, gifts, money, rewarded, orders, topup>>

Uncounted(u) == u \notin counted

\* Mutation: the customers are counted before the new one is marked.
BonusLeftBefore(r) == MaxBonuses = 0 \/ Cardinality(Invited(r) \cap counted) <= MaxBonuses

\* The new customer is among those that are counted when they are recorded as r's.
BonusLeft(r) == MaxBonuses = 0 \/ Cardinality(Invited(r) \cap counted') <= MaxBonuses

\* Mutation: the column is not looked at.
NeverGiven(r) == FALSE

Given(r) == r \in gifted

\* apply_referral_invite_rewards up to its first write: whether the inviter has the free
\* product is read outside a transaction.
ReadGift(w) ==
  LET t == task[w]
  IN /\ At(w, "invite")
     /\ Go(w, [pc |-> "bonus", inviter |-> t.inviter, user |-> t.user,
               given |-> Given(t.inviter)])
     /\ UNCHANGED <<invitation, money, rewarded, orders, topup>>

\* Its transaction: the bonus, then the free product by what was read before. The flag is
\* set without a look at it.
InviteRewards(w) ==
  LET t == task[w]
      r == t.inviter
      getsBonus == Uncounted(t.user) /\ BonusLeft(r)
      getsGift == ~t.given /\ Cardinality(Invited(r)) >= Threshold
  IN /\ At(w, "bonus")
     /\ counted' = counted \cup {t.user}
     /\ IF getsBonus THEN Pay([kind |-> "bonus", of |-> t.user, to |-> r], Bonus)
        ELSE UNCHANGED money
     /\ gifted' = IF getsGift THEN gifted \cup {r} ELSE gifted
     /\ gifts' = IF getsGift THEN [gifts EXCEPT ![r] = @ + 1] ELSE gifts
     /\ Go(w, Idle)
     /\ UNCHANGED <<referredBy, rewarded, orders, topup>>

-----------------------------------------------------------------------------
(* The commission on the first purchase.                                      *)

\* decide_order, or a checkout the wallet paid; award_after_approve follows.
Approve(w, o) ==
  /\ task[w] = Idle /\ o \notin approved
  /\ approved' = approved \cup {o}
  /\ Go(w, [pc |-> "award", order |-> o])
  /\ UNCHANGED <<invitation, money, rewarded, awarded, topup>>

\* A checkout that is sent again is rewarded again.
Replay(w, o) ==
  /\ task[w] = Idle /\ o \in approved
  /\ Go(w, [pc |-> "award", order |-> o])
  /\ UNCHANGED <<invitation, money, rewarded, orders, topup>>

\* award_purchase looks the order's points up in the ledger; every order earns some.
CheckAward(w) ==
  /\ At(w, "award")
  /\ Go(w, [task[w] EXCEPT !.pc = IF task[w].order \in awarded THEN "reward" ELSE "enter"])
  /\ UNCHANGED <<invitation, money, rewarded, orders, topup>>

\* It enters them. When another process was faster, the index of the ledger raises an
\* error that award_after_approve does not catch, and the commission is not reached.
EnterAward(w) ==
  /\ At(w, "enter")
  /\ awarded' = awarded \cup {task[w].order}
  /\ Go(w, IF task[w].order \in awarded THEN Idle ELSE [task[w] EXCEPT !.pc = "reward"])
  /\ UNCHANGED <<invitation, money, rewarded, approved, topup>>

\* reward_referrer_if_first_purchase up to its first write: customer and count are
\* read outside a transaction.
ReadReward(w) ==
  LET o == task[w].order
      u == Buyer[o]
      r == referredBy[u]
  IN /\ At(w, "reward")
     /\ Go(w, IF r = NoOne \/ u \in rewarded THEN Idle
              ELSE [pc |-> "claim", order |-> o, inviter |-> r,
                    full |-> MaxCommissions > 0
                               /\ Cardinality(Invited(r) \cap rewarded) >= MaxCommissions])
     /\ UNCHANGED <<invitation, money, rewarded, orders, topup>>

\* Mutation: the flag is set without AND referral_first_purchase_rewarded = 0.
AlwaysUnrewarded(u) == TRUE

Unrewarded(u) == u \notin rewarded

\* Mutation: a full count ends the call before the customer is marked or paid for.
ClaimForgetsFull(w) ==
  LET t == task[w]
      u == Buyer[t.order]
  IN /\ At(w, "claim")
     /\ rewarded' = IF t.full THEN rewarded ELSE rewarded \cup {u}
     /\ IF ~t.full /\ Unrewarded(u)
        THEN Pay([kind |-> "commission", of |-> t.order, to |-> t.inviter], Commission[t.order])
        ELSE UNCHANGED money
     /\ Go(w, Idle)
     /\ UNCHANGED <<invitation, orders, topup>>

\* The flag and the commission, in one transaction. A full count only sets the flag.
Claim(w) ==
  LET t == task[w]
      u == Buyer[t.order]
  IN /\ At(w, "claim")
     /\ rewarded' = rewarded \cup {u}
     /\ IF ~t.full /\ Unrewarded(u)
        THEN Pay([kind |-> "commission", of |-> t.order, to |-> t.inviter], Commission[t.order])
        ELSE UNCHANGED money
     /\ Go(w, Idle)
     /\ UNCHANGED <<invitation, orders, topup>>

-----------------------------------------------------------------------------
(* Top-ups.                                                                   *)

\* create_topup, with the receipt.
AskTopUp(t) ==
  /\ topup[t] = "none"
  /\ topup' = [topup EXCEPT ![t] = "pending"]
  /\ UNCHANGED <<invitation, money, rewarded, orders, task>>

\* The buttons of the two bots look at the status first. The panel leaves that to
\* approve_topup, but looks before it rejects.
Waits(t) == topup[t] = "pending"
TopUpApprove(t, v) == v = "approved" /\ Waits(t)
BaleTopUpApprove(t, v) == v = "approved" /\ Waits(t)
PanelTopUpApprove(v) == v = "approved"
TopUpReject(t, v) == v = "rejected" /\ Waits(t)
BaleTopUpReject(t, v) == v = "rejected" /\ Waits(t)
PanelTopUpReject(t, v) == v = "rejected" /\ Waits(t)

ReadTopUp(w, t, v) ==
  /\ task[w] = Idle /\ topup[t] # "none"
  /\ \/ TopUpApprove(t, v) \/ BaleTopUpApprove(t, v) \/ PanelTopUpApprove(v)
     \/ TopUpReject(t, v) \/ BaleTopUpReject(t, v) \/ PanelTopUpReject(t, v)
  /\ Go(w, [pc |-> "decide", topup |-> t, verdict |-> v])
  /\ UNCHANGED <<invitation, money, rewarded, orders, topup>>

\* Mutation: UPDATE wallet_topups without AND status = 'pending'.
AnyStatus(t) == TRUE

Pending(t) == topup[t] = "pending"

\* approve_topup or reject_topup; the message to the customer is left out.
DecideTopUp(w) ==
  LET t == task[w].topup
      v == task[w].verdict
  IN /\ At(w, "decide")
     /\ topup' = IF Pending(t) THEN [topup EXCEPT ![t] = v] ELSE topup
     /\ IF Pending(t) /\ v = "approved"
        THEN Pay([kind |-> "topup", of |-> t, to |-> Owner[t]], Amount[t])
        ELSE UNCHANGED money
     /\ Go(w, Idle)
     /\ UNCHANGED <<invitation, rewarded, orders>>

\* The process dies; an open transaction is rolled back.
Crash(w) ==
  /\ task[w] # Idle
  /\ Go(w, Idle)
  /\ UNCHANGED <<invitation, money, rewarded, orders, topup>>

-----------------------------------------------------------------------------
Run(w) ==
  \/ SetReferredBy(w) \/ ReadGift(w) \/ InviteRewards(w)
  \/ CheckAward(w) \/ EnterAward(w) \/ ReadReward(w) \/ Claim(w)
  \/ DecideTopUp(w)

Next ==
  \/ \E w \in Worker : Run(w)
  \/ \E w \in Mortal : Crash(w)
  \/ \E w \in Worker, p \in Link : Start(w, p)
  \/ \E w \in Worker, o \in Order : Approve(w, o) \/ Replay(w, o)
  \/ \E t \in TopUp : AskTopUp(t)
  \/ \E w \in Worker, t \in TopUp, v \in Verdict : ReadTopUp(w, t, v)

Spec == Init /\ [][Next]_vars

\* A handler that is at a commission goes on unless its process dies.
Settle(w) == ReadReward(w) \/ Claim(w)
FairSpec == Spec /\ \A w \in Worker \ Mortal : WF_task(Settle(w))

-----------------------------------------------------------------------------
(* What the shop and its customers may rely on.                               *)

\* No event pays twice: a customer brings one commission to one inviter, however
\* many orders of theirs are approved at once; the same for the bonus; and a top-up is
\* credited once.
Event(x) == IF x.kind = "commission" THEN Buyer[x.of] ELSE x.of
Flowed == {x \in Income : paid[x] > 0}
PaidOnce ==
  \A x \in Flowed :
    /\ paid[x] = 1
    /\ \A y \in Flowed : x.kind = y.kind /\ Event(x) = Event(y) => x = y

\* The free product is given more than once only by handlers that looked before one of
\* them had given it: whoever comes later finds the flag, so it is given no more often
\* than handlers can be at an invitation at once.
FreeProductLimited == \A r \in User : gifts[r] <= Cardinality(Worker)

\* The rewards and the top-ups a customer received, and what a reward is worth.
Worth == [x \in Income |-> IF x.kind = "commission" THEN Commission[x.of] ELSE Bonus]
Rewards(u) == {x \in Flowed : x.to = u /\ x.kind \in {"commission", "bonus"}}
ToppedUp(u) == {t \in TopUp : Owner[t] = u /\ topup[t] = "approved"}

\* The wallet holds, to the toman, the top-ups that are approved and one payment for
\* every reward, although two processes decide, read and pay in turns.
CreditExplained ==
  \A u \in User :
    credit[u] = SumFunctionOnSet(Worth, Rewards(u)) + SumFunctionOnSet(Amount, ToppedUp(u))

\* Only approved orders and top-ups bring money, and a commission goes to the
\* inviter that is recorded.
PaidForSomething ==
  \A x \in Flowed :
    CASE x.kind = "topup" -> topup[x.of] = "approved" /\ x.to = Owner[x.of]
      [] x.kind = "commission" -> x.of \in approved /\ referredBy[Buyer[x.of]] = x.to
      [] OTHER -> TRUE

\* The limits on rewards. Bonuses are counted in the transaction that pays, but only for
\* customers who are recorded as the inviter's.
BonusesFor(r) == {x \in Flowed : x.kind = "bonus" /\ x.to = r /\ referredBy[x.of] = r}
BonusesLimited ==
  MaxBonuses > 0 => \A r \in User : Cardinality(BonusesFor(r)) <= MaxBonuses

\* Commissions are counted before the transaction that pays: the limit is exceeded by the
\* handlers that counted when others had not paid yet, and by no more.
CommissionsFor(r) == {x \in Flowed : x.kind = "commission" /\ x.to = r}
CommissionsLimited ==
  MaxCommissions > 0 =>
    \A r \in User : Cardinality(CommissionsFor(r)) < MaxCommissions + Cardinality(Worker)

\* The first invitation stands: however many links a customer follows at once, the
\* recorded inviter is never replaced.
InviterStands ==
  [][\A u \in User : referredBy[u] # NoOne => referredBy'[u] = referredBy[u]]_vars

\* A handler that is through with an order's points settles the commission of the
\* invited buyer unless its process dies, whoever else works on it.
HandlerSettles ==
  \A w \in Worker \ Mortal, o \in Order :
    (At(w, "reward") /\ task[w].order = o /\ referredBy[Buyer[o]] # NoOne)
      ~> (Buyer[o] \in rewarded)
=============================================================================
