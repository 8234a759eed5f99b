------------------------------- MODULE WalletProofs -------------------------------
(* What holds of the wallets for any number of customers, orders, top-ups and   *)
(* workers, any limits and any amounts.                                         *)
EXTENDS Wallet, SumTheorems, TLAPS

-----------------------------------------------------------------------------
(* Types.                                                                     *)

\* A worker that is at a point of a handler has a task with what that point needs.
LEMMA TaskShapes ==
  ASSUME TypeOK, NEW w \in Worker, task[w] # Idle
  PROVE  /\ task[w] \in Task
         /\ task[w].pc \in {"set", "invite", "bonus"} =>
              task[w].inviter \in User /\ task[w].user \in User
         /\ task[w].pc \in {"award", "enter", "reward"} => task[w].order \in Order
         /\ task[w].pc = "claim" => task[w].order \in Order /\ task[w].inviter \in User
         /\ task[w].pc = "decide" => task[w].topup \in TopUp /\ task[w].verdict \in Verdict
<1>1. task[w] \in Task
  BY DEF TypeOK
<1> DEFINE t == task[w]
<1> HIDE DEF t
<1>2. t \in Task
  BY <1>1 DEF t
<1>3. /\ t.pc \in {"set", "invite", "bonus"} => t.inviter \in User /\ t.user \in User
      /\ t.pc \in {"award", "enter", "reward"} => t.order \in Order
      /\ t.pc = "claim" => t.order \in Order /\ t.inviter \in User
      /\ t.pc = "decide" => t.topup \in TopUp /\ t.verdict \in Verdict
  BY <1>2 DEF Task
<1> QED BY <1>1, <1>3 DEF t

\* Whatever a worker turns to next is a task, or it is idle.
LEMMA GoTypes ==
  ASSUME TypeOK, NEW w \in Worker, NEW t \in Task \cup {Idle}, Go(w, t)
  PROVE  task' \in [Worker -> Task \cup {Idle}]
BY DEF TypeOK, Go

\* The next point of a handler that keeps its data is a task.
LEMMA NextPoint ==
  ASSUME TypeOK, NEW w \in Worker, task[w] # Idle
  PROVE  /\ task[w].pc = "set" => [task[w] EXCEPT !.pc = "invite"] \in Task
         /\ task[w].pc \in {"award", "enter"} =>
              /\ [task[w] EXCEPT !.pc = "enter"] \in Task
              /\ [task[w] EXCEPT !.pc = "reward"] \in Task
<1> DEFINE t == task[w]
<1>1. t \in Task
  BY DEF TypeOK
<1> HIDE DEF t
<1>2. ASSUME t.pc = "set"
      PROVE  [t EXCEPT !.pc = "invite"] \in Task
  <2>1. t \in [pc : {"set", "invite"}, inviter : User, user : User]
    BY <1>1, <1>2 DEF Task
  <2>2. [t EXCEPT !.pc = "invite"] \in [pc : {"set", "invite"}, inviter : User, user : User]
    BY <2>1
  <2> QED BY <2>2 DEF Task
<1>3. ASSUME t.pc \in {"award", "enter"}, NEW p \in {"enter", "reward"}
      PROVE  [t EXCEPT !.pc = p] \in Task
  <2>1. t \in [pc : {"award", "enter", "reward"}, order : Order]
    BY <1>1, <1>3 DEF Task
  <2>2. [t EXCEPT !.pc = p] \in [pc : {"award", "enter", "reward"}, order : Order]
    BY <2>1
  <2> QED BY <2>2 DEF Task
<1> QED BY <1>2, <1>3 DEF t

\* A payment of an amount leaves amounts in the wallets and counts in the history.
LEMMA PayTypes ==
  ASSUME TypeOK, NEW x \in Income, NEW n \in Nat, Pay(x, n)
  PROVE  credit' \in [User -> Nat] /\ paid' \in [Income -> Nat]
<1>1. x.to \in User
  BY DEF Income
<1>2. credit[x.to] + n \in Nat /\ paid[x] + 1 \in Nat
  BY <1>1 DEF TypeOK
<1> QED BY <1>1, <1>2 DEF TypeOK, Pay

\* Who is paid for what is one of the incomes of the model.
LEMMA Incomes ==
  /\ \A o \in Order, r \in User : [kind |-> "commission", of |-> o, to |-> r] \in Income
  /\ \A u, r \in User : [kind |-> "bonus", of |-> u, to |-> r] \in Income
  /\ \A t \in TopUp, r \in User : [kind |-> "topup", of |-> t, to |-> r] \in Income
BY DEF Income

\* Every step of a worker inside a handler keeps the types.
LEMMA RunTypes ==
  ASSUME TypeOK, NEW w \in Worker, Run(w)
  PROVE  TypeOK'
<1> DEFINE t == task[w]
<1>1. t # Idle
  BY DEF Run, SetReferredBy, ReadGift, InviteRewards, CheckAward, EnterAward, ReadReward,
         Claim, DecideTopUp, At
<1>2. Idle \in Task \cup {Idle}
  OBVIOUS
<1>3. CASE SetReferredBy(w)
  <2>1. t.pc = "set" /\ t.user \in User /\ t.inviter \in User
    BY <1>1, <1>3, TaskShapes DEF SetReferredBy, At
  <2>2. referredBy' \in [User -> User \cup {NoOne}]
    BY <1>3, <2>1 DEF TypeOK, SetReferredBy
  <2>3. Go(w, [t EXCEPT !.pc = "invite"]) /\ [t EXCEPT !.pc = "invite"] \in Task
    BY <1>1, <1>3, <2>1, NextPoint DEF SetReferredBy
  <2>4. task' \in [Worker -> Task \cup {Idle}]
    BY <2>3, GoTypes
  <2> QED BY <1>3, <2>2, <2>4 DEF TypeOK, SetReferredBy, money, orders
<1>4. CASE InviteRewards(w)
  <2>1. t.user \in User /\ t.inviter \in User
    BY <1>1, <1>4, TaskShapes DEF InviteRewards, At
  <2>2. credit' \in [User -> Nat] /\ paid' \in [Income -> Nat]
    <3>1. CASE Pay([kind |-> "bonus", of |-> t.user, to |-> t.inviter], Bonus)
      BY <2>1, <3>1, Incomes, PayTypes, WalletAssumption
    <3>2. CASE UNCHANGED money
      BY <3>2 DEF TypeOK, money
    <3> QED BY <1>4, <3>1, <3>2 DEF InviteRewards
  <2>3. counted' \subseteq User /\ gifted' \subseteq User
    BY <1>4, <2>1 DEF TypeOK, InviteRewards
  <2>4. gifts' \in [User -> Nat]
    BY <1>4, <2>1 DEF TypeOK, InviteRewards
  <2>5. task' \in [Worker -> Task \cup {Idle}]
    BY <1>2, <1>4, GoTypes DEF InviteRewards
  <2> QED BY <1>4, <2>2, <2>3, <2>4, <2>5 DEF TypeOK, InviteRewards, orders
<1>5. CASE ReadGift(w)
  <2>1. t.user \in User /\ t.inviter \in User
    BY <1>1, <1>5, TaskShapes DEF ReadGift, At
  <2>2. [pc |-> "bonus", inviter |-> t.inviter, user |-> t.user, given |-> Given(t.inviter)]
          \in Task
    BY <2>1 DEF Task, Given
  <2>3. task' \in [Worker -> Task \cup {Idle}]
    BY <1>5, <2>2, GoTypes DEF ReadGift
  <2> QED BY <1>5, <2>3 DEF TypeOK, ReadGift, invitation, money, orders
<1>6. CASE CheckAward(w) \/ EnterAward(w)
  <2>1. t.pc \in {"award", "enter"} /\ t.order \in Order
    BY <1>1, <1>6, TaskShapes DEF CheckAward, EnterAward, At
  <2>2. [t EXCEPT !.pc = "enter"] \in Task /\ [t EXCEPT !.pc = "reward"] \in Task
    BY <1>1, <2>1, NextPoint
  <2>3. awarded' \subseteq Order
    BY <1>6, <2>1 DEF TypeOK, CheckAward, EnterAward, orders
  <2>4. task' \in [Worker -> Task \cup {Idle}]
    <3>1. CASE CheckAward(w)
      BY <2>2, <3>1, GoTypes DEF CheckAward
    <3>2. CASE EnterAward(w)
      BY <1>2, <2>2, <3>2, GoTypes DEF EnterAward
    <3> QED BY <1>6, <3>1, <3>2
  <2> QED BY <1>6, <2>3, <2>4 DEF TypeOK, CheckAward, EnterAward, orders, invitation, money
<1>7. CASE ReadReward(w)
  <2>1. t.order \in Order
    BY <1>1, <1>7, TaskShapes DEF ReadReward, At
  <2>2. Buyer[t.order] \in User
    BY <2>1, WalletAssumption
  <2>3. ASSUME referredBy[Buyer[t.order]] # NoOne, NEW b \in BOOLEAN
        PROVE  [pc |-> "claim", order |-> t.order, inviter |-> referredBy[Buyer[t.order]],
                full |-> b] \in Task
    <3>1. referredBy[Buyer[t.order]] \in User
      BY <2>2, <2>3 DEF TypeOK
    <3> QED BY <2>1, <3>1 DEF Task
  <2>4. task' \in [Worker -> Task \cup {Idle}]
    BY <1>2, <1>7, <2>3, GoTypes DEF ReadReward
  <2> QED BY <1>7, <2>4 DEF TypeOK, ReadReward, orders, invitation, money
<1>8. CASE Claim(w)
  <2>1. t.order \in Order /\ t.inviter \in User
    BY <1>1, <1>8, TaskShapes DEF Claim, At
  <2>2. rewarded' \subseteq User
    BY <1>8, <2>1, WalletAssumption DEF TypeOK, Claim
  <2>3. credit' \in [User -> Nat] /\ paid' \in [Income -> Nat]
    <3>1. CASE Pay([kind |-> "commission", of |-> t.order, to |-> t.inviter],
                   Commission[t.order])
      BY <2>1, <3>1, Incomes, PayTypes, WalletAssumption
    <3>2. CASE UNCHANGED money
      BY <3>2 DEF TypeOK, money
    <3> QED BY <1>8, <3>1, <3>2 DEF Claim
  <2>4. task' \in [Worker -> Task \cup {Idle}]
    BY <1>2, <1>8, GoTypes DEF Claim
  <2> QED BY <1>8, <2>2, <2>3, <2>4 DEF TypeOK, Claim, invitation, orders
<1>9. CASE DecideTopUp(w)
  <2>1. t.topup \in TopUp /\ t.verdict \in Verdict
    BY <1>1, <1>9, TaskShapes DEF DecideTopUp, At
  <2>2. topup' \in [TopUp -> {"none", "pending"} \cup Verdict]
    BY <1>9, <2>1 DEF TypeOK, DecideTopUp
  <2>3. credit' \in [User -> Nat] /\ paid' \in [Income -> Nat]
    <3>1. CASE Pay([kind |-> "topup", of |-> t.topup, to |-> Owner[t.topup]], Amount[t.topup])
      BY <2>1, <3>1, Incomes, PayTypes, WalletAssumption
    <3>2. CASE UNCHANGED money
      BY <3>2 DEF TypeOK, money
    <3> QED BY <1>9, <3>1, <3>2 DEF DecideTopUp
  <2>4. task' \in [Worker -> Task \cup {Idle}]
    BY <1>2, <1>9, GoTypes DEF DecideTopUp
  <2> QED BY <1>9, <2>2, <2>3, <2>4 DEF TypeOK, DecideTopUp, invitation, orders
<1> QED BY <1>3, <1>4, <1>5, <1>6, <1>7, <1>8, <1>9 DEF Run

\* Every step of the system keeps the types.
LEMMA NextTypes ==
  ASSUME TypeOK, [Next]_vars
  PROVE  TypeOK'
<1>1. CASE UNCHANGED vars
  BY <1>1 DEF TypeOK, vars
<1>2. ASSUME NEW w \in Worker, Run(w)
      PROVE  TypeOK'
  BY <1>2, RunTypes
<1>3. ASSUME NEW w \in Worker, Crash(w)
      PROVE  TypeOK'
  <2>1. task' \in [Worker -> Task \cup {Idle}]
    BY <1>3, GoTypes DEF Crash
  <2> QED BY <1>3, <2>1 DEF TypeOK, Crash, invitation, money, orders
<1>4. ASSUME NEW w \in Worker, NEW p \in Link, Start(w, p)
      PROVE  TypeOK'
  <2>1. p[1] \in User /\ p[2] \in User
    BY WalletAssumption
  <2>2. [pc |-> "set", inviter |-> p[1], user |-> p[2]] \in Task
    BY <2>1 DEF Task
  <2>3. task' \in [Worker -> Task \cup {Idle}]
    BY <1>4, <2>2, GoTypes DEF Start
  <2> QED BY <1>4, <2>3 DEF TypeOK, Start, invitation, money, orders
<1>5. ASSUME NEW w \in Worker, NEW o \in Order, Approve(w, o) \/ Replay(w, o)
      PROVE  TypeOK'
  <2>1. [pc |-> "award", order |-> o] \in Task
    BY DEF Task
  <2>2. task' \in [Worker -> Task \cup {Idle}]
    BY <1>5, <2>1, GoTypes DEF Approve, Replay
  <2>3. approved' \subseteq Order /\ awarded' \subseteq Order
    BY <1>5 DEF TypeOK, Approve, Replay, orders
  <2> QED BY <1>5, <2>2, <2>3 DEF TypeOK, Approve, Replay, invitation, money
<1>6. ASSUME NEW x \in TopUp, AskTopUp(x)
      PROVE  TypeOK'
  BY <1>6 DEF TypeOK, AskTopUp, invitation, money, orders
<1>7. ASSUME NEW w \in Worker, NEW x \in TopUp, NEW v \in Verdict, ReadTopUp(w, x, v)
      PROVE  TypeOK'
  <2>1. [pc |-> "decide", topup |-> x, verdict |-> v] \in Task
    BY DEF Task
  <2>2. task' \in [Worker -> Task \cup {Idle}]
    BY <1>7, <2>1, GoTypes DEF ReadTopUp
  <2> QED BY <1>7, <2>2 DEF TypeOK, ReadTopUp, invitation, money, orders
<1> QED BY <1>1, <1>2, <1>3, <1>4, <1>5, <1>6, <1>7, WalletAssumption DEF Next

\* Types, in particular that no wallet goes below zero: the flows of this module only
\* add to what database.py keeps in users.referral_credit.
THEOREM WalletTypes == Spec => []TypeOK
<1>1. Init => TypeOK
  BY DEF Init, TypeOK
<1>2. TypeOK /\ [Next]_vars => TypeOK'
  BY NextTypes
<1> QED BY <1>1, <1>2, PTL DEF Spec

-----------------------------------------------------------------------------
(* Invitations.                                                               *)

\* Only set_referred_by writes the inviter, and only where none is recorded.
LEMMA InviterKept ==
  ASSUME TypeOK, [Next]_vars, NEW u \in User, referredBy[u] # NoOne
  PROVE  referredBy'[u] = referredBy[u]
<1>1. CASE \E w \in Worker : SetReferredBy(w)
  <2>1. PICK w \in Worker : SetReferredBy(w)
    BY <1>1
  <2> DEFINE v == task[w].user
  <2>2. CASE NotInvited(v) /\ referredBy' = [referredBy EXCEPT ![v] = task[w].inviter]
    <3>1. u # v
      BY <2>2 DEF NotInvited
    <3> QED BY <2>2, <3>1 DEF TypeOK
  <2>3. CASE referredBy' = referredBy
    BY <2>3
  <2> QED BY <2>1, <2>2, <2>3 DEF SetReferredBy
<1>2. CASE ~ \E w \in Worker : SetReferredBy(w)
  <2>1. referredBy' = referredBy
    BY <1>2, WalletAssumption
    DEF Next, vars, Run, ReadGift, InviteRewards, CheckAward, EnterAward, ReadReward, Claim, DecideTopUp,
        Crash, Start, Approve, Replay, AskTopUp, ReadTopUp, invitation
  <2> QED BY <2>1
<1> QED BY <1>1, <1>2

\* The first invitation stands: however many links a customer follows at once,
\* set_referred_by never replaces the recorded inviter.
THEOREM FirstInviterStands == Spec => InviterStands
<1>1. TypeOK /\ [Next]_vars
        => [\A u \in User : referredBy[u] # NoOne => referredBy'[u] = referredBy[u]]_vars
  BY InviterKept
<1> QED BY <1>1, WalletTypes, PTL DEF Spec, InviterStands

-----------------------------------------------------------------------------
(* Payments.                                                                  *)

\* Every income that was paid has left its mark, which is what stops the second
\* payment: the flag of the customer or the status of the top-up.
Backed ==
  \A x \in Flowed :
    /\ x.kind = "commission" =>
         /\ Buyer[x.of] \in rewarded /\ x.of \in approved
         /\ x.to = referredBy[Buyer[x.of]] /\ x.to # NoOne
    /\ x.kind = "bonus" => x.of \in counted
    /\ x.kind = "topup" => topup[x.of] = "approved" /\ x.to = Owner[x.of]

\* A worker on its way to a commission works for an approved order, and from the
\* moment it has read the inviter, that inviter stays the recorded one.
TasksKnown ==
  \A w \in Worker :
    task[w] # Idle =>
      /\ task[w].pc \in {"award", "enter", "reward", "claim"} => task[w].order \in approved
      /\ task[w].pc = "claim" => task[w].inviter = referredBy[Buyer[task[w].order]]

PaymentInv == TypeOK /\ TasksKnown /\ Backed /\ PaidOnce

\* The same of any history of payments.
FlowedIn(p) == {x \in Income : p[x] > 0}
Once(p) ==
  \A x \in FlowedIn(p) :
    /\ p[x] = 1
    /\ \A y \in FlowedIn(p) : x.kind = y.kind /\ Event(x) = Event(y) => x = y

Plus(p, x) == [p EXCEPT ![x] = @ + 1]

\* The history of the model is such a history.
LEMMA HistoryIsOne == Flowed = FlowedIn(paid) /\ (PaidOnce <=> Once(paid))
BY DEF Flowed, FlowedIn, PaidOnce, Once

\* A payment for an event that has not paid yet keeps "once".
LEMMA OnePayment ==
  ASSUME NEW p \in [Income -> Nat], Once(p), NEW x \in Income,
         \A y \in FlowedIn(p) : ~(x.kind = y.kind /\ Event(x) = Event(y))
  PROVE  /\ Once(Plus(p, x))
         /\ \A y \in FlowedIn(Plus(p, x)) : y \in FlowedIn(p) \/ y = x
<1> DEFINE q == Plus(p, x)
<1>1. \A y \in Income : q[y] = IF y = x THEN p[y] + 1 ELSE p[y]
  BY DEF Plus
<1> HIDE DEF q
<1>2. p[x] = 0
  BY DEF FlowedIn
<1>3. \A y \in FlowedIn(q) : y \in FlowedIn(p) \/ y = x
  BY <1>1 DEF FlowedIn
<1>4. \A y \in FlowedIn(q) : q[y] = 1
  BY <1>1, <1>2, <1>3 DEF Once, FlowedIn
<1>5. ASSUME NEW y \in FlowedIn(q), NEW z \in FlowedIn(q),
             y.kind = z.kind /\ Event(y) = Event(z)
      PROVE  y = z
  BY <1>3, <1>5 DEF Once
<1>6. Once(q)
  BY <1>4, <1>5 DEF Once
<1> QED BY <1>3, <1>6 DEF q

\* What a worker knows of its task stays true, whatever the others do.
LEMMA TasksStayKnown ==
  ASSUME TypeOK, TasksKnown, [Next]_vars
  PROVE  TasksKnown'
<1> DEFINE Known(t) ==
      t # Idle =>
        /\ t.pc \in {"award", "enter", "reward", "claim"} => t.order \in approved'
        /\ t.pc = "claim" => t.inviter = referredBy'[Buyer[t.order]]
<1>1. approved \subseteq approved'
  BY WalletAssumption
  DEF Next, vars, Run, SetReferredBy, ReadGift, InviteRewards, CheckAward, EnterAward, ReadReward, Claim,
      DecideTopUp, Crash, Start, Approve, Replay, AskTopUp, ReadTopUp, orders
<1>2. ASSUME NEW w \in Worker
      PROVE  Known(task[w])
  <2>1. ASSUME task[w] # Idle, task[w].pc = "claim"
        PROVE  task[w].inviter = referredBy'[Buyer[task[w].order]]
    <3>1. task[w].inviter \in User /\ Buyer[task[w].order] \in User
      BY <2>1, TaskShapes, WalletAssumption
    <3>2. referredBy[Buyer[task[w].order]] = task[w].inviter
      BY <2>1 DEF TasksKnown
    <3> QED BY <3>1, <3>2, InviterKept, WalletAssumption
  <2> QED BY <1>1, <2>1 DEF TasksKnown
<1>3. ASSUME NEW w \in Worker, NEW t, Go(w, t), Known(t)
      PROVE  TasksKnown'
  <2>1. \A v \in Worker : task'[v] = IF v = w THEN t ELSE task[v]
    BY <1>3 DEF TypeOK, Go
  <2> HIDE DEF Known
  <2>2. \A v \in Worker : Known(task'[v])
    BY <1>2, <1>3, <2>1
  <2> QED BY <2>2 DEF TasksKnown, Known
<1>4. Known(Idle)
  OBVIOUS
<1>5. CASE task' = task
  BY <1>2, <1>5 DEF TasksKnown
<1>6. ASSUME NEW w \in Worker, Run(w)
      PROVE  TasksKnown'
  <2>1. CASE SetReferredBy(w)
    <3> DEFINE t == [task[w] EXCEPT !.pc = "invite"]
    <3>1. task[w] \in [pc : {"set", "invite"}, inviter : User, user : User]
      BY <2>1, TaskShapes DEF SetReferredBy, At, Task
    <3>2. t.pc = "invite"
      BY <3>1
    <3> HIDE DEF t
    <3>3. Known(t)
      BY <3>2
    <3> QED BY <1>3, <2>1, <3>3 DEF SetReferredBy, t
  <2>2. CASE CheckAward(w) \/ EnterAward(w)
    <3>1. task[w] # Idle /\ task[w].pc \in {"award", "enter"}
      BY <2>2 DEF CheckAward, EnterAward, At
    <3>2. task[w] \in [pc : {"award", "enter", "reward"}, order : Order]
      BY <3>1, TaskShapes DEF Task
    <3>3. ASSUME NEW p \in {"enter", "reward"}
          PROVE  Known([task[w] EXCEPT !.pc = p])
      <4> DEFINE t == [task[w] EXCEPT !.pc = p]
      <4>1. t.pc = p /\ t.order = task[w].order
        BY <3>2
      <4>2. t.order \in approved'
        BY <1>1, <3>1, <4>1 DEF TasksKnown
      <4> HIDE DEF t
      <4>3. Known(t)
        BY <4>1, <4>2
      <4> QED BY <4>3 DEF t
    <3> HIDE DEF Known
    <3>4. CASE CheckAward(w)
      BY <1>3, <3>3, <3>4 DEF CheckAward
    <3>5. CASE EnterAward(w)
      BY <1>3, <1>4, <3>3, <3>5 DEF EnterAward
    <3> QED BY <2>2, <3>4, <3>5
  <2>3. CASE ReadReward(w)
    <3> DEFINE o == task[w].order
               r == referredBy[Buyer[o]]
    <3>1. o \in approved' /\ referredBy' = referredBy
      BY <1>1, <2>3 DEF TasksKnown, ReadReward, At, invitation
    <3>2. ASSUME NEW b \in BOOLEAN
          PROVE  Known([pc |-> "claim", order |-> o, inviter |-> r, full |-> b])
      BY <3>1
    <3> HIDE DEF Known
    <3> QED BY <1>3, <1>4, <2>3, <3>2 DEF ReadReward
  <2>4. CASE InviteRewards(w) \/ Claim(w) \/ DecideTopUp(w)
    BY <1>3, <1>4, <2>4 DEF InviteRewards, Claim, DecideTopUp
  <2>5. CASE ReadGift(w)
    BY <1>3, <2>5 DEF ReadGift
  <2> QED BY <1>6, <2>1, <2>2, <2>3, <2>4, <2>5 DEF Run
<1>7. ASSUME NEW w \in Worker, Crash(w)
      PROVE  TasksKnown'
  BY <1>3, <1>4, <1>7 DEF Crash
<1>8. ASSUME NEW w \in Worker, NEW p \in Link, Start(w, p)
      PROVE  TasksKnown'
  BY <1>3, <1>8 DEF Start
<1>9. ASSUME NEW w \in Worker, NEW o \in Order, Approve(w, o) \/ Replay(w, o)
      PROVE  TasksKnown'
  <2>1. o \in approved' /\ Go(w, [pc |-> "award", order |-> o])
    BY <1>9 DEF Approve, Replay, orders
  <2> QED BY <1>3, <2>1
<1>10. ASSUME NEW w \in Worker, NEW x \in TopUp, NEW v \in Verdict, ReadTopUp(w, x, v)
       PROVE  TasksKnown'
  BY <1>3, <1>10 DEF ReadTopUp
<1>11. ASSUME NEW x \in TopUp, AskTopUp(x)
       PROVE  TasksKnown'
  BY <1>5, <1>11 DEF AskTopUp
<1> QED BY <1>5, <1>6, <1>7, <1>8, <1>9, <1>10, <1>11, WalletAssumption DEF Next, vars

\* What was paid stays backed: no flag is taken back, no decision undone.
LEMMA BackingStays ==
  ASSUME TypeOK, Backed, [Next]_vars
  PROVE  \A x \in Flowed :
           /\ x.kind = "commission" =>
                /\ Buyer[x.of] \in rewarded' /\ x.of \in approved'
                /\ x.to = referredBy'[Buyer[x.of]] /\ x.to # NoOne
           /\ x.kind = "bonus" => x.of \in counted'
           /\ x.kind = "topup" => topup'[x.of] = "approved" /\ x.to = Owner[x.of]
<1>1. /\ rewarded \subseteq rewarded' /\ approved \subseteq approved'
      /\ counted \subseteq counted'
  BY WalletAssumption
  DEF Next, vars, Run, SetReferredBy, ReadGift, InviteRewards, CheckAward, EnterAward, ReadReward, Claim,
      DecideTopUp, Crash, Start, Approve, Replay, AskTopUp, ReadTopUp, orders, invitation
<1>2. ASSUME NEW x \in TopUp, topup[x] = "approved"
      PROVE  topup'[x] = "approved"
  <2>1. CASE \E w \in Worker : DecideTopUp(w)
    BY <1>2, <2>1 DEF TypeOK, DecideTopUp, Pending
  <2>2. CASE \E y \in TopUp : AskTopUp(y)
    BY <1>2, <2>2 DEF TypeOK, AskTopUp
  <2>3. CASE ~(\E w \in Worker : DecideTopUp(w)) /\ ~(\E y \in TopUp : AskTopUp(y))
    BY <1>2, <2>3, WalletAssumption
    DEF Next, vars, Run, SetReferredBy, ReadGift, InviteRewards, CheckAward, EnterAward, ReadReward,
        Claim, Crash, Start, Approve, Replay, ReadTopUp
  <2> QED BY <2>1, <2>2, <2>3
<1>3. ASSUME NEW x \in Flowed, x.kind = "commission"
      PROVE  x.to = referredBy'[Buyer[x.of]]
  <2>1. Buyer[x.of] \in User
    BY <1>3, WalletAssumption DEF Flowed, Income
  <2> QED BY <1>3, <2>1, InviterKept DEF Backed
<1>4. ASSUME NEW x \in Flowed, x.kind = "topup"
      PROVE  x.of \in TopUp
  BY <1>4 DEF Flowed, Income
<1> QED BY <1>1, <1>2, <1>3, <1>4 DEF Backed

\* Every payment is the first for its event and leaves its mark in the same step.
LEMMA PaymentStep ==
  ASSUME PaymentInv, [Next]_vars
  PROVE  Backed' /\ PaidOnce'
<1> DEFINE Marked(x) ==
      /\ x.kind = "commission" =>
           /\ Buyer[x.of] \in rewarded' /\ x.of \in approved'
           /\ x.to = referredBy'[Buyer[x.of]] /\ x.to # NoOne
      /\ x.kind = "bonus" => x.of \in counted'
      /\ x.kind = "topup" => topup'[x.of] = "approved" /\ x.to = Owner[x.of]
<1>1. \A x \in FlowedIn(paid) : Marked(x)
  BY BackingStays, HistoryIsOne DEF PaymentInv
<1>2. ASSUME Once(paid'), \A x \in FlowedIn(paid') : Marked(x)
      PROVE  Backed' /\ PaidOnce'
  BY <1>2 DEF Backed, PaidOnce, Once, Flowed, FlowedIn
<1>3. Once(paid) /\ paid \in [Income -> Nat]
  BY HistoryIsOne DEF PaymentInv, TypeOK
<1> HIDE DEF Marked
<1>4. CASE paid' = paid
  BY <1>1, <1>2, <1>3, <1>4
<1>5. ASSUME NEW x \in Income, paid' = Plus(paid, x), Marked(x),
             \A y \in FlowedIn(paid) : ~(x.kind = y.kind /\ Event(x) = Event(y))
      PROVE  Backed' /\ PaidOnce'
  <2>1. Once(paid') /\ \A y \in FlowedIn(paid') : y \in FlowedIn(paid) \/ y = x
    BY <1>3, <1>5, OnePayment
  <2> QED BY <1>1, <1>2, <1>5, <2>1
<1>6. ASSUME NEW w \in Worker, InviteRewards(w)
      PROVE  Backed' /\ PaidOnce'
  <2> DEFINE u == task[w].user
             r == task[w].inviter
             x == [kind |-> "bonus", of |-> u, to |-> r]
  <2>1. u \in User /\ r \in User
    BY <1>6, TaskShapes DEF PaymentInv, InviteRewards, At
  <2>2. CASE Uncounted(u) /\ Pay(x, Bonus)
    <3>1. x \in Income
      BY <2>1, Incomes
    <3>2. \A y \in FlowedIn(paid) : ~(x.kind = y.kind /\ Event(x) = Event(y))
      BY <2>2, HistoryIsOne DEF PaymentInv, Backed, Event, Uncounted
    <3>3. Marked(x)
      BY <1>6 DEF Marked, InviteRewards
    <3> QED BY <1>5, <2>2, <3>1, <3>2, <3>3 DEF Pay, Plus
  <2>3. CASE UNCHANGED money
    BY <1>4, <2>3 DEF money
  <2> QED BY <1>6, <2>2, <2>3 DEF InviteRewards
<1>7. ASSUME NEW w \in Worker, Claim(w)
      PROVE  Backed' /\ PaidOnce'
  <2> DEFINE o == task[w].order
             r == task[w].inviter
             x == [kind |-> "commission", of |-> o, to |-> r]
  <2>1. task[w] # Idle /\ task[w].pc = "claim"
    BY <1>7 DEF Claim, At
  <2>2. o \in Order /\ r \in User
    BY <2>1, TaskShapes DEF PaymentInv
  <2>3. o \in approved /\ r = referredBy[Buyer[o]]
    BY <2>1 DEF PaymentInv, TasksKnown
  <2>4. CASE Unrewarded(Buyer[o]) /\ Pay(x, Commission[o])
    <3>1. x \in Income
      BY <2>2, Incomes
    <3>2. \A y \in FlowedIn(paid) : ~(x.kind = y.kind /\ Event(x) = Event(y))
      BY <2>4, HistoryIsOne DEF PaymentInv, Backed, Event, Unrewarded
    <3>3. Marked(x)
      BY <1>7, <2>2, <2>3, WalletAssumption DEF Marked, Claim, invitation, orders
    <3> QED BY <1>5, <2>4, <3>1, <3>2, <3>3 DEF Pay, Plus
  <2>5. CASE UNCHANGED money
    BY <1>4, <2>5 DEF money
  <2> QED BY <1>7, <2>4, <2>5 DEF Claim
<1>8. ASSUME NEW w \in Worker, DecideTopUp(w)
      PROVE  Backed' /\ PaidOnce'
  <2> DEFINE t == task[w].topup
             x == [kind |-> "topup", of |-> t, to |-> Owner[t]]
  <2>1. t \in TopUp
    BY <1>8, TaskShapes DEF PaymentInv, DecideTopUp, At
  <2>2. CASE Pending(t) /\ task[w].verdict = "approved" /\ Pay(x, Amount[t])
    <3>1. x \in Income
      BY <2>1, Incomes, WalletAssumption
    <3>2. \A y \in FlowedIn(paid) : ~(x.kind = y.kind /\ Event(x) = Event(y))
      BY <2>2, HistoryIsOne DEF PaymentInv, Backed, Event, Pending
    <3>3. Marked(x)
      BY <1>8, <2>1, <2>2 DEF PaymentInv, TypeOK, Marked, DecideTopUp
    <3> QED BY <1>5, <2>2, <3>1, <3>2, <3>3 DEF Pay, Plus
  <2>3. CASE UNCHANGED money
    BY <1>4, <2>3 DEF money
  <2> QED BY <1>8, <2>2, <2>3 DEF DecideTopUp
<1>9. CASE \A w \in Worker : ~InviteRewards(w) /\ ~Claim(w) /\ ~DecideTopUp(w)
  BY <1>4, <1>9, WalletAssumption
  DEF Next, vars, Run, SetReferredBy, ReadGift, CheckAward, EnterAward, ReadReward, Crash, Start,
      Approve, Replay, AskTopUp, ReadTopUp, money
<1> QED BY <1>6, <1>7, <1>8, <1>9

\* The invariant holds: types, what workers know, what backs the payments, and once.
LEMMA PaymentsInvariant == Spec => []PaymentInv
<1>1. Init => PaymentInv
  <2> SUFFICES ASSUME Init
               PROVE  PaymentInv
    OBVIOUS
  <2>1. TypeOK
    BY DEF Init, TypeOK
  <2>2. Flowed = {}
    BY DEF Init, Flowed
  <2>3. TasksKnown
    BY DEF Init, TasksKnown
  <2> QED BY <2>1, <2>2, <2>3 DEF PaymentInv, Backed, PaidOnce
<1>2. PaymentInv /\ [Next]_vars => PaymentInv'
  BY NextTypes, TasksStayKnown, PaymentStep DEF PaymentInv
<1> QED BY <1>1, <1>2, PTL DEF Spec

\* No event pays twice: one commission per invited customer however many of their
\* orders are approved at once, one bonus per invitation, one credit per top-up, although
\* customer and count are read before the transaction.
THEOREM NothingPaidTwice == Spec => []PaidOnce
<1>1. PaymentInv => PaidOnce
  BY DEF PaymentInv
<1> QED BY <1>1, PaymentsInvariant, PTL

\* Nothing is paid for nothing: a top-up that paid is approved and was its owner's, a
\* commission came from an approved order and went to the recorded inviter.
THEOREM NothingForNothing == Spec => []PaidForSomething
<1>1. PaymentInv => PaidForSomething
  BY DEF PaymentInv, Backed, PaidForSomething
<1> QED BY <1>1, PaymentsInvariant, PTL

-----------------------------------------------------------------------------
(* Wallets.                                                                   *)

ToppedUpAll == {t \in TopUp : topup[t] = "approved"}

\* The wallets hold what was paid into them, which is finitely much at any time.
WalletInv ==
  PaymentInv /\ CreditExplained /\ IsFiniteSet(Flowed) /\ IsFiniteSet(ToppedUpAll)

\* What the wallets are sums of.
LEMMA WalletSums ==
  ASSUME TypeOK, IsFiniteSet(Flowed), IsFiniteSet(ToppedUpAll), NEW u \in User
  PROVE  /\ IsFiniteSet(Rewards(u)) /\ IsFiniteSet(ToppedUp(u))
         /\ \A x \in Rewards(u) : x \in Income /\ Worth[x] \in Int
         /\ \A t \in ToppedUp(u) : t \in TopUp /\ Amount[t] \in Int
         /\ SumFunctionOnSet(Worth, Rewards(u)) \in Int
         /\ SumFunctionOnSet(Amount, ToppedUp(u)) \in Int
<1>1. Rewards(u) \subseteq Flowed /\ ToppedUp(u) \subseteq ToppedUpAll
  BY DEF Rewards, ToppedUp, ToppedUpAll
<1>2. IsFiniteSet(Rewards(u)) /\ IsFiniteSet(ToppedUp(u))
  BY <1>1, FS_Subset
<1>3. \A x \in Income : Worth[x] \in Int
  BY WalletAssumption DEF Worth, Income
<1>4. \A x \in Rewards(u) : x \in Income /\ Worth[x] \in Int
  BY <1>3 DEF Rewards, Flowed
<1>5. \A t \in ToppedUp(u) : t \in TopUp /\ Amount[t] \in Int
  BY WalletAssumption DEF ToppedUp
<1> QED BY <1>2, <1>4, <1>5, SumType

\* A payment into one wallet, of nothing, of a reward or of a top-up.
LEMMA WalletPaid ==
  ASSUME TypeOK, CreditExplained, IsFiniteSet(Flowed), IsFiniteSet(ToppedUpAll),
         NEW r \in User, NEW n \in Int, credit' = [credit EXCEPT ![r] = @ + n],
         \A u \in User \ {r} : Rewards(u)' = Rewards(u) /\ ToppedUp(u)' = ToppedUp(u),
         \/ n = 0 /\ Rewards(r)' = Rewards(r) /\ ToppedUp(r)' = ToppedUp(r)
         \/ /\ ToppedUp(r)' = ToppedUp(r)
            /\ \E x \in Income \ Rewards(r) : Rewards(r)' = Rewards(r) \cup {x} /\ n = Worth[x]
         \/ /\ Rewards(r)' = Rewards(r)
            /\ \E t \in TopUp \ ToppedUp(r) : ToppedUp(r)' = ToppedUp(r) \cup {t} /\ n = Amount[t]
  PROVE  CreditExplained'
<1> DEFINE given(u) == SumFunctionOnSet(Worth, Rewards(u))
           topped(u) == SumFunctionOnSet(Amount, ToppedUp(u))
           given2(u) == SumFunctionOnSet(Worth, Rewards(u)')
           topped2(u) == SumFunctionOnSet(Amount, ToppedUp(u)')
<1>1. \A u \in User : credit[u] = given(u) + topped(u) /\ given(u) \in Int /\ topped(u) \in Int
  BY WalletSums DEF CreditExplained
<1>2. credit'[r] = credit[r] + n /\ \A u \in User \ {r} : credit'[u] = credit[u]
  BY DEF TypeOK
<1>3. SUFFICES \A u \in User : credit'[u] = given2(u) + topped2(u)
  BY DEF CreditExplained
<1>4. ASSUME NEW u \in User \ {r}
      PROVE  credit'[u] = given2(u) + topped2(u)
  <2>1. given2(u) = given(u) /\ topped2(u) = topped(u)
    BY Zenon
  <2> HIDE DEF given, topped, given2, topped2
  <2> QED BY <1>1, <1>2, <2>1
<1>5. credit'[r] = given2(r) + topped2(r)
  <2>1. CASE n = 0 /\ Rewards(r)' = Rewards(r) /\ ToppedUp(r)' = ToppedUp(r)
    <3>1. given2(r) = given(r) /\ topped2(r) = topped(r)
      BY <2>1, Zenon
    <3> HIDE DEF given, topped, given2, topped2
    <3> QED BY <1>1, <1>2, <2>1, <3>1
  <2>2. ASSUME ToppedUp(r)' = ToppedUp(r), NEW x \in Income \ Rewards(r),
               Rewards(r)' = Rewards(r) \cup {x}, n = Worth[x]
        PROVE  credit'[r] = given2(r) + topped2(r)
    <3>1. topped2(r) = topped(r)
      BY <2>2, Zenon
    <3>2. SumFunctionOnSet(Worth, Rewards(r) \cup {x})
            = Worth[x] + SumFunctionOnSet(Worth, Rewards(r))
      <4>1. \A y \in Rewards(r) \cup {x} : Worth[y] \in Int
        BY <2>2, WalletSums
      <4>2. IsFiniteSet(Rewards(r))
        BY WalletSums
      <4> QED BY <4>1, <4>2, SumAdd
    <3>3. given2(r) = Worth[x] + given(r)
      BY <2>2, <3>2, Zenon
    <3> HIDE DEF given, topped, given2, topped2
    <3> QED BY <1>1, <1>2, <2>2, <3>1, <3>3
  <2>3. ASSUME Rewards(r)' = Rewards(r), NEW t \in TopUp \ ToppedUp(r),
               ToppedUp(r)' = ToppedUp(r) \cup {t}, n = Amount[t]
        PROVE  credit'[r] = given2(r) + topped2(r)
    <3>1. given2(r) = given(r)
      BY <2>3, Zenon
    <3>2. SumFunctionOnSet(Amount, ToppedUp(r) \cup {t})
            = Amount[t] + SumFunctionOnSet(Amount, ToppedUp(r))
      <4>1. \A y \in ToppedUp(r) \cup {t} : Amount[y] \in Int
        BY <2>3, WalletSums
      <4>2. IsFiniteSet(ToppedUp(r))
        BY WalletSums
      <4> QED BY <4>1, <4>2, SumAdd
    <3>3. topped2(r) = Amount[t] + topped(r)
      BY <2>3, <3>2, Zenon
    <3> HIDE DEF given, topped, given2, topped2
    <3> QED BY <1>1, <1>2, <2>3, <3>1, <3>3
  <2> QED BY <2>1, <2>2, <2>3
<1> QED BY <1>4, <1>5

\* A payment extends the history by what it is for.
LEMMA FlowsOn ==
  ASSUME NEW p \in [Income -> Nat], NEW x \in Income
  PROVE  FlowedIn(Plus(p, x)) = FlowedIn(p) \cup {x}
<1>1. \A y \in Income : Plus(p, x)[y] = IF y = x THEN p[y] + 1 ELSE p[y]
  BY DEF Plus
<1>2. p[x] \in Nat
  OBVIOUS
<1> QED BY <1>1, <1>2 DEF FlowedIn

\* Every step pays what it enters in the history, and nothing else.
LEMMA WalletStep ==
  ASSUME WalletInv, [Next]_vars
  PROVE  CreditExplained' /\ IsFiniteSet(Flowed)' /\ IsFiniteSet(ToppedUpAll)'
<1>0. /\ TypeOK /\ TasksKnown /\ Backed /\ CreditExplained
      /\ IsFiniteSet(Flowed) /\ IsFiniteSet(ToppedUpAll)
  BY DEF WalletInv, PaymentInv
<1>1. ASSUME NEW x \in Income, x.kind \in {"commission", "bonus"}, x \notin Flowed,
             Pay(x, Worth[x]), UNCHANGED topup
      PROVE  CreditExplained' /\ IsFiniteSet(Flowed)' /\ IsFiniteSet(ToppedUpAll)'
  <2> DEFINE r == x.to
             n == Worth[x]
  <2>1. r \in User /\ n \in Int
    BY <1>1, WalletAssumption DEF Income, Worth
  <2>2. credit' = [credit EXCEPT ![r] = @ + n] /\ paid' = Plus(paid, x)
    BY <1>1 DEF Pay, Plus
  <2>3. Flowed' = Flowed \cup {x}
    <3>1. FlowedIn(Plus(paid, x)) = FlowedIn(paid) \cup {x}
      BY <1>0, FlowsOn DEF TypeOK
    <3>2. Flowed' = FlowedIn(paid') /\ Flowed = FlowedIn(paid)
      BY DEF Flowed, FlowedIn
    <3> QED BY <2>2, <3>1, <3>2
  <2>4. \A u : ToppedUp(u)' = ToppedUp(u)
    BY <1>1 DEF ToppedUp
  <2>5. \A u \in User \ {r} : Rewards(u)' = Rewards(u)
    BY <2>3 DEF Rewards
  <2>6. x \in Income \ Rewards(r) /\ Rewards(r)' = Rewards(r) \cup {x}
    BY <1>1, <2>3 DEF Rewards
  <2>7. CreditExplained'
    <3> HIDE DEF r
    <3> QED BY <1>0, <2>1, <2>2, <2>4, <2>5, <2>6, WalletPaid
  <2>8. IsFiniteSet(Flowed)' /\ IsFiniteSet(ToppedUpAll)'
    BY <1>0, <1>1, <2>3, FS_AddElement DEF ToppedUpAll
  <2> QED BY <2>7, <2>8
<1>2. CASE UNCHANGED money /\ \A t \in TopUp : topup'[t] = "approved" <=> topup[t] = "approved"
  <2>1. Flowed' = Flowed
    BY <1>2 DEF Flowed, money
  <2>2. \A u : Rewards(u)' = Rewards(u) /\ ToppedUp(u)' = ToppedUp(u)
    BY <1>2, <2>1 DEF Rewards, ToppedUp
  <2>3. ToppedUpAll' = ToppedUpAll
    BY <1>2 DEF ToppedUpAll
  <2>4. CreditExplained'
    <3> SUFFICES ASSUME NEW u \in User
                 PROVE  credit'[u] = SumFunctionOnSet(Worth, Rewards(u)')
                                       + SumFunctionOnSet(Amount, ToppedUp(u)')
      BY DEF CreditExplained
    <3>1. credit'[u] = SumFunctionOnSet(Worth, Rewards(u)) + SumFunctionOnSet(Amount, ToppedUp(u))
      BY <1>0, <1>2 DEF CreditExplained, money
    <3> QED BY <2>2, <3>1, Zenon
  <2> QED BY <1>0, <2>1, <2>3, <2>4
<1>3. ASSUME NEW w \in Worker, InviteRewards(w)
      PROVE  CreditExplained' /\ IsFiniteSet(Flowed)' /\ IsFiniteSet(ToppedUpAll)'
  <2> DEFINE u == task[w].user
             r == task[w].inviter
             x == [kind |-> "bonus", of |-> u, to |-> r]
  <2>1. u \in User /\ r \in User
    BY <1>0, <1>3, TaskShapes DEF InviteRewards, At
  <2>2. CASE Uncounted(u) /\ Pay(x, Bonus)
    <3>1. x \in Income /\ Worth[x] = Bonus
      BY <2>1, Incomes DEF Worth
    <3>2. x \notin Flowed
      BY <1>0, <2>2 DEF Backed, Uncounted
    <3> QED BY <1>1, <1>3, <2>2, <3>1, <3>2 DEF InviteRewards
  <2>3. CASE UNCHANGED money
    BY <1>2, <1>3, <2>3 DEF InviteRewards
  <2> QED BY <1>3, <2>2, <2>3 DEF InviteRewards
<1>4. ASSUME NEW w \in Worker, Claim(w)
      PROVE  CreditExplained' /\ IsFiniteSet(Flowed)' /\ IsFiniteSet(ToppedUpAll)'
  <2> DEFINE o == task[w].order
             r == task[w].inviter
             x == [kind |-> "commission", of |-> o, to |-> r]
  <2>1. o \in Order /\ r \in User
    BY <1>0, <1>4, TaskShapes DEF Claim, At
  <2>2. CASE Unrewarded(Buyer[o]) /\ Pay(x, Commission[o])
    <3>1. x \in Income /\ Worth[x] = Commission[o]
      BY <2>1, Incomes DEF Worth
    <3>2. x \notin Flowed
      BY <1>0, <2>2 DEF Backed, Unrewarded
    <3> QED BY <1>1, <1>4, <2>2, <3>1, <3>2 DEF Claim
  <2>3. CASE UNCHANGED money
    BY <1>2, <1>4, <2>3 DEF Claim
  <2> QED BY <1>4, <2>2, <2>3 DEF Claim
<1>5. ASSUME NEW w \in Worker, DecideTopUp(w)
      PROVE  CreditExplained' /\ IsFiniteSet(Flowed)' /\ IsFiniteSet(ToppedUpAll)'
  <2>0. PICK t \in TopUp : t = task[w].topup
    BY <1>0, <1>5, TaskShapes DEF DecideTopUp, At
  <2> DEFINE v == task[w].verdict
             r == Owner[t]
             x == [kind |-> "topup", of |-> t, to |-> r]
  <2>1. v \in Verdict /\ r \in User /\ Amount[t] \in Int
    BY <1>0, <1>5, TaskShapes, WalletAssumption DEF DecideTopUp, At
  <2>2. CASE ~(Pending(t) /\ v = "approved")
    <3>1. UNCHANGED money /\ topup' = IF Pending(t) THEN [topup EXCEPT ![t] = v] ELSE topup
      BY <1>5, <2>0, <2>2 DEF DecideTopUp
    <3>2. \A y \in TopUp : topup'[y] = "approved" <=> topup[y] = "approved"
      BY <1>0, <2>1, <2>2, <3>1 DEF TypeOK, Pending, Verdict
    <3> QED BY <1>2, <3>1, <3>2
  <2>3. CASE Pending(t) /\ v = "approved"
    <3>1. /\ Pay(x, Amount[t]) /\ topup' = [topup EXCEPT ![t] = "approved"]
      BY <1>5, <2>0, <2>3 DEF DecideTopUp
    <3>2. x \in Income /\ x.kind = "topup" /\ x.to = r
      BY <2>1, Incomes
    <3>3. credit' = [credit EXCEPT ![r] = @ + Amount[t]] /\ paid' = Plus(paid, x)
      BY <3>1 DEF Pay, Plus
    <3>4. \A y \in TopUp : topup'[y] = "approved" <=> topup[y] = "approved" \/ y = t
      BY <1>0, <2>1, <3>1 DEF TypeOK
    <3> HIDE DEF x, r
    <3>5. Flowed' = Flowed \cup {x}
      <4>1. FlowedIn(Plus(paid, x)) = FlowedIn(paid) \cup {x}
        BY <1>0, <3>2, FlowsOn DEF TypeOK
      <4>2. Flowed' = FlowedIn(paid') /\ Flowed = FlowedIn(paid)
        BY DEF Flowed, FlowedIn
      <4> QED BY <3>3, <4>1, <4>2
    <3>6. \A u : Rewards(u)' = Rewards(u)
      BY <3>2, <3>5 DEF Rewards
    <3>7. t \in TopUp \ ToppedUp(r) /\ ToppedUp(r)' = ToppedUp(r) \cup {t}
      BY <2>1, <2>3, <3>4 DEF ToppedUp, Pending, r
    <3>8. \A u \in User \ {r} : ToppedUp(u)' = ToppedUp(u)
      BY <2>1, <3>4 DEF ToppedUp, r
    <3>9. ToppedUpAll' = ToppedUpAll \cup {t}
      BY <2>1, <3>4 DEF ToppedUpAll
    <3>10. IsFiniteSet(Flowed)' /\ IsFiniteSet(ToppedUpAll)'
      BY <1>0, <3>5, <3>9, FS_AddElement
    <3>11. CreditExplained'
      BY <1>0, <2>1, <3>3, <3>6, <3>7, <3>8, WalletPaid
    <3> QED BY <3>10, <3>11
  <2> QED BY <2>2, <2>3
<1>6. ASSUME NEW x \in TopUp, AskTopUp(x)
      PROVE  CreditExplained' /\ IsFiniteSet(Flowed)' /\ IsFiniteSet(ToppedUpAll)'
  <2>1. UNCHANGED money /\ \A y \in TopUp : topup'[y] = "approved" <=> topup[y] = "approved"
    BY <1>0, <1>6 DEF AskTopUp, TypeOK
  <2> QED BY <1>2, <2>1
<1>7. CASE UNCHANGED <<money, topup>>
  BY <1>2, <1>7
<1>8. CASE /\ \A w \in Worker : ~InviteRewards(w) /\ ~Claim(w) /\ ~DecideTopUp(w)
           /\ \A x \in TopUp : ~AskTopUp(x)
  <2>1. UNCHANGED <<money, topup>>
    BY <1>8, WalletAssumption
    DEF Next, vars, Run, SetReferredBy, ReadGift, CheckAward, EnterAward, ReadReward, Crash, Start,
        Approve, Replay, ReadTopUp, money
  <2> QED BY <1>7, <2>1
<1> QED BY <1>3, <1>4, <1>5, <1>6, <1>8

LEMMA WalletInvInit ==
  ASSUME Init
  PROVE  WalletInv
<1>1. PaymentInv
  <2>1. TypeOK
    BY DEF Init, TypeOK
  <2>2. Flowed = {} /\ TasksKnown
    BY DEF Init, Flowed, TasksKnown
  <2> QED BY <2>1, <2>2 DEF PaymentInv, Backed, PaidOnce
<1>2. Flowed = {} /\ ToppedUpAll = {}
  BY DEF Init, Flowed, ToppedUpAll
<1>3. \A u \in User : credit[u] = 0 /\ Rewards(u) = {} /\ ToppedUp(u) = {}
  BY DEF Init, Flowed, Rewards, ToppedUp
<1>4. CreditExplained
  <2> SUFFICES ASSUME NEW u \in User
               PROVE  credit[u] = SumFunctionOnSet(Worth, Rewards(u))
                                    + SumFunctionOnSet(Amount, ToppedUp(u))
    BY DEF CreditExplained
  <2>1. SumFunctionOnSet(Worth, Rewards(u)) = 0 /\ SumFunctionOnSet(Amount, ToppedUp(u)) = 0
    BY <1>3, SumEmpty, Zenon
  <2> QED BY <1>3, <2>1
<1> QED BY <1>1, <1>2, <1>4, FS_EmptySet DEF WalletInv

LEMMA WalletInvStep ==
  ASSUME WalletInv, [Next]_vars
  PROVE  WalletInv'
<1>1. PaymentInv'
  BY NextTypes, TasksStayKnown, PaymentStep DEF WalletInv, PaymentInv
<1> QED BY <1>1, WalletStep DEF WalletInv

LEMMA WalletInvHolds == Spec => []WalletInv
BY WalletInvInit, WalletInvStep, PTL DEF Spec

\* The wallets add up, for any number of customers, orders, top-ups and workers and any
\* amounts: every approved top-up and every reward is in its customer's wallet, once,
\* and nothing else is, although the status, the flags and the counts that decide on a
\* payment are read by several processes before one of them writes.
THEOREM WalletsAddUp == Spec => []CreditExplained
<1>1. WalletInv => CreditExplained
  BY DEF WalletInv
<1> QED BY <1>1, WalletInvHolds, PTL

-----------------------------------------------------------------------------
(* The limits on rewards.                                                     *)

\* What is paid stays paid.
LEMMA FlowsStay ==
  ASSUME TypeOK, [Next]_vars
  PROVE  Flowed \subseteq Flowed'
<1>0. paid \in [Income -> Nat]
  BY DEF TypeOK
<1>1. CASE paid' = paid
  BY <1>1 DEF Flowed
<1>2. ASSUME NEW x \in Income, paid' = [paid EXCEPT ![x] = @ + 1]
      PROVE  Flowed \subseteq Flowed'
  BY <1>0, <1>2 DEF Flowed
<1>3. ASSUME NEW w \in Worker, InviteRewards(w)
      PROVE  Flowed \subseteq Flowed'
  <2>1. task[w].user \in User /\ task[w].inviter \in User
    BY <1>3, TaskShapes DEF InviteRewards, At
  <2>2. [kind |-> "bonus", of |-> task[w].user, to |-> task[w].inviter] \in Income
    BY <2>1, Incomes
  <2> QED BY <1>1, <1>2, <1>3, <2>2 DEF InviteRewards, Pay, money
<1>4. ASSUME NEW w \in Worker, Claim(w)
      PROVE  Flowed \subseteq Flowed'
  <2>1. task[w].order \in Order /\ task[w].inviter \in User
    BY <1>4, TaskShapes DEF Claim, At
  <2>2. [kind |-> "commission", of |-> task[w].order, to |-> task[w].inviter] \in Income
    BY <2>1, Incomes
  <2> QED BY <1>1, <1>2, <1>4, <2>2 DEF Claim, Pay, money
<1>5. ASSUME NEW w \in Worker, DecideTopUp(w)
      PROVE  Flowed \subseteq Flowed'
  <2>1. task[w].topup \in TopUp
    BY <1>5, TaskShapes DEF DecideTopUp, At
  <2>2. [kind |-> "topup", of |-> task[w].topup, to |-> Owner[task[w].topup]] \in Income
    BY <2>1, Incomes, WalletAssumption
  <2> QED BY <1>1, <1>2, <1>5, <2>2 DEF DecideTopUp, Pay, money
<1>6. CASE \A w \in Worker : ~InviteRewards(w) /\ ~Claim(w) /\ ~DecideTopUp(w)
  BY <1>1, <1>6, WalletAssumption
  DEF Next, vars, Run, SetReferredBy, ReadGift, CheckAward, EnterAward, ReadReward, Crash, Start,
      Approve, Replay, AskTopUp, ReadTopUp, money
<1> QED BY <1>3, <1>4, <1>5, <1>6

\* A bonus is paid by the transaction that counts.
LEMMA NewBonus ==
  ASSUME TypeOK, [Next]_vars, NEW x \in Flowed' \ Flowed, x.kind = "bonus"
  PROVE  \E w \in Worker : /\ InviteRewards(w)
                           /\ BonusLeft(task[w].inviter)
                           /\ x.of = task[w].user /\ x.to = task[w].inviter
<1>0. paid \in [Income -> Nat] /\ x \in Income /\ paid[x] = 0 /\ paid'[x] > 0
  BY DEF TypeOK, Flowed
<1>1. ASSUME NEW w \in Worker, InviteRewards(w)
      PROVE  BonusLeft(task[w].inviter) /\ x.of = task[w].user /\ x.to = task[w].inviter
  <2> DEFINE y == [kind |-> "bonus", of |-> task[w].user, to |-> task[w].inviter]
  <2>1. BonusLeft(task[w].inviter) /\ paid' = [paid EXCEPT ![y] = @ + 1]
    BY <1>0, <1>1 DEF InviteRewards, Pay, money
  <2> HIDE DEF y
  <2>2. x = y
    BY <1>0, <2>1
  <2> QED BY <2>1, <2>2 DEF y
<1>2. ASSUME NEW y, y.kind # "bonus", paid' = [paid EXCEPT ![y] = @ + 1]
      PROVE  FALSE
  BY <1>0, <1>2
<1>3. ASSUME NEW w \in Worker, Claim(w) \/ DecideTopUp(w)
      PROVE  FALSE
  BY <1>0, <1>2, <1>3 DEF Claim, DecideTopUp, Pay, money
<1>4. CASE \A w \in Worker : ~InviteRewards(w) /\ ~Claim(w) /\ ~DecideTopUp(w)
  <2>1. paid' = paid
    BY <1>4, WalletAssumption
    DEF Next, vars, Run, SetReferredBy, ReadGift, CheckAward, EnterAward, ReadReward, Crash, Start,
        Approve, Replay, AskTopUp, ReadTopUp, money
  <2> QED BY <1>0, <2>1
<1> QED BY <1>1, <1>3, <1>4

\* Different bonuses of one inviter are for different customers, different commissions
\* for different buyers.
LEMMA RewardsByCustomer ==
  ASSUME NEW p, Once(p), NEW k, NEW r,
         NEW S, \A x \in S : x \in FlowedIn(p) /\ x.kind = k /\ x.to = r,
         NEW T, IsFiniteSet(T), \A x \in S : Event(x) \in T
  PROVE  IsFiniteSet(S) /\ Cardinality(S) <= Cardinality(T)
<1> DEFINE f == [x \in S |-> Event(x)]
<1>1. f \in [S -> T]
  OBVIOUS
<1>2. ASSUME NEW x \in S, NEW y \in S, f[x] = f[y]
      PROVE  x = y
  BY <1>2 DEF Once
<1> HIDE DEF f
<1>3. f \in Injection(S, T)
  BY <1>1, <1>2 DEF Injection, IsInjective
<1> QED BY <1>3, FS_Injection

\* Everybody whose invitation is about to be rewarded, or was, has an inviter.
InvitesKnown ==
  /\ \A w \in Worker :
       At(w, "invite") \/ At(w, "bonus") => referredBy[task[w].user] # NoOne
  /\ \A x \in Flowed : x.kind = "bonus" => referredBy[x.of] # NoOne

LimitsInv ==
  /\ WalletInv /\ InvitesKnown /\ BonusesLimited
  /\ IsFiniteSet(counted) /\ IsFiniteSet(rewarded)

\* How a worker comes to reward an invitation or to pay a commission.
LEMMA NewPoint ==
  ASSUME TypeOK, [Next]_vars, NEW v \in Worker, task'[v] # task[v], task'[v] # Idle
  PROVE  \/ task'[v].pc \in {"set", "award", "enter", "reward", "decide"}
         \/ /\ SetReferredBy(v) /\ task'[v].pc = "invite"
            /\ task'[v].user = task[v].user
         \/ /\ ReadGift(v) /\ task'[v].pc = "bonus"
            /\ task'[v].user = task[v].user /\ task'[v].inviter = task[v].inviter
            /\ task'[v].given <=> task[v].inviter \in gifted
         \/ /\ ReadReward(v) /\ task'[v].pc = "claim"
            /\ task'[v].inviter = referredBy[Buyer[task[v].order]]
            /\ task'[v].full <=>
                 /\ MaxCommissions > 0
                 /\ Cardinality(Invited(task'[v].inviter) \cap rewarded) >= MaxCommissions
<1> DEFINE Moves ==
      \/ task'[v].pc \in {"set", "award", "enter", "reward", "decide"}
      \/ /\ SetReferredBy(v) /\ task'[v].pc = "invite"
         /\ task'[v].user = task[v].user
      \/ /\ ReadGift(v) /\ task'[v].pc = "bonus"
         /\ task'[v].user = task[v].user /\ task'[v].inviter = task[v].inviter
         /\ task'[v].given <=> task[v].inviter \in gifted
      \/ /\ ReadReward(v) /\ task'[v].pc = "claim"
         /\ task'[v].inviter = referredBy[Buyer[task[v].order]]
         /\ task'[v].full <=>
              /\ MaxCommissions > 0
              /\ Cardinality(Invited(task'[v].inviter) \cap rewarded) >= MaxCommissions
<1>1. ASSUME NEW w \in Worker, NEW t, Go(w, t)
      PROVE  v = w /\ task'[v] = t
  BY <1>1 DEF TypeOK, Go
<1>2. ASSUME NEW w \in Worker, SetReferredBy(w)
      PROVE  Moves
  <2>1. task[w] \in [pc : {"set", "invite"}, inviter : User, user : User]
    BY <1>2, TaskShapes DEF SetReferredBy, At, Task
  <2>2. v = w /\ task'[v] = [task[w] EXCEPT !.pc = "invite"]
    BY <1>1, <1>2 DEF SetReferredBy
  <2>3. task'[v].pc = "invite" /\ task'[v].user = task[v].user
    BY <2>1, <2>2
  <2> QED BY <1>2, <2>2, <2>3
<1>3. ASSUME NEW w \in Worker, CheckAward(w) \/ EnterAward(w)
      PROVE  Moves
  <2>1. task[w] \in [pc : {"award", "enter", "reward"}, order : Order]
    BY <1>3, TaskShapes DEF CheckAward, EnterAward, At, Task
  <2>2. \/ task'[v] = [task[w] EXCEPT !.pc = "reward"]
        \/ task'[v] = [task[w] EXCEPT !.pc = "enter"]
    <3>1. CASE CheckAward(w)
      BY <1>1, <3>1 DEF CheckAward
    <3>2. CASE EnterAward(w)
      BY <1>1, <3>2 DEF EnterAward
    <3> QED BY <1>3, <3>1, <3>2
  <2>3. task'[v].pc \in {"enter", "reward"}
    BY <2>1, <2>2
  <2> QED BY <2>3
<1>4. ASSUME NEW w \in Worker, ReadReward(w)
      PROVE  Moves
  <2> DEFINE r == referredBy[Buyer[task[w].order]]
             full == /\ MaxCommissions > 0
                     /\ Cardinality(Invited(r) \cap rewarded) >= MaxCommissions
             t == [pc |-> "claim", order |-> task[w].order, inviter |-> r, full |-> full]
  <2>1. Go(w, Idle) \/ Go(w, t)
    BY <1>4, Zenon DEF ReadReward
  <2> HIDE DEF t
  <2>2. v = w /\ task'[v] = t
    BY <1>1, <2>1
  <2>3. t.pc = "claim" /\ t.inviter = r /\ (t.full <=> full)
    BY DEF t
  <2> HIDE DEF full
  <2>4. /\ ReadReward(v) /\ task'[v].pc = "claim" /\ task'[v].inviter = r
        /\ task'[v].full <=> full
    BY <1>4, <2>2, <2>3
  <2> QED BY <2>2, <2>4, Zenon DEF full
<1>5. ASSUME NEW w \in Worker, ReadGift(w)
      PROVE  Moves
  <2> DEFINE t == [pc |-> "bonus", inviter |-> task[w].inviter, user |-> task[w].user,
                   given |-> task[w].inviter \in gifted]
  <2>1. Go(w, t)
    BY <1>5 DEF ReadGift, Given
  <2> HIDE DEF t
  <2>2. v = w /\ task'[v] = t
    BY <1>1, <2>1
  <2>3. /\ t.pc = "bonus" /\ t.user = task[w].user /\ t.inviter = task[w].inviter
        /\ t.given <=> task[w].inviter \in gifted
    BY DEF t
  <2> QED BY <1>5, <2>2, <2>3
<1>6. ASSUME NEW w \in Worker, InviteRewards(w) \/ Claim(w) \/ DecideTopUp(w) \/ Crash(w)
      PROVE  FALSE
  BY <1>1, <1>6 DEF InviteRewards, Claim, DecideTopUp, Crash
<1>7. ASSUME NEW w \in Worker,
             \/ \E p \in Link : Start(w, p)
             \/ \E o \in Order : Approve(w, o) \/ Replay(w, o)
             \/ \E t \in TopUp, d \in Verdict : ReadTopUp(w, t, d)
      PROVE  task'[v].pc \in {"set", "award", "decide"}
  <2>1. ASSUME NEW p \in Link, Start(w, p)
        PROVE  task'[v].pc = "set"
    BY <1>1, <2>1 DEF Start
  <2>2. ASSUME NEW o \in Order, Approve(w, o) \/ Replay(w, o)
        PROVE  task'[v].pc = "award"
    BY <1>1, <2>2 DEF Approve, Replay
  <2>3. ASSUME NEW t \in TopUp, NEW d \in Verdict, ReadTopUp(w, t, d)
        PROVE  task'[v].pc = "decide"
    <3>1. Go(w, [pc |-> "decide", topup |-> t, verdict |-> d])
      BY <2>3, Zenon DEF ReadTopUp
    <3> QED BY <1>1, <3>1
  <2> QED BY <1>7, <2>1, <2>2, <2>3
<1> HIDE DEF Moves
<1>8. CASE UNCHANGED task
  BY <1>8
<1>9. (task'[v].pc \in {"set", "award", "decide"}) => Moves
  BY DEF Moves
<1>10. Moves
  BY <1>2, <1>3, <1>4, <1>5, <1>6, <1>7, <1>8, <1>9, WalletAssumption DEF Next, Run, AskTopUp, vars
<1> QED BY <1>10 DEF Moves

\* SetReferredBy leaves nobody without an inviter, and no inviter goes.
LEMMA InvitesStayKnown ==
  ASSUME TypeOK, InvitesKnown, [Next]_vars
  PROVE  InvitesKnown'
<1>1. \A u \in User : referredBy[u] # NoOne => referredBy'[u] = referredBy[u]
  BY InviterKept
<1>2. ASSUME NEW v \in Worker, At(v, "invite")' \/ At(v, "bonus")'
      PROVE  referredBy'[task'[v].user] # NoOne
  <2>1. CASE task'[v] = task[v]
    <3>1. (At(v, "invite") \/ At(v, "bonus")) /\ task[v].user \in User
      BY <1>2, <2>1, TaskShapes DEF At
    <3> QED BY <1>1, <2>1, <3>1 DEF InvitesKnown
  <2>2. ASSUME SetReferredBy(v), task'[v].user = task[v].user
        PROVE  referredBy'[task'[v].user] # NoOne
    <3>1. SetReferredBy(v) /\ task'[v].user = task[v].user
      BY <2>2
    <3>2. task[v].user \in User /\ task[v].inviter \in User
      BY <3>1, TaskShapes DEF SetReferredBy, At
    <3>3. referredBy'[task[v].user] # NoOne
      BY <3>1, <3>2, WalletAssumption DEF SetReferredBy, TypeOK, NotInvited
    <3> QED BY <3>1, <3>3
  <2>3. ASSUME ReadGift(v), task'[v].user = task[v].user
        PROVE  referredBy'[task'[v].user] # NoOne
    <3>1. At(v, "invite") /\ task[v].user \in User
      BY <2>3, TaskShapes DEF ReadGift, At
    <3> QED BY <1>1, <2>3, <3>1 DEF InvitesKnown
  <2>4. CASE task'[v] # task[v]
    BY <1>2, <2>2, <2>3, <2>4, NewPoint DEF At
  <2> QED BY <2>1, <2>4
<1>3. ASSUME NEW x \in Flowed', x.kind = "bonus"
      PROVE  referredBy'[x.of] # NoOne
  <2>1. x.of \in User
    BY <1>3 DEF Flowed, Income
  <2>2. CASE x \in Flowed
    BY <1>1, <1>3, <2>1, <2>2 DEF InvitesKnown
  <2>3. CASE x \notin Flowed
    <3>1. PICK w \in Worker : InviteRewards(w) /\ x.of = task[w].user
      BY <1>3, <2>3, NewBonus
    <3>2. At(w, "bonus")
      BY <3>1 DEF InviteRewards
    <3> QED BY <1>1, <2>1, <3>1, <3>2 DEF InvitesKnown
  <2> QED BY <2>2, <2>3
<1> QED BY <1>2, <1>3 DEF InvitesKnown

\* A step marks at most one customer as counted or as rewarded.
LEMMA MarksFinite ==
  ASSUME TypeOK, [Next]_vars, IsFiniteSet(counted), IsFiniteSet(rewarded)
  PROVE  IsFiniteSet(counted') /\ IsFiniteSet(rewarded')
<1>1. counted' = counted \/ \E u : counted' = counted \cup {u}
  BY WalletAssumption
  DEF Next, vars, Run, SetReferredBy, ReadGift, InviteRewards, CheckAward, EnterAward, ReadReward, Claim,
      DecideTopUp, Crash, Start, Approve, Replay, AskTopUp, ReadTopUp, invitation
<1>2. rewarded' = rewarded \/ \E u : rewarded' = rewarded \cup {u}
  BY WalletAssumption
  DEF Next, vars, Run, SetReferredBy, ReadGift, InviteRewards, CheckAward, EnterAward, ReadReward, Claim,
      DecideTopUp, Crash, Start, Approve, Replay, AskTopUp, ReadTopUp
<1> QED BY <1>1, <1>2, FS_AddElement

\* A bonus that is paid for a customer of the inviter's is among those that were counted.
LEMMA BonusStep ==
  ASSUME LimitsInv, [Next]_vars, PaymentInv', IsFiniteSet(counted')
  PROVE  BonusesLimited'
<1>0. /\ TypeOK /\ InvitesKnown /\ BonusesLimited /\ IsFiniteSet(Flowed)
      /\ PaidOnce' /\ Backed'
  BY DEF LimitsInv, WalletInv, PaymentInv
<1> SUFFICES ASSUME MaxBonuses > 0, NEW r \in User
             PROVE  Cardinality(BonusesFor(r)') <= MaxBonuses
  BY DEF BonusesLimited
<1>1. Cardinality(BonusesFor(r)) <= MaxBonuses /\ MaxBonuses \in Nat
  BY <1>0, WalletAssumption DEF BonusesLimited
<1>2. IsFiniteSet(BonusesFor(r))
  <2>1. BonusesFor(r) \subseteq Flowed
    BY DEF BonusesFor
  <2> QED BY <1>0, <2>1, FS_Subset
<1>3. CASE BonusesFor(r)' \subseteq BonusesFor(r)
  <2>1. Cardinality(BonusesFor(r)') <= Cardinality(BonusesFor(r))
        /\ Cardinality(BonusesFor(r)') \in Nat /\ Cardinality(BonusesFor(r)) \in Nat
    BY <1>2, <1>3, FS_Subset, FS_CardinalityType
  <2> QED BY <1>1, <2>1
<1>4. ASSUME NEW x \in BonusesFor(r)', x \notin BonusesFor(r)
      PROVE  Cardinality(BonusesFor(r)') <= MaxBonuses
  <2>1. x \in Flowed' /\ x.kind = "bonus" /\ x.to = r /\ referredBy'[x.of] = r /\ x.of \in User
    BY <1>4 DEF BonusesFor, Flowed, Income
  <2>2. x \notin Flowed
    <3>1. SUFFICES ASSUME x \in Flowed
                   PROVE  FALSE
      OBVIOUS
    <3>2. referredBy[x.of] # NoOne
      BY <1>0, <2>1, <3>1 DEF InvitesKnown
    <3>3. referredBy'[x.of] = referredBy[x.of]
      BY <1>0, <2>1, <3>2, InviterKept
    <3> QED BY <1>4, <2>1, <3>1, <3>3 DEF BonusesFor
  <2>3. PICK w \in Worker : InviteRewards(w) /\ BonusLeft(task[w].inviter) /\ task[w].inviter = r
    BY <1>0, <2>1, <2>2, NewBonus
  <2> DEFINE T == {u \in User : referredBy'[u] = r} \cap counted'
  <2>4. Invited(r) \cap counted' = T
    BY <2>3 DEF InviteRewards, Invited
  <2>5. Cardinality(T) <= MaxBonuses
    <3>1. Cardinality(Invited(r) \cap counted') <= MaxBonuses
      BY <1>1, <2>3 DEF BonusLeft
    <3> QED BY <2>4, <3>1, Zenon
  <2>6. IsFiniteSet(T)
    BY FS_Subset
  <2>7. \A y \in BonusesFor(r)' : y \in FlowedIn(paid') /\ y.kind = "bonus" /\ y.to = r
    BY DEF BonusesFor, Flowed, FlowedIn
  <2>8. Once(paid')
    BY <1>0 DEF PaidOnce, Once, Flowed, FlowedIn
  <2>11. \A y \in BonusesFor(r)' : Event(y) \in T
    BY <1>0 DEF BonusesFor, Backed, Event, Flowed, Income
  <2> HIDE DEF T
  <2>9. IsFiniteSet(BonusesFor(r)') /\ Cardinality(BonusesFor(r)') <= Cardinality(T)
    <3> DEFINE S == BonusesFor(r)'
    <3> HIDE DEF S
    <3> QED BY <2>6, <2>7, <2>8, <2>11, RewardsByCustomer DEF S
  <2>10. Cardinality(T) \in Nat /\ Cardinality(BonusesFor(r)') \in Nat
    BY <2>6, <2>9, FS_CardinalityType
  <2> QED BY <1>1, <2>5, <2>9, <2>10
<1> QED BY <1>3, <1>4

LEMMA LimitsInvHolds == Spec => []LimitsInv
<1>1. Init => LimitsInv
  <2> SUFFICES ASSUME Init PROVE LimitsInv
    OBVIOUS
  <2>1. WalletInv
    BY WalletInvInit
  <2>2. Flowed = {} /\ counted = {} /\ rewarded = {} /\ \A w \in Worker : task[w] = Idle
    BY DEF Init, Flowed
  <2>3. \A r : BonusesFor(r) = {}
    BY <2>2 DEF BonusesFor
  <2>4. BonusesLimited
    <3> SUFFICES ASSUME NEW r \in User, MaxBonuses > 0
                 PROVE  Cardinality(BonusesFor(r)) <= MaxBonuses
      BY DEF BonusesLimited
    <3>1. Cardinality(BonusesFor(r)) = 0
      BY <2>3, FS_EmptySet
    <3> QED BY <3>1, WalletAssumption
  <2>5. InvitesKnown
    BY <2>2 DEF InvitesKnown, At
  <2> QED BY <2>1, <2>2, <2>4, <2>5, FS_EmptySet DEF LimitsInv
<1>2. LimitsInv /\ [Next]_vars => LimitsInv'
  <2> SUFFICES ASSUME LimitsInv, [Next]_vars PROVE LimitsInv'
    OBVIOUS
  <2>1. WalletInv' /\ PaymentInv'
    BY WalletInvStep DEF LimitsInv, WalletInv
  <2>2. TypeOK /\ InvitesKnown
    BY DEF LimitsInv, WalletInv, PaymentInv
  <2>3. IsFiniteSet(counted') /\ IsFiniteSet(rewarded')
    BY <2>2, MarksFinite DEF LimitsInv
  <2> QED BY <2>1, <2>2, <2>3, InvitesStayKnown, BonusStep DEF LimitsInv
<1> QED BY <1>1, <1>2, PTL DEF Spec

\* An inviter is paid for no more of the customers that are recorded as theirs than the
\* limit allows, however many of them arrive at once: they are counted by the transaction
\* that pays.
THEOREM BonusesWithinLimit == Spec => []BonusesLimited
<1>1. LimitsInv => BonusesLimited
  BY DEF LimitsInv
<1> QED BY <1>1, LimitsInvHolds, PTL

-----------------------------------------------------------------------------
(* Commissions beyond the limit.                                              *)

\* The workers that are about to pay a commission to r.
Paying(r) == {w \in Worker : At(w, "claim") /\ ~task[w].full /\ task[w].inviter = r}

CountInv ==
  MaxCommissions > 0 =>
    \A r \in User :
      Cardinality(CommissionsFor(r)) + Cardinality(Paying(r)) < MaxCommissions + Cardinality(Worker)

\* A commission is paid by a claim that found room, and by nothing else.
LEMMA NewCommission ==
  ASSUME TypeOK, [Next]_vars, NEW x \in Flowed' \ Flowed, x.kind = "commission"
  PROVE  \E w \in Worker : /\ Claim(w) /\ ~task[w].full
                           /\ x = [kind |-> "commission", of |-> task[w].order,
                                   to |-> task[w].inviter]
<1>0. paid \in [Income -> Nat] /\ x \in Income /\ paid[x] = 0 /\ paid'[x] > 0
  BY DEF TypeOK, Flowed
<1>1. ASSUME NEW w \in Worker, InviteRewards(w)
      PROVE  FALSE
  BY <1>0, <1>1 DEF InviteRewards, Pay, money
<1>2. ASSUME NEW w \in Worker, Claim(w)
      PROVE  ~task[w].full /\ x = [kind |-> "commission", of |-> task[w].order,
                                   to |-> task[w].inviter]
  <2> DEFINE y == [kind |-> "commission", of |-> task[w].order, to |-> task[w].inviter]
  <2>1. ~task[w].full /\ paid' = [paid EXCEPT ![y] = @ + 1]
    BY <1>0, <1>2 DEF Claim, Pay, money
  <2> HIDE DEF y
  <2>2. x = y
    BY <1>0, <2>1
  <2> QED BY <2>1, <2>2 DEF y
<1>3. ASSUME NEW w \in Worker, DecideTopUp(w)
      PROVE  FALSE
  BY <1>0, <1>3 DEF DecideTopUp, Pay, money
<1>4. CASE \A w \in Worker : ~InviteRewards(w) /\ ~Claim(w) /\ ~DecideTopUp(w)
  <2>1. paid' = paid
    BY <1>4, WalletAssumption
    DEF Next, vars, Run, SetReferredBy, ReadGift, CheckAward, EnterAward, ReadReward, Crash, Start,
        Approve, Replay, AskTopUp, ReadTopUp, money
  <2> QED BY <1>0, <2>1
<1> QED BY <1>1, <1>2, <1>3, <1>4

\* The commissions of r are for different customers, who are marked as rewarded.
LEMMA CommissionsCounted ==
  ASSUME LimitsInv, NEW r \in User
  PROVE  /\ IsFiniteSet(CommissionsFor(r)) /\ IsFiniteSet(Invited(r) \cap rewarded)
         /\ Cardinality(CommissionsFor(r)) <= Cardinality(Invited(r) \cap rewarded)
<1>1. Once(paid) /\ Backed
  BY HistoryIsOne DEF LimitsInv, WalletInv, PaymentInv
<1> DEFINE T == Invited(r) \cap rewarded
           S == CommissionsFor(r)
<1>2. IsFiniteSet(T)
  BY FS_Subset DEF LimitsInv
<1>3. \A x \in S : x \in FlowedIn(paid) /\ x.kind = "commission" /\ x.to = r
  BY DEF CommissionsFor, Flowed, FlowedIn
<1>4. \A x \in S : Event(x) \in T
  BY <1>1, WalletAssumption DEF CommissionsFor, Backed, Event, Flowed, Income, Invited
<1> HIDE DEF S, T
<1>5. IsFiniteSet(S) /\ Cardinality(S) <= Cardinality(T)
  BY <1>1, <1>2, <1>3, <1>4, RewardsByCustomer
<1> QED BY <1>2, <1>5 DEF S, T

\* Payments and payments to come are together no more after any step, unless a worker has
\* just found room, and then no more than all workers can pay.
LEMMA CommissionStep ==
  ASSUME LimitsInv, CountInv, IsFiniteSet(Worker), [Next]_vars, LimitsInv'
  PROVE  CountInv'
<1> SUFFICES ASSUME MaxCommissions > 0, NEW r \in User
             PROVE  Cardinality(CommissionsFor(r)') + Cardinality(Paying(r)')
                      < MaxCommissions + Cardinality(Worker)
  BY DEF CountInv
<1> DEFINE C == CommissionsFor(r)
           D == CommissionsFor(r)'
           P == Paying(r)
           Q == Paying(r)'
<1>0. TypeOK /\ TypeOK'
  BY DEF LimitsInv, WalletInv, PaymentInv
<1>1. /\ IsFiniteSet(C) /\ IsFiniteSet(D) /\ IsFiniteSet(P) /\ IsFiniteSet(Q)
      /\ Cardinality(C) \in Nat /\ Cardinality(D) \in Nat
      /\ Cardinality(P) \in Nat /\ Cardinality(Q) \in Nat
      /\ Cardinality(Q) <= Cardinality(Worker) /\ Cardinality(Worker) \in Nat
      /\ MaxCommissions \in Nat
  <2>1. IsFiniteSet(C)
    BY CommissionsCounted
  <2>2. IsFiniteSet(D)
    <3>1. D \subseteq Flowed'
      BY DEF CommissionsFor
    <3>2. IsFiniteSet(Flowed')
      BY DEF LimitsInv, WalletInv
    <3> QED BY <3>1, <3>2, FS_Subset
  <2>3. P \subseteq Worker /\ Q \subseteq Worker
    BY DEF Paying
  <2> HIDE DEF C, D, P, Q
  <2> QED BY <2>1, <2>2, <2>3, FS_Subset, FS_CardinalityType, WalletAssumption
<1>2. Cardinality(C) + Cardinality(P) < MaxCommissions + Cardinality(Worker)
  BY DEF CountInv
<1>3. ASSUME D \subseteq C, Q \subseteq P
      PROVE  Cardinality(D) + Cardinality(Q) < MaxCommissions + Cardinality(Worker)
  <2> HIDE DEF C, D, P, Q
  <2>1. Cardinality(D) <= Cardinality(C) /\ Cardinality(Q) <= Cardinality(P)
    BY <1>1, <1>3, FS_Subset
  <2> QED BY <1>1, <1>2, <2>1
<1>4. ASSUME NEW v \in Q, v \notin P
      PROVE  /\ ReadReward(v)
             /\ Cardinality(Invited(r) \cap rewarded) < MaxCommissions
  <2>1. v \in Worker /\ task'[v] # Idle /\ task'[v].pc = "claim" /\ ~task'[v].full
        /\ task'[v].inviter = r
    BY <1>4 DEF Paying, At
  <2>2. task'[v] # task[v]
    BY <1>4, <2>1 DEF Paying, At
  <2>3. ReadReward(v) /\ ~(Cardinality(Invited(r) \cap rewarded) >= MaxCommissions)
    BY <1>0, <2>1, <2>2, NewPoint
  <2>4. Cardinality(Invited(r) \cap rewarded) \in Nat
    BY CommissionsCounted, FS_CardinalityType
  <2> QED BY <1>1, <2>3, <2>4
<1>5. CASE Q \subseteq P
  <2>1. CASE D \subseteq C
    BY <1>3, <1>5, <2>1
  <2>2. ASSUME NEW x \in D, x \notin C
        PROVE  Cardinality(D) + Cardinality(Q) < MaxCommissions + Cardinality(Worker)
    <3>1. x \in Flowed' \ Flowed /\ x.kind = "commission" /\ x.to = r
      BY <2>2 DEF CommissionsFor
    <3>2. PICK w \in Worker : /\ Claim(w) /\ ~task[w].full
                              /\ x = [kind |-> "commission", of |-> task[w].order,
                                      to |-> task[w].inviter]
      BY <1>0, <3>1, NewCommission
    <3>3. w \in P /\ w \notin Q
      <4>1. task'[w] = Idle
        BY <1>0, <3>2 DEF Claim, Go, TypeOK
      <4> QED BY <3>1, <3>2, <4>1 DEF Paying, Claim, At
    <3>4. D \subseteq C \cup {x}
      <4> SUFFICES ASSUME NEW y \in D, y \notin C
                   PROVE  y = x
        OBVIOUS
      <4>1. y \in Flowed' \ Flowed /\ y.kind = "commission"
        BY DEF CommissionsFor
      <4>2. PICK v \in Worker : /\ Claim(v)
                                /\ y = [kind |-> "commission", of |-> task[v].order,
                                        to |-> task[v].inviter]
        BY <1>0, <4>1, NewCommission
      <4>3. v = w
        BY <1>0, <3>2, <4>2 DEF Claim, At, Go, TypeOK
      <4> QED BY <3>2, <4>2, <4>3
    <3> HIDE DEF C, D, P, Q
    <3>5. Cardinality(P \ {w}) = Cardinality(P) - 1 /\ IsFiniteSet(P \ {w})
      BY <1>1, <3>3, FS_RemoveElement
    <3>6. Q \subseteq P \ {w}
      BY <1>5, <3>3
    <3>7. Cardinality(Q) <= Cardinality(P) - 1
      BY <3>5, <3>6, FS_Subset
    <3>8. IsFiniteSet(C \cup {x}) /\ Cardinality(C \cup {x}) = Cardinality(C) + 1
      BY <1>1, <2>2, FS_AddElement
    <3>9. Cardinality(D) <= Cardinality(C) + 1
      BY <3>4, <3>8, FS_Subset
    <3> QED BY <1>1, <1>2, <3>7, <3>9
  <2> QED BY <2>1, <2>2
<1>6. CASE ~(Q \subseteq P)
  <2>0. PICK v \in Q : v \notin P
    BY <1>6, Zenon
  <2>1. v \in Worker /\ ReadReward(v) /\ Cardinality(Invited(r) \cap rewarded) < MaxCommissions
    BY <1>4, <2>0 DEF Paying
  <2>2. D = C
    BY <2>1 DEF ReadReward, money, invitation, CommissionsFor, Flowed
  <2>3. /\ Cardinality(C) <= Cardinality(Invited(r) \cap rewarded)
        /\ Cardinality(Invited(r) \cap rewarded) \in Nat
    BY CommissionsCounted, FS_CardinalityType
  <2>4. Cardinality(D) = Cardinality(C)
    BY <2>2, Zenon
  <2>5. Cardinality(D) + Cardinality(Q) < MaxCommissions + Cardinality(Worker)
    <3> HIDE DEF C, D, P, Q
    <3> QED BY <1>1, <2>1, <2>3, <2>4
  <2> QED BY <2>5, Zenon
<1> QED BY <1>5, <1>6, Zenon

\* The limit on commissions is exceeded by less than there are workers: those who found
\* room before the others had paid. Nobody finds room when the limit is reached.
THEOREM CommissionsNearLimit == IsFiniteSet(Worker) => (Spec => []CommissionsLimited)
<1> SUFFICES ASSUME IsFiniteSet(Worker)
             PROVE  Spec => []CommissionsLimited
  OBVIOUS
<1>0. Cardinality(Worker) \in Nat /\ MaxCommissions \in Nat
  BY FS_CardinalityType, WalletAssumption
<1>1. Init => CountInv
  <2> SUFFICES ASSUME Init, MaxCommissions > 0, NEW r \in User
               PROVE  Cardinality(CommissionsFor(r)) + Cardinality(Paying(r))
                        < MaxCommissions + Cardinality(Worker)
    BY DEF CountInv
  <2>1. CommissionsFor(r) = {} /\ Paying(r) = {}
    BY DEF Init, CommissionsFor, Flowed, Paying, At
  <2>2. Cardinality(CommissionsFor(r)) = 0 /\ Cardinality(Paying(r)) = 0
    BY <2>1, FS_EmptySet
  <2> QED BY <1>0, <2>2
<1>2. LimitsInv /\ CountInv /\ [Next]_vars /\ LimitsInv' => CountInv'
  BY CommissionStep
<1>3. LimitsInv /\ CountInv => CommissionsLimited
  <2> SUFFICES ASSUME LimitsInv, CountInv, MaxCommissions > 0, NEW r \in User
               PROVE  Cardinality(CommissionsFor(r)) < MaxCommissions + Cardinality(Worker)
    BY DEF CommissionsLimited
  <2>1. Paying(r) \subseteq Worker
    BY DEF Paying
  <2>2. Cardinality(Paying(r)) \in Nat /\ Cardinality(CommissionsFor(r)) \in Nat
    BY <2>1, FS_Subset, FS_CardinalityType, CommissionsCounted
  <2>3. Cardinality(CommissionsFor(r)) + Cardinality(Paying(r))
          < MaxCommissions + Cardinality(Worker)
    BY DEF CountInv
  <2> QED BY <1>0, <2>2, <2>3
<1> QED BY <1>1, <1>2, <1>3, LimitsInvHolds, PTL DEF Spec

-----------------------------------------------------------------------------
(* Free products.                                                             *)

\* The workers that found no free product given to r and have not written yet.
Giving(r) == {w \in Worker : At(w, "bonus") /\ ~task[w].given /\ task[w].inviter = r}

\* A customer without the flag has nothing; what was given and what may still be given
\* by those who looked before are together no more than there are workers.
GiftsInv ==
  \A r \in User :
    /\ r \notin gifted => gifts[r] = 0
    /\ gifts[r] + Cardinality(Giving(r)) <= Cardinality(Worker)

LEMMA GiftStep ==
  ASSUME TypeOK, GiftsInv, IsFiniteSet(Worker), [Next]_vars, TypeOK'
  PROVE  GiftsInv'
<1> SUFFICES ASSUME NEW r \in User
             PROVE  /\ r \notin gifted' => gifts'[r] = 0
                    /\ gifts'[r] + Cardinality(Giving(r)') <= Cardinality(Worker)
  BY DEF GiftsInv
<1> DEFINE P == Giving(r)
           Q == Giving(r)'
           Fits == /\ r \notin gifted' => gifts'[r] = 0
                   /\ gifts'[r] + Cardinality(Q) <= Cardinality(Worker)
<1>1. /\ IsFiniteSet(P) /\ IsFiniteSet(Q)
      /\ Cardinality(P) \in Nat /\ Cardinality(Q) \in Nat
      /\ Cardinality(Q) <= Cardinality(Worker) /\ Cardinality(Worker) \in Nat
      /\ gifts[r] \in Nat
  <2>1. P \subseteq Worker /\ Q \subseteq Worker
    BY DEF Giving
  <2> HIDE DEF P, Q
  <2> QED BY <2>1, FS_Subset, FS_CardinalityType DEF TypeOK
<1>2. /\ r \notin gifted => gifts[r] = 0
      /\ gifts[r] + Cardinality(P) <= Cardinality(Worker)
  BY DEF GiftsInv
<1>3. ASSUME gifts'[r] = gifts[r], r \in gifted => r \in gifted', Q \subseteq P
      PROVE  Fits
  <2> HIDE DEF P, Q
  <2>1. Cardinality(Q) <= Cardinality(P)
    BY <1>1, <1>3, FS_Subset
  <2> QED BY <1>1, <1>2, <1>3, <2>1
<1>4. ASSUME NEW w \in Worker, InviteRewards(w)
      PROVE  Fits
  <2>1. \A v \in Worker : task'[v] = IF v = w THEN Idle ELSE task[v]
    BY <1>4 DEF InviteRewards, Go, TypeOK
  <2>2. Q \subseteq P \ {w}
    BY <2>1 DEF Giving, At
  <2>3. task[w].inviter \in User
    BY <1>4, TaskShapes DEF InviteRewards, At
  <2>4. CASE ~task[w].given /\ task[w].inviter = r /\ gifts' = [gifts EXCEPT ![r] = @ + 1]
             /\ gifted' = gifted \cup {r}
    <3>1. gifts'[r] = gifts[r] + 1 /\ r \in gifted'
      BY <2>4 DEF TypeOK
    <3>2. w \in P
      BY <1>4, <2>4 DEF Giving, InviteRewards, At
    <3> HIDE DEF P, Q
    <3>3. Cardinality(P \ {w}) = Cardinality(P) - 1 /\ IsFiniteSet(P \ {w})
      BY <1>1, <3>2, FS_RemoveElement
    <3>4. Cardinality(Q) <= Cardinality(P) - 1
      BY <2>2, <3>3, FS_Subset
    <3> QED BY <1>1, <1>2, <3>1, <3>4
  <2>5. CASE ~(~task[w].given /\ task[w].inviter = r /\ gifts' = [gifts EXCEPT ![r] = @ + 1]
               /\ gifted' = gifted \cup {r})
    <3>1. gifts'[r] = gifts[r] /\ gifted \subseteq gifted'
      BY <1>4, <2>3, <2>5 DEF TypeOK, InviteRewards
    <3> QED BY <1>3, <2>2, <3>1
  <2> QED BY <2>4, <2>5
<1>5. ASSUME NEW v \in Q, v \notin P
      PROVE  ReadGift(v) /\ r \notin gifted
  <2>1. v \in Worker /\ task'[v] # Idle /\ task'[v].pc = "bonus" /\ ~task'[v].given
        /\ task'[v].inviter = r
    BY <1>5 DEF Giving, At
  <2>2. task'[v] # task[v]
    BY <1>5, <2>1 DEF Giving, At
  <2> QED BY <2>1, <2>2, NewPoint
<1>6. CASE \A w \in Worker : ~InviteRewards(w)
  <2>1. gifts' = gifts /\ gifted' = gifted
    BY <1>6, WalletAssumption
    DEF Next, vars, Run, SetReferredBy, ReadGift, CheckAward, EnterAward, ReadReward, Claim,
        DecideTopUp, Crash, Start, Approve, Replay, AskTopUp, ReadTopUp, invitation
  <2>2. CASE Q \subseteq P
    BY <1>3, <2>1, <2>2
  <2>3. CASE r \notin gifted
    <3>1. gifts'[r] = 0
      BY <1>2, <2>1, <2>3
    <3>2. Fits
      <4> HIDE DEF Q
      <4> QED BY <1>1, <3>1
    <3> QED BY <3>2
  <2> QED BY <1>5, <2>2, <2>3
<1> QED BY <1>4, <1>6

\* A free product is given to one inviter no more often than there are handlers at
\* invitations at once, although the flag is looked at before the transaction that sets it
\* and is set without another look: nobody who comes after it was given finds it missing.
THEOREM FreeProductsWithinRush == IsFiniteSet(Worker) => (Spec => []FreeProductLimited)
<1> SUFFICES ASSUME IsFiniteSet(Worker)
             PROVE  Spec => []FreeProductLimited
  OBVIOUS
<1>1. Init => GiftsInv
  <2> SUFFICES ASSUME Init, NEW r \in User
               PROVE  gifts[r] = 0 /\ gifts[r] + Cardinality(Giving(r)) <= Cardinality(Worker)
    BY DEF GiftsInv
  <2>1. gifts[r] = 0 /\ Giving(r) = {}
    BY DEF Init, Giving, At
  <2>2. Cardinality(Giving(r)) = 0 /\ Cardinality(Worker) \in Nat
    BY <2>1, FS_EmptySet, FS_CardinalityType
  <2> QED BY <2>1, <2>2
<1>2. TypeOK /\ GiftsInv /\ [Next]_vars /\ TypeOK' => GiftsInv'
  BY GiftStep
<1>3. TypeOK /\ GiftsInv => FreeProductLimited
  <2> SUFFICES ASSUME TypeOK, GiftsInv, NEW r \in User
               PROVE  gifts[r] <= Cardinality(Worker)
    BY DEF FreeProductLimited
  <2>1. Giving(r) \subseteq Worker
    BY DEF Giving
  <2>2. /\ Cardinality(Giving(r)) \in Nat /\ Cardinality(Worker) \in Nat
        /\ gifts[r] \in Nat
    BY <2>1, FS_Subset, FS_CardinalityType DEF TypeOK
  <2>3. gifts[r] + Cardinality(Giving(r)) <= Cardinality(Worker)
    BY DEF GiftsInv
  <2> QED BY <2>2, <2>3
<1> QED BY <1>1, <1>2, <1>3, WalletTypes, PTL DEF Spec
=============================================================================
