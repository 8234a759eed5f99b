------------------------------ MODULE SupportProofs ------------------------------
(* What holds of administrators, chats, tickets and the notifier for any number *)
(* of accounts, tickets, messages and handlers.                                 *)
EXTENDS Support, TLAPS

-----------------------------------------------------------------------------
(* Types.                                                                     *)

\* A handler that is at a point has what that point needs.
LEMMA TaskShapes ==
  ASSUME TypeOK, NEW s \in Slot, task[s] # Idle
  PROVE  /\ task[s] \in Task
         /\ task[s].pc \in {"take", "assign", "hold"} => task[s].who \in Telegram \cup Web
         /\ task[s].pc \in {"claim", "answer"} => task[s].who \in Web /\ task[s].ticket \in Ticket
         /\ task[s].pc = "message" => task[s].ticket \in Ticket
<1>1. task[s] \in Task
  BY DEF TypeOK
<1> DEFINE t == task[s]
<1> HIDE DEF t
<1>2. t \in Task
  BY <1>1 DEF t
<1>3. /\ t.pc \in {"take", "assign", "hold"} => t.who \in Telegram \cup Web
      /\ t.pc \in {"claim", "answer"} => t.who \in Web /\ t.ticket \in Ticket
      /\ t.pc = "message" => t.ticket \in Ticket
  BY <1>2 DEF Task
<1> QED BY <1>1, <1>3 DEF t

\* Whatever a handler turns to next is a task, or it is over; the others go on.
LEMMA GoTypes ==
  ASSUME TypeOK, NEW s \in Slot, NEW t \in Task \cup {Idle}, Go(s, t)
  PROVE  /\ task' \in [Slot -> Task \cup {Idle}] /\ task'[s] = t
         /\ \A r \in Slot : r # s => task'[r] = task[r]
BY DEF TypeOK, Go

\* The tasks that handlers begin with or go on to.
LEMMA Tasks ==
  /\ [pc |-> "resolve"] \in Task
  /\ \A p \in {"take", "assign", "hold"}, x \in Telegram \cup Web : [pc |-> p, who |-> x] \in Task
  /\ \A w \in Web, t \in Ticket : [pc |-> "claim", who |-> w, ticket |-> t] \in Task
  /\ \A t \in Ticket : [pc |-> "message", ticket |-> t] \in Task
BY DEF Task

\* The claim of a ticket leads to its answer.
LEMMA ClaimThenAnswer ==
  ASSUME TypeOK, NEW s \in Slot, At(s, "claim")
  PROVE  /\ [task[s] EXCEPT !.pc = "answer"] \in Task
         /\ [task[s] EXCEPT !.pc = "answer"].ticket = task[s].ticket
<1> DEFINE t == task[s]
<1>1. t \in Task /\ t.pc = "claim"
  BY DEF TypeOK, At
<1> HIDE DEF t
<1>2. t \in [pc : {"claim", "answer"}, who : Web, ticket : Ticket]
  BY <1>1 DEF Task
<1>3. /\ [t EXCEPT !.pc = "answer"] \in [pc : {"claim", "answer"}, who : Web, ticket : Ticket]
      /\ [t EXCEPT !.pc = "answer"].ticket = t.ticket
  BY <1>2
<1> QED BY <1>3 DEF Task, t

\* Steps about who is an administrator.
StaffStep ==
  \/ Reload
  \/ \E t \in Telegram :
       \/ TypeNewAdmin(t) \/ RoleButton(t) \/ ChangeRole(t) \/ RemoveAdmin(t)
       \/ Touch(t) \/ GoOffline(t) \/ PanelAddAdmin(t) \/ PanelRemoveAdmin(t)

\* They keep the types and touch nothing else.
LEMMA StaffTypes ==
  ASSUME TypeOK, StaffStep
  PROVE  TypeOK' /\ UNCHANGED <<chat, tickets, notifier, task>>
<1>1. UNCHANGED <<chat, tickets, notifier, task>>
  BY DEF StaffStep, Reload, TypeNewAdmin, RoleButton, ChangeRole, RemoveAdmin, DropAdmin,
         Touch, GoOffline, PanelAddAdmin, PanelRemoveAdmin
<1> DEFINE Typed == /\ admins \in [Telegram -> {"none", "staff", "owner"}]
                    /\ known \subseteq Telegram /\ offered \subseteq Telegram
                    /\ online \subseteq Telegram
<1>2. Typed'
  <2>1. CASE Reload
    BY <2>1 DEF TypeOK, Reload, InTable
  <2>2. ASSUME NEW t \in Telegram,
               \/ TypeNewAdmin(t) \/ Touch(t) \/ GoOffline(t)
               \/ PanelAddAdmin(t) \/ PanelRemoveAdmin(t)
        PROVE  Typed'
    BY <2>2 DEF TypeOK, TypeNewAdmin, Touch, GoOffline, PanelAddAdmin, PanelRemoveAdmin,
                AddAdmin, DropAdmin
  <2>3. ASSUME NEW t \in Telegram, RoleButton(t) \/ ChangeRole(t) \/ RemoveAdmin(t)
        PROVE  Typed'
    BY <2>3 DEF TypeOK, RoleButton, ChangeRole, RemoveAdmin, AddAdmin, DropAdmin, Invalidate,
                InTable
  <2> QED BY <2>1, <2>2, <2>3 DEF StaffStep
<1> QED BY <1>1, <1>2 DEF TypeOK, chat, tickets, notifier

\* Steps of a chat.
ChatStep ==
  \/ \E t \in Telegram : ReplyButton(t)
  \/ \E s \in Slot :
       \/ ContactReceive(s) \/ SupportSend(s) \/ BaleContactReceive(s)
       \/ Resolve(s) \/ Assign(s) \/ TakeConversation(s) \/ HoldConversation(s)
       \/ \E t \in Telegram : TypeReply(s, t)
       \/ \E w \in Web : PanelSend(s, w)

\* They keep the types, and no handler of a ticket begins or ends with them.
LEMMA ChatTypes ==
  ASSUME TypeOK, ChatStep
  PROVE  /\ TypeOK' /\ UNCHANGED <<staff, tickets, notifier>>
         /\ messages <= messages' /\ messages' \in Nat
         /\ \A s \in Slot : At(s, "answer")' => At(s, "answer") /\ task'[s] = task[s]
<1> USE DEF ContactReceive, SupportSend, BaleContactReceive
<1> DEFINE Kept == /\ UNCHANGED <<staff, tickets, notifier>>
                   /\ messages' \in 0..MaxMessages /\ messages <= messages' /\ messages' \in Nat
                   /\ replying' \subseteq Telegram \ {Owner}
                   /\ assigned' \in Telegram \cup Web \cup {None}
           Moves == \/ task' = task
                    \/ \E s \in Slot, x \in Task \cup {Idle} :
                         Go(s, x) /\ (x = Idle \/ x.pc # "answer")
<1>1. MaxMessages \in Nat /\ messages \in 0..MaxMessages
  BY SupportAssumption DEF TypeOK
<1>2. ASSUME NEW t \in Telegram, ReplyButton(t)
      PROVE  Kept /\ task' = task
  BY <1>1, <1>2 DEF TypeOK, ReplyButton
<1>3. ASSUME NEW s \in Slot, Write(s)
      PROVE  Kept /\ Moves
  <2>1. Kept
    BY <1>1, <1>3 DEF TypeOK, Write
  <2>2. Go(s, [pc |-> "resolve"])
    BY <1>3 DEF Write, Begin
  <2> QED BY <2>1, <2>2, Tasks
<1>4. ASSUME NEW s \in Slot, Resolve(s)
      PROVE  Kept /\ Moves
  <2>4. UNCHANGED <<staff, assigned, replying, messages, tickets, notifier>>
    BY <1>4 DEF Resolve, chat
  <2>5. Kept
    BY <1>1, <2>4 DEF TypeOK
  <2>1. End(s) \/ \E t \in Telegram : Go(s, [pc |-> "assign", who |-> t])
    <3>1. End(s) \/ \E t \in online \cap InTable : Go(s, [pc |-> "assign", who |-> t])
      BY <1>4, Zenon DEF Resolve
    <3>2. online \cap InTable \subseteq Telegram
      BY DEF InTable
    <3> QED BY <3>1, <3>2
  <2>2. CASE End(s)
    BY <2>2, <2>5 DEF End
  <2>3. ASSUME NEW t \in Telegram, Go(s, [pc |-> "assign", who |-> t])
        PROVE  Moves
    BY <2>3, Tasks
  <2> QED BY <2>1, <2>2, <2>3, <2>5
<1>5. ASSUME NEW s \in Slot, Assign(s) \/ TakeConversation(s) \/ HoldConversation(s)
      PROVE  Kept /\ Moves
  <2>1. task[s] # Idle /\ task[s].pc \in {"take", "assign", "hold"}
    BY <1>5 DEF Assign, TakeConversation, HoldConversation, At
  <2>2. Who(s) \in Telegram \cup Web
    BY <2>1, TaskShapes DEF Who
  <2>3. Kept /\ Go(s, Idle)
    BY <1>1, <1>5, <2>2 DEF TypeOK, Assign, TakeConversation, HoldConversation, End
  <2> QED BY <2>3
<1>6. ASSUME NEW s \in Slot, NEW t \in Telegram, TypeReply(s, t)
      PROVE  Kept /\ Moves
  <2>1. Kept /\ (task' = task \/ Go(s, [pc |-> "take", who |-> t]))
    BY <1>1, <1>6 DEF TypeOK, TypeReply, Begin
  <2> QED BY <2>1, Tasks
<1>7. ASSUME NEW s \in Slot, NEW w \in Web, PanelSend(s, w)
      PROVE  Kept /\ Moves
  <2>1. Kept /\ Go(s, [pc |-> "hold", who |-> w])
    BY <1>1, <1>7 DEF TypeOK, PanelSend, Begin, chat
  <2> QED BY <2>1, Tasks
<1>8. Kept /\ Moves
  BY <1>2, <1>3, <1>4, <1>5, <1>6, <1>7 DEF ChatStep
<1>9. task' \in [Slot -> Task \cup {Idle}]
  BY <1>8, GoTypes DEF TypeOK
<1>10. \A r \in Slot : At(r, "answer")' => At(r, "answer") /\ task'[r] = task[r]
  BY <1>8, GoTypes DEF At
<1>11. TypeOK'
  BY <1>8, <1>9 DEF TypeOK, staff, tickets, notifier
<1> QED BY <1>8, <1>10, <1>11

\* Steps of a ticket that begin or end no answer to it.
TicketStep ==
  \/ \E t \in Ticket : CreateTicket(t) \/ CloseTicket(t) \/ PanelCloseTicket(t)
  \/ \E s \in Slot :
       \/ AddTicketMessage(s)
       \/ \E t \in Ticket : TicketMessage(s, t)
       \/ \E w \in Web, t \in Ticket : TicketReply(s, w, t)

\* They keep the types, and make no ticket answered.
LEMMA TicketTypes ==
  ASSUME TypeOK, TicketStep
  PROVE  /\ TypeOK' /\ UNCHANGED <<staff, chat, notifier, claimed>>
         /\ \A t \in Ticket : status'[t] = "answered" => status[t] = "answered"
         /\ \A s \in Slot : At(s, "answer")' => At(s, "answer") /\ task'[s] = task[s]
<1> DEFINE Kept == /\ UNCHANGED <<staff, chat, notifier, claimed>>
                   /\ status' \in [Ticket -> {"none", "open", "answered", "closed"}]
                   /\ \A t \in Ticket : status'[t] = "answered" => status[t] = "answered"
           Goes1 == \/ task' = task
                    \/ \E s \in Slot, x \in Task \cup {Idle} :
                         Go(s, x) /\ (x = Idle \/ x.pc # "answer")
<1>1. Kept /\ Goes1
  <2>1. ASSUME NEW t \in Ticket, CreateTicket(t) \/ CloseTicket(t) \/ PanelCloseTicket(t)
        PROVE  Kept /\ task' = task
    BY <2>1 DEF TypeOK, CreateTicket, CloseTicket, PanelCloseTicket, SetStatus, TicketsOnly
  <2>2. ASSUME NEW s \in Slot, AddTicketMessage(s)
        PROVE  Kept /\ Go(s, Idle)
    <3>1. task[s].ticket \in Ticket
      BY <2>2, TaskShapes DEF AddTicketMessage, At
    <3> QED BY <2>2, <3>1 DEF TypeOK, AddTicketMessage, SetStatus, TicketsOnly, End
  <2>3. ASSUME NEW s \in Slot, NEW t \in Ticket, TicketMessage(s, t)
        PROVE  Kept /\ Goes1
    <3>1. Kept /\ Go(s, [pc |-> "message", ticket |-> t])
      BY <2>3 DEF TypeOK, TicketMessage, TicketsOnly, tickets, Begin
    <3> QED BY <3>1, Tasks
  <2>4. ASSUME NEW s \in Slot, NEW w \in Web, NEW t \in Ticket, TicketReply(s, w, t)
        PROVE  Kept /\ Goes1
    <3>1. Kept /\ Go(s, [pc |-> "claim", who |-> w, ticket |-> t])
      BY <2>4 DEF TypeOK, TicketReply, TicketsOnly, tickets, Begin
    <3> QED BY <3>1, Tasks
  <2> QED BY <2>1, <2>2, <2>3, <2>4 DEF TicketStep
<1>2. task' \in [Slot -> Task \cup {Idle}]
  BY <1>1, GoTypes DEF TypeOK
<1>3. \A s \in Slot : At(s, "answer")' => At(s, "answer") /\ task'[s] = task[s]
  BY <1>1, GoTypes DEF At
<1>4. TypeOK'
  BY <1>1, <1>2 DEF TypeOK, staff, chat, notifier
<1> QED BY <1>1, <1>3, <1>4

\* A claim leaves the ticket with someone, and no ticket without the one it had.
LEMMA ClaimTypes ==
  ASSUME TypeOK, NEW s \in Slot, Claim(s)
  PROVE  /\ TypeOK' /\ UNCHANGED <<staff, chat, notifier, status>>
         /\ claimed'[task[s].ticket] # None /\ task'[s].ticket = task[s].ticket
         /\ \A t \in Ticket : claimed[t] # None => claimed'[t] = claimed[t]
         /\ \A r \in Slot : r # s => task'[r] = task[r]
<1>1. /\ At(s, "claim") /\ UNCHANGED <<staff, chat, notifier, status>>
      /\ Go(s, [task[s] EXCEPT !.pc = "answer"])
  BY DEF Claim, TicketsOnly
<1>2. task[s].ticket \in Ticket /\ Who(s) \in Web
  BY <1>1, TaskShapes DEF At, Who
<1> DEFINE t == task[s].ticket
<1>3. claimed' = IF Unclaimed(t) THEN [claimed EXCEPT ![t] = Who(s)] ELSE claimed
  BY Zenon DEF Claim
<1>4. /\ [task[s] EXCEPT !.pc = "answer"] \in Task
      /\ [task[s] EXCEPT !.pc = "answer"].ticket = t
  BY <1>1, ClaimThenAnswer
<1>5. /\ task' \in [Slot -> Task \cup {Idle}] /\ task'[s].ticket = t
      /\ \A r \in Slot : r # s => task'[r] = task[r]
  BY <1>1, <1>4, GoTypes
<1> HIDE DEF t
<1>6. Who(s) # None
  BY <1>2, SupportAssumption
<1>7. /\ claimed' \in [Ticket -> Web \cup {None}] /\ claimed'[t] # None
      /\ \A u \in Ticket : claimed[u] # None => claimed'[u] = claimed[u]
  BY <1>2, <1>3, <1>6 DEF TypeOK, Unclaimed, t
<1>8. TypeOK'
  BY <1>1, <1>5, <1>7 DEF TypeOK, staff, chat, notifier
<1> QED BY <1>1, <1>5, <1>7, <1>8 DEF t

\* An answer makes its ticket answered.
LEMMA AnswerTypes ==
  ASSUME TypeOK, NEW s \in Slot, Answer(s)
  PROVE  /\ TypeOK' /\ UNCHANGED <<staff, chat, notifier, claimed>>
         /\ \A t \in Ticket : status'[t] = "answered" => status[t] = "answered" \/ t = task[s].ticket
         /\ task'[s] = Idle /\ \A r \in Slot : r # s => task'[r] = task[r]
<1>1. task[s].ticket \in Ticket
  BY TaskShapes DEF Answer, At
<1>2. /\ status' = [status EXCEPT ![task[s].ticket] = "answered"] /\ Go(s, Idle)
      /\ UNCHANGED <<staff, chat, notifier, claimed>>
  BY DEF Answer, SetStatus, End, TicketsOnly
<1>3. /\ task' \in [Slot -> Task \cup {Idle}] /\ task'[s] = Idle
      /\ \A r \in Slot : r # s => task'[r] = task[r]
  BY <1>2, GoTypes
<1> QED BY <1>1, <1>2, <1>3 DEF TypeOK, staff, chat, notifier

\* A handler that stops.
LEMMA FailTypes ==
  ASSUME TypeOK, NEW s \in Slot, Fail(s)
  PROVE  /\ TypeOK' /\ UNCHANGED <<staff, chat, tickets, notifier>>
         /\ task'[s] = Idle /\ \A r \in Slot : r # s => task'[r] = task[r]
<1>1. Go(s, Idle) /\ UNCHANGED <<staff, chat, tickets, notifier>>
  BY DEF Fail, End
<1>2. /\ task' \in [Slot -> Task \cup {Idle}] /\ task'[s] = Idle
      /\ \A r \in Slot : r # s => task'[r] = task[r]
  BY <1>1, GoTypes
<1> QED BY <1>1, <1>2 DEF TypeOK, staff, chat, tickets, notifier

\* The notifier keeps the types and touches nothing else.
LEMMA NotifierTypes ==
  ASSUME TypeOK, Notifier
  PROVE  TypeOK' /\ UNCHANGED <<staff, chat, tickets, task>>
<1>1. UNCHANGED <<staff, chat, tickets, task>>
  BY DEF Notifier, StartNotifier, ReadLatest, PushNew, KeepLast, RoundFails, NotifierOnly
<1>2. messages \in 0..MaxMessages /\ MaxMessages \in Nat
  BY SupportAssumption DEF TypeOK
<1>3. /\ poll' \in [at : Places, latest : 0..MaxMessages, last : 0..MaxMessages]
      /\ pushed' \subseteq Message
  <2>1. CASE StartNotifier
    BY <1>2, <2>1 DEF StartNotifier, Places, Message
  <2>2. CASE ReadLatest
    BY <1>2, <2>2 DEF TypeOK, ReadLatest, Places
  <2>3. CASE PushNew
    BY <1>2, <2>3 DEF TypeOK, PushNew, Places, Message
  <2>4. CASE KeepLast
    BY <1>2, <2>4 DEF TypeOK, KeepLast, Places
  <2>5. CASE RoundFails
    <3>1. poll' \in [at : Places, latest : 0..MaxMessages, last : 0..MaxMessages]
      <4>1. poll' = [poll EXCEPT !.at = "asleep", !.latest = 0]
        BY <2>5 DEF RoundFails
      <4>2. poll \in [at : Places, latest : 0..MaxMessages, last : 0..MaxMessages]
        BY DEF TypeOK
      <4>3. poll' = [at |-> "asleep", latest |-> 0, last |-> poll.last]
        BY <4>1, <4>2
      <4>4. poll.last \in 0..MaxMessages
        BY <4>2
      <4> QED BY <1>2, <4>3, <4>4 DEF Places
    <3>2. PICK n \in poll.last..messages :
            pushed' = IF poll.at = "fetch" THEN pushed \cup (poll.last + 1)..n ELSE pushed
      BY <2>5 DEF RoundFails
    <3>3. poll.last \in Nat /\ n \in Int /\ n <= MaxMessages
      BY <1>2, <3>2 DEF TypeOK
    <3>4. (poll.last + 1)..n \subseteq Message
      BY <1>2, <3>3 DEF Message
    <3> QED BY <3>1, <3>2, <3>4 DEF TypeOK
  <2> QED BY <2>1, <2>2, <2>3, <2>4, <2>5 DEF Notifier
<1> QED BY <1>1, <1>3 DEF TypeOK, staff, chat, tickets

\* Every step is one of these.
LEMMA Steps ==
  ASSUME Next
  PROVE  \/ StaffStep \/ ChatStep \/ TicketStep \/ Notifier
         \/ \E s \in Slot : Claim(s) \/ Answer(s) \/ Fail(s)
<1>1. CASE Reload
  BY <1>1 DEF StaffStep
<1>2. CASE Customer
  BY <1>2, Zenon DEF Customer, ChatStep, TicketStep
<1>3. CASE Panel
  BY <1>3, Zenon DEF Panel, StaffStep, ChatStep, TicketStep
<1>4. ASSUME NEW s \in Slot, Goes(s)
      PROVE  \/ ChatStep \/ TicketStep \/ Claim(s) \/ Answer(s) \/ Fail(s)
  BY <1>4, Zenon DEF Goes, ChatStep, TicketStep
<1>5. ASSUME NEW t \in Telegram, Bot(t)
      PROVE  StaffStep \/ ChatStep
  BY <1>5, Zenon DEF Bot, StaffStep, ChatStep
<1>6. ASSUME NEW t \in Ticket, CreateTicket(t) \/ CloseTicket(t) \/ PanelCloseTicket(t)
      PROVE  TicketStep
  BY <1>6, Zenon DEF TicketStep
<1> QED BY <1>1, <1>2, <1>3, <1>4, <1>5, <1>6 DEF Next
-----------------------------------------------------------------------------
(* What holds in every state, and how it is kept.                             *)

\* The administrators: the owner is one, is known as one and is offered to nobody.
OwnerInv ==
  /\ OwnerStays /\ Owner \in known /\ Owner \notin offered

\* The tickets: who is about to answer one finds it claimed, by them or before them.
TicketInv ==
  /\ AnsweredClaimed
  /\ \A s \in Slot : At(s, "answer") => claimed[task[s].ticket] # None

\* The notifier: what it will take for done was pushed before it says so.
NotifierInv ==
  /\ NoneSkipped
  /\ poll.last <= messages
  /\ poll.at \in {"fetch", "keep"} => poll.last <= poll.latest /\ poll.latest <= messages
  /\ poll.at = "keep" => 1..poll.latest \subseteq pushed

\* The initial states.
LEMMA InitHolds ==
  ASSUME Init
  PROVE  TypeOK /\ OwnerInv /\ TicketInv /\ NotifierInv
<1> USE SupportAssumption DEF Init
<1>1. TypeOK
  BY DEF TypeOK, Places, Message
<1>2. OwnerInv
  BY DEF OwnerInv, OwnerStays
<1>3. TicketInv
  BY DEF TicketInv, AnsweredClaimed, At
<1>4. NotifierInv
  BY DEF NotifierInv, NoneSkipped
<1> QED BY <1>1, <1>2, <1>3, <1>4

\* Every step keeps the types.
LEMMA NextTypes ==
  ASSUME TypeOK, [Next]_vars
  PROVE  TypeOK'
<1>1. CASE UNCHANGED vars
  BY <1>1 DEF TypeOK, vars, staff, chat, tickets, notifier
<1>2. CASE Next
  BY <1>2, Steps, StaffTypes, ChatTypes, TicketTypes, NotifierTypes, ClaimTypes, AnswerTypes,
     FailTypes
<1> QED BY <1>1, <1>2

\* Only the steps about administrators change one, and the owner is beyond all of them:
\* the buttons that overwrite a role were offered to an account the bot did not know.
LEMMA OwnerKept ==
  ASSUME TypeOK, OwnerInv, [Next]_vars
  PROVE  OwnerInv'
<1>1. CASE StaffStep
  <2>1. Owner \in Telegram
    BY SupportAssumption
  <2>2. CASE Reload
    BY <2>1, <2>2 DEF OwnerInv, OwnerStays, Reload, InTable
  <2>3. ASSUME NEW t \in Telegram, TypeNewAdmin(t) \/ Touch(t) \/ GoOffline(t)
        PROVE  OwnerInv'
    BY <2>3 DEF OwnerInv, OwnerStays, TypeNewAdmin, Stranger, Touch, GoOffline
  <2>4. ASSUME NEW t \in Telegram, PanelAddAdmin(t) \/ PanelRemoveAdmin(t)
        PROVE  OwnerInv'
    <3>1. t # Owner
      BY <2>1, <2>4 DEF OwnerInv, OwnerStays, PanelAddAdmin, PanelRemoveAdmin, DropAdmin,
                   Removable, InTable
    <3> QED BY <2>4, <3>1 DEF TypeOK, OwnerInv, OwnerStays, PanelAddAdmin, PanelRemoveAdmin,
                          AddAdmin, DropAdmin
  <2>5. ASSUME NEW t \in Telegram, RoleButton(t) \/ ChangeRole(t) \/ RemoveAdmin(t)
        PROVE  OwnerInv'
    <3>1. t # Owner
      BY <2>5 DEF OwnerInv, OwnerStays, RoleButton, ChangeRole, RemoveAdmin, DropAdmin, Removable
    <3>2. admins'[Owner] = "owner" /\ UNCHANGED offered
      BY <2>5, <3>1 DEF TypeOK, OwnerInv, OwnerStays, RoleButton, ChangeRole, RemoveAdmin,
                    AddAdmin, DropAdmin
    <3>3. known' = InTable'
      BY <2>5 DEF RoleButton, ChangeRole, RemoveAdmin, Invalidate
    <3> QED BY <2>1, <3>2, <3>3 DEF OwnerInv, OwnerStays, InTable
  <2> QED BY <1>1, <2>2, <2>3, <2>4, <2>5 DEF StaffStep
<1>2. CASE UNCHANGED staff
  BY <1>2 DEF OwnerInv, OwnerStays, staff
<1>3. StaffStep \/ UNCHANGED staff
  <2>1. CASE Next
    BY <2>1, Steps, ChatTypes, TicketTypes, NotifierTypes, ClaimTypes, AnswerTypes, FailTypes
  <2> QED BY <2>1 DEF vars
<1> QED BY <1>1, <1>2, <1>3

\* A handler answers a ticket only after it claimed it.
LEMMA TicketsKept ==
  ASSUME TypeOK, TicketInv, [Next]_vars
  PROVE  TicketInv'
<1>1. CASE UNCHANGED <<tickets, task>>
  BY <1>1 DEF TicketInv, AnsweredClaimed, At, tickets
<1>2. CASE ChatStep \/ TicketStep
  <2>1. /\ UNCHANGED claimed
        /\ \A t \in Ticket : status'[t] = "answered" => status[t] = "answered"
        /\ \A s \in Slot : At(s, "answer")' => At(s, "answer") /\ task'[s] = task[s]
    BY <1>2, ChatTypes, TicketTypes DEF tickets
  <2> QED BY <2>1 DEF TicketInv, AnsweredClaimed
<1>3. ASSUME NEW s \in Slot, Claim(s)
      PROVE  TicketInv'
  <2>1. /\ UNCHANGED status /\ claimed'[task[s].ticket] # None
        /\ task'[s].ticket = task[s].ticket
        /\ \A t \in Ticket : claimed[t] # None => claimed'[t] = claimed[t]
        /\ \A r \in Slot : r # s => task'[r] = task[r]
    BY <1>3, ClaimTypes
  <2>2. \A r \in Slot : At(r, "answer") => task[r].ticket \in Ticket
    BY TaskShapes DEF At
  <2>3. AnsweredClaimed'
    BY <2>1 DEF TicketInv, AnsweredClaimed
  <2>4. ASSUME NEW r \in Slot, At(r, "answer")'
        PROVE  claimed'[task'[r].ticket] # None
    BY <2>1, <2>2, <2>4 DEF TicketInv, At
  <2> QED BY <2>1, <2>3, <2>4 DEF TicketInv
<1>4. ASSUME NEW s \in Slot, Answer(s) \/ Fail(s)
      PROVE  TicketInv'
  <2>1. /\ UNCHANGED claimed /\ task'[s] = Idle
        /\ \A r \in Slot : r # s => task'[r] = task[r]
    BY <1>4, AnswerTypes, FailTypes DEF tickets
  <2>2. AnsweredClaimed'
    <3>1. CASE Answer(s)
      <4>1. At(s, "answer")
        BY <3>1 DEF Answer
      <4> QED BY <2>1, <3>1, <4>1, AnswerTypes DEF TicketInv, AnsweredClaimed
    <3>2. CASE Fail(s)
      BY <3>2, FailTypes DEF TicketInv, AnsweredClaimed, tickets
    <3> QED BY <1>4, <3>1, <3>2
  <2>3. \A r \in Slot : At(r, "answer")' => r # s /\ At(r, "answer") /\ task'[r] = task[r]
    BY <2>1 DEF At
  <2> QED BY <2>1, <2>2, <2>3 DEF TicketInv
<1>5. StaffStep \/ Notifier \/ UNCHANGED vars => UNCHANGED <<tickets, task>>
  BY StaffTypes, NotifierTypes DEF vars
<1> QED BY <1>1, <1>2, <1>3, <1>4, <1>5, Steps

\* The notifier reads the last number before the messages, so it pushed all up to it
\* when it keeps it; a round that fails keeps the number it had.
LEMMA NotifierKept ==
  ASSUME TypeOK, NotifierInv, [Next]_vars
  PROVE  NotifierInv'
<1>1. /\ messages \in Nat /\ poll.last \in Nat /\ poll.latest \in Nat
      /\ poll \in [at : Places, latest : 0..MaxMessages, last : 0..MaxMessages]
  BY SupportAssumption DEF TypeOK
<1>2. CASE Notifier
  <2>1. UNCHANGED messages
    BY <1>2, NotifierTypes DEF chat
  <2>2. CASE StartNotifier
    BY <1>1, <2>1, <2>2 DEF StartNotifier, NotifierInv, NoneSkipped
  <2>3. CASE ReadLatest
    BY <1>1, <2>1, <2>3 DEF ReadLatest, NotifierInv, NoneSkipped
  <2>4. CASE PushNew
    <3>1. /\ poll'.at = "keep" /\ poll'.last = poll.last /\ poll'.latest = poll.latest
          /\ poll.latest <= messages
      BY <1>1, <2>4 DEF PushNew, NotifierInv
    <3>2. 1..messages \subseteq pushed'
      <4>1. pushed' = pushed \cup (poll.last + 1)..messages /\ 1..poll.last \subseteq pushed
        BY <2>4 DEF PushNew, NotifierInv, NoneSkipped
      <4>2. ASSUME NEW n \in 1..messages
            PROVE  n \in 1..poll.last \/ n \in (poll.last + 1)..messages
        BY <1>1
      <4> QED BY <4>1, <4>2
    <3>3. poll.last <= messages /\ poll.last <= poll.latest
      BY <2>4 DEF PushNew, NotifierInv
    <3>4. 1..poll.last \subseteq 1..messages /\ 1..poll.latest \subseteq 1..messages
      BY <1>1, <3>1, <3>3
    <3> QED BY <2>1, <3>1, <3>2, <3>3, <3>4 DEF NotifierInv, NoneSkipped
  <2>5. CASE KeepLast
    BY <1>1, <2>1, <2>5 DEF KeepLast, NotifierInv, NoneSkipped
  <2>6. CASE RoundFails
    <3>1. poll' = [poll EXCEPT !.at = "asleep", !.latest = 0]
      BY <2>6 DEF RoundFails
    <3>2. poll'.at = "asleep" /\ poll'.last = poll.last
      BY <1>1, <3>1
    <3>3. pushed \subseteq pushed'
      BY <2>6 DEF RoundFails
    <3> QED BY <2>1, <3>2, <3>3 DEF NotifierInv, NoneSkipped
  <2> QED BY <1>2, <2>2, <2>3, <2>4, <2>5, <2>6 DEF Notifier
<1>3. CASE UNCHANGED notifier /\ messages <= messages' /\ messages' \in Nat
  BY <1>1, <1>3 DEF NotifierInv, NoneSkipped, notifier
<1>4. Notifier \/ (UNCHANGED notifier /\ messages <= messages' /\ messages' \in Nat)
  <2>1. CASE UNCHANGED vars \/ StaffStep \/ TicketStep \/ \E s \in Slot : Claim(s) \/ Answer(s) \/ Fail(s)
    <3>1. UNCHANGED <<notifier, chat>>
      BY <2>1, StaffTypes, TicketTypes, ClaimTypes, AnswerTypes, FailTypes DEF vars
    <3> QED BY <1>1, <3>1 DEF chat
  <2>2. CASE ChatStep
    BY <2>2, ChatTypes
  <2> QED BY <2>1, <2>2, Steps
<1> QED BY <1>2, <1>3, <1>4

-----------------------------------------------------------------------------
(* The theorems.                                                              *)

\* Every state is well formed: every handler has what its next call needs.
THEOREM SupportTypes == Spec => []TypeOK
<1>1. Init => TypeOK
  BY InitHolds
<1>2. TypeOK /\ [Next]_vars => TypeOK'
  BY NextTypes
<1> QED BY <1>1, <1>2, PTL DEF Spec

\* The owner remains the owner, although add_admin overwrites a role and its buttons are
\* pressed long after the account was looked up.
THEOREM OwnerRemains == Spec => []OwnerStays
<1>1. Init => OwnerInv
  BY InitHolds
<1>2. TypeOK /\ OwnerInv /\ [Next]_vars => OwnerInv'
  BY OwnerKept
<1>3. OwnerInv => OwnerStays
  BY DEF OwnerInv
<1> QED BY <1>1, <1>2, <1>3, SupportTypes, PTL DEF Spec

\* An answered ticket is somebody's, although the claim and the answer are two
\* transactions, others answer at the same time, and any of them may fail.
THEOREM AnsweredTicketsClaimed == Spec => []AnsweredClaimed
<1>1. Init => TicketInv
  BY InitHolds
<1>2. TypeOK /\ TicketInv /\ [Next]_vars => TicketInv'
  BY TicketsKept
<1>3. TicketInv => AnsweredClaimed
  BY DEF TicketInv
<1> QED BY <1>1, <1>2, <1>3, SupportTypes, PTL DEF Spec

\* The notifier leaves no message of a customer out, however its reads and the
\* messages interleave and wherever its rounds fail.
THEOREM EveryMessagePushed == Spec => []NoneSkipped
<1>1. Init => NotifierInv
  BY InitHolds
<1>2. TypeOK /\ NotifierInv /\ [Next]_vars => NotifierInv'
  BY NotifierKept
<1>3. NotifierInv => NoneSkipped
  BY DEF NotifierInv
<1> QED BY <1>1, <1>2, <1>3, SupportTypes, PTL DEF Spec
=============================================================================
