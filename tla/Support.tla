------------------------------- MODULE Support -------------------------------
(*****************************************************************************)
(* The administrators and their customers: who is one, who answers a chat or *)
(* a ticket, and what the panel's browsers are told of (_notifier_loop).     *)
(*                                                                           *)
(* Customers write in the bots and in the Mini App, administrators of        *)
(* Telegram answer in the bot, those of the web in the panel. Every call of  *)
(* the database is a transaction of its own; a handler gives way between two *)
(* of them, and stops at one that raises.                                    *)
(*                                                                           *)
(* There is one customer. Of an administrator's role only the owner's is     *)
(* told apart, and of a message only that it was sent; messages are numbered *)
(* as they come.                                                             *)
(*****************************************************************************)
EXTENDS Integers

CONSTANTS
  Telegram,    \* accounts that may be administrators of the bot
  Owner,       \* OWNER_ID, which the table "admins" begins with
  Web,         \* web_admins other than the owner of the panel
  MaxTickets, MaxMessages,  \* bounds on what the customer sends
  Slot,        \* bounds the handlers that run at the same time
  None, Idle

Ticket == 1..MaxTickets
Message == 1..MaxMessages

ASSUME SupportAssumption ==
  /\ Owner \in Telegram /\ Telegram \cap Web = {} /\ None \notin Telegram \cup Web
  /\ MaxTickets \in Nat /\ MaxMessages \in Nat

Task == [pc : {"resolve"}]
        \cup [pc : {"take", "assign", "hold"}, who : Telegram \cup Web]
        \cup [pc : {"claim", "answer"}, who : Web, ticket : Ticket]
        \cup [pc : {"message"}, ticket : Ticket]

VARIABLES
  admins,      \* admins
  known,       \* the accounts in the bot's copy of it
  offered,     \* accounts for which the owner has buttons that add them
  online,      \* admin_presence, of the last 90 seconds
  assigned,    \* support_conversations.assigned_admin_id of the customer
  replying,    \* administrators whose next text is a reply; the owner's change nothing here
  status, claimed,  \* tickets
  messages,    \* how many chat messages the customer sent
  poll,        \* the notifier: where it is, and what it remembers
  pushed,      \* history: chat messages that were pushed, or older than the notifier
  task

staff == <<admins, known, offered, online>>
chat == <<assigned, replying, messages>>
tickets == <<status, claimed>>
notifier == <<poll, pushed>>
vars == <<staff, chat, tickets, notifier, task>>

Places == {"asleep", "fetch", "keep"}

TypeOK ==
  /\ admins \in [Telegram -> {"none", "staff", "owner"}]
  /\ known \subseteq Telegram /\ offered \subseteq Telegram /\ online \subseteq Telegram
  /\ replying \subseteq Telegram \ {Owner}
  /\ assigned \in Telegram \cup Web \cup {None}
  /\ status \in [Ticket -> {"none", "open", "answered", "closed"}]
  /\ claimed \in [Ticket -> Web \cup {None}]
  /\ messages \in 0..MaxMessages
  /\ poll \in [at : Places, latest : 0..MaxMessages, last : 0..MaxMessages]
  /\ pushed \subseteq Message
  /\ task \in [Slot -> Task \cup {Idle}]

Init ==
  /\ admins = [t \in Telegram |-> IF t = Owner THEN "owner" ELSE "none"]
  /\ known = {Owner} /\ offered = {} /\ online = {}
  /\ assigned = None /\ replying = {}
  /\ status = [t \in Ticket |-> "none"] /\ claimed = [t \in Ticket |-> None]
  /\ messages = 0
  /\ poll = [at |-> "asleep", latest |-> 0, last |-> 0]
  /\ pushed = {}
  /\ task = [s \in Slot |-> Idle]

Go(s, t) == task' = [task EXCEPT ![s] = t]
At(s, p) == task[s] # Idle /\ task[s].pc = p
End(s) == Go(s, Idle)
Who(s) == task[s].who
Begin(s, t) == task[s] = Idle /\ Go(s, t)

\* A call raises, or the process stops.
Fail(s) == task[s] # Idle /\ End(s) /\ UNCHANGED <<staff, chat, tickets, notifier>>

-----------------------------------------------------------------------------
(* Who is an administrator.                                                   *)

InTable == {t \in Telegram : admins[t] # "none"}
\* _load_admin_cache, by a copy that is 5 seconds old.
Reload ==
  /\ known' = InTable
  /\ UNCHANGED <<admins, offered, online, chat, tickets, notifier, task>>

\* Mutation: the button is offered for everyone.
ForEveryone(t) == TRUE
\* is_admin, by the copy of the bot.
Stranger(t) == t \notin known

\* process_add_admin: the owner is offered the roles of an account that is not an
\* administrator; the buttons stay in the chat.
TypeNewAdmin(t) ==
  /\ Stranger(t)
  /\ offered' = offered \cup {t}
  /\ UNCHANGED <<admins, known, online, chat, tickets, notifier, task>>

\* add_admin writes the role whether the account has one or not.
AddAdmin(t) == admins' = [admins EXCEPT ![t] = "staff"]
\* The bot loads its copy anew when it next needs it.
Invalidate == known' = InTable'
RoleButton(t) ==
  /\ t \in offered /\ AddAdmin(t) /\ Invalidate
  /\ UNCHANGED <<offered, online, chat, tickets, notifier, task>>

\* cb_admin_role_change and the panel: set_admin_role writes the role of an account that has
\* one, which is not the owner's; between staff and staff nothing changes here but the copy.
ChangeRole(t) ==
  /\ t \in InTable /\ admins[t] # "owner" /\ admins' = [admins EXCEPT ![t] = "staff"]
  /\ Invalidate
  /\ UNCHANGED <<offered, online, chat, tickets, notifier, task>>

\* process_remove_admin looks in the copy first, remove_admin at the row.
Removable(t) == admins[t] # "owner"
DropAdmin(t) == Removable(t) /\ admins' = [admins EXCEPT ![t] = "none"]
RemoveAdmin(t) ==
  /\ t \in known /\ DropAdmin(t) /\ Invalidate
  /\ UNCHANGED <<offered, online, chat, tickets, notifier, task>>

PanelAddAdmin(t) ==
  /\ t \notin InTable /\ AddAdmin(t)
  /\ UNCHANGED <<known, offered, online, chat, tickets, notifier, task>>
PanelRemoveAdmin(t) ==
  /\ DropAdmin(t)
  /\ UNCHANGED <<known, offered, online, chat, tickets, notifier, task>>

\* AdminPresenceMiddleware, and 90 seconds without an update.
Touch(t) ==
  /\ t \in known \ online /\ online' = online \cup {t}
  /\ UNCHANGED <<admins, known, offered, chat, tickets, notifier, task>>
GoOffline(t) ==
  /\ t \in online /\ online' = online \ {t}
  /\ UNCHANGED <<admins, known, offered, chat, tickets, notifier, task>>

-----------------------------------------------------------------------------
(* The chat: the customer writes, and someone is to be told.                  *)

\* add_support_message of contact_receive, of the Mini App and of the Bale bot.
Write(s) ==
  /\ messages < MaxMessages /\ messages' = messages + 1
  /\ Begin(s, [pc |-> "resolve"])
  /\ UNCHANGED <<staff, assigned, replying, tickets, notifier>>
ContactReceive(s) == Write(s)
SupportSend(s) == Write(s)
BaleContactReceive(s) == Write(s)

\* resolve_support_admin_for_message: the administrator who has the conversation, if
\* online, else the first who is; without one everybody is told. Administrators of the
\* web are never online.
Resolve(s) ==
  /\ At(s, "resolve")
  /\ \/ assigned \in online /\ End(s)
     \/ assigned \notin online /\ online \cap InTable = {} /\ End(s)
     \/ /\ assigned \notin online
        /\ \E t \in online \cap InTable :
             /\ Owner \in online => t = Owner
             /\ Go(s, [pc |-> "assign", who |-> t])
  /\ UNCHANGED <<staff, chat, tickets, notifier>>
\* set_support_conversation_admin
Assign(s) ==
  /\ At(s, "assign") /\ assigned' = Who(s) /\ End(s)
  /\ UNCHANGED <<staff, replying, messages, tickets, notifier>>

\* An administrator of Telegram: the button under a message, then the text.
Held(t) == assigned \notin {None, t}
ReplyButton(t) ==
  /\ t # Owner /\ ~Held(t) /\ replying' = replying \cup {t}
  /\ UNCHANGED <<staff, assigned, messages, tickets, notifier, task>>
TypeReply(s, t) ==
  /\ t \in replying
  /\ IF Held(t)
     THEN replying' = replying \ {t} /\ UNCHANGED task
     ELSE UNCHANGED replying /\ Begin(s, [pc |-> "take", who |-> t])
  /\ UNCHANGED <<staff, assigned, messages, tickets, notifier>>
TakeConversation(s) ==
  /\ At(s, "take") /\ assigned' = Who(s) /\ End(s)
  /\ replying' = replying \ {Who(s)}
  /\ UNCHANGED <<staff, messages, tickets, notifier>>

\* The panel's reply.
PanelSend(s, w) ==
  /\ ~Held(w) /\ Begin(s, [pc |-> "hold", who |-> w])
  /\ UNCHANGED <<staff, chat, tickets, notifier>>
HoldConversation(s) ==
  /\ At(s, "hold") /\ assigned' = Who(s) /\ End(s)
  /\ UNCHANGED <<staff, replying, messages, tickets, notifier>>

-----------------------------------------------------------------------------
(* Tickets.                                                                   *)

SetStatus(t, x) == status' = [status EXCEPT ![t] = x]
TicketsOnly == UNCHANGED <<staff, chat, notifier>>

CreateTicket(t) ==
  /\ status[t] = "none" /\ (t > 1 => status[t - 1] # "none")
  /\ SetStatus(t, "open") /\ UNCHANGED <<claimed, task>> /\ TicketsOnly

\* The customer's message: the ticket is looked at, then written.
TicketMessage(s, t) ==
  /\ status[t] \in {"open", "answered"}
  /\ Begin(s, [pc |-> "message", ticket |-> t]) /\ UNCHANGED tickets /\ TicketsOnly
AddTicketMessage(s) ==
  /\ At(s, "message") /\ SetStatus(task[s].ticket, "open") /\ End(s)
  /\ UNCHANGED claimed /\ TicketsOnly
\* A ticket that is closed already stays as it is.
CloseTicket(t) ==
  /\ status[t] \in {"open", "answered"} /\ SetStatus(t, "closed") /\ UNCHANGED <<claimed, task>> /\ TicketsOnly
PanelCloseTicket(t) == CloseTicket(t)

\* The panel's answer, to a ticket in whatever status.
TicketReply(s, w, t) ==
  /\ status[t] # "none"
  /\ Begin(s, [pc |-> "claim", who |-> w, ticket |-> t]) /\ UNCHANGED tickets /\ TicketsOnly

Unclaimed(t) == claimed[t] = None

\* Mutation: the ticket is claimed after it was answered.
AnswerFirst(s) ==
  LET t == task[s].ticket
  IN /\ At(s, "claim") /\ SetStatus(t, "answered")
     /\ Go(s, [task[s] EXCEPT !.pc = "answer"])
     /\ UNCHANGED claimed /\ TicketsOnly

\* claim_ticket_if_open; whether it took effect is not asked.
Claim(s) ==
  LET t == task[s].ticket
  IN /\ At(s, "claim")
     /\ claimed' = IF Unclaimed(t) THEN [claimed EXCEPT ![t] = Who(s)] ELSE claimed
     /\ Go(s, [task[s] EXCEPT !.pc = "answer"])
     /\ UNCHANGED status /\ TicketsOnly
Answer(s) ==
  /\ At(s, "answer") /\ SetStatus(task[s].ticket, "answered") /\ End(s)
  /\ UNCHANGED claimed /\ TicketsOnly

-----------------------------------------------------------------------------
(* The notifier of the panel: _notifier_loop. A round may end at any call     *)
(* that raises. Orders, top-ups and tickets are read in one query each.       *)

NotifierOnly == UNCHANGED <<staff, chat, tickets, task>>

StartNotifier ==
  /\ poll' = [at |-> "asleep", latest |-> 0, last |-> messages]
  /\ pushed' = 1..messages /\ NotifierOnly

\* A round that comes as far as the chat: get_latest_user_support_message_id.
ReadLatest ==
  /\ poll.at = "asleep" /\ messages > poll.last
  /\ poll' = [poll EXCEPT !.at = "fetch", !.latest = messages]
  /\ UNCHANGED pushed /\ NotifierOnly

\* get_new_support_messages_since: all of them, and those that came since.
PushNew ==
  /\ poll.at = "fetch" /\ poll' = [poll EXCEPT !.at = "keep"]
  /\ pushed' = pushed \cup (poll.last + 1)..messages
  /\ NotifierOnly

\* Mutation: the last number is read after the messages.
KeepNewest ==
  /\ poll.at = "keep" /\ poll' = [at |-> "asleep", latest |-> 0, last |-> messages]
  /\ UNCHANGED pushed /\ NotifierOnly

KeepLast ==
  /\ poll.at = "keep" /\ poll' = [at |-> "asleep", latest |-> 0, last |-> poll.latest]
  /\ UNCHANGED pushed /\ NotifierOnly

\* Some of the messages may have been pushed.
RoundFails ==
  /\ poll.at # "asleep" /\ poll' = [poll EXCEPT !.at = "asleep", !.latest = 0]
  /\ \E n \in poll.last..messages :
       pushed' = IF poll.at = "fetch" THEN pushed \cup (poll.last + 1)..n ELSE pushed
  /\ NotifierOnly

-----------------------------------------------------------------------------
Goes(s) ==
  \/ Fail(s) \/ Resolve(s) \/ Assign(s)
  \/ TakeConversation(s) \/ HoldConversation(s) \/ AddTicketMessage(s) \/ Claim(s) \/ Answer(s)

Customer ==
  \E s \in Slot :
    \/ ContactReceive(s) \/ SupportSend(s) \/ BaleContactReceive(s)
    \/ \E t \in Ticket : TicketMessage(s, t)

Bot(t) ==
  \/ TypeNewAdmin(t) \/ RoleButton(t) \/ ChangeRole(t) \/ RemoveAdmin(t) \/ Touch(t) \/ GoOffline(t) \/ ReplyButton(t)
  \/ \E s \in Slot : TypeReply(s, t)

Panel ==
  \/ \E t \in Telegram : PanelAddAdmin(t) \/ PanelRemoveAdmin(t)
  \/ \E s \in Slot, w \in Web : PanelSend(s, w) \/ \E t \in Ticket : TicketReply(s, w, t)

Notifier ==
  \/ StartNotifier \/ ReadLatest \/ PushNew \/ KeepLast \/ RoundFails

Next ==
  \/ Reload \/ Customer \/ Panel \/ Notifier
  \/ \E s \in Slot : Goes(s)
  \/ \E t \in Telegram : Bot(t)
  \/ \E t \in Ticket : CreateTicket(t) \/ CloseTicket(t) \/ PanelCloseTicket(t)

Spec == Init /\ [][Next]_vars

-----------------------------------------------------------------------------
(* What customers and administrators may rely on.                             *)

\* The owner remains the owner: the buttons that add an administrator were offered when
\* their account was none, and add_admin overwrites the role of one that is.
OwnerStays == admins[Owner] = "owner"

\* A ticket that counts as answered has someone whose it is, although its answer is two
\* transactions and the second may fail.
AnsweredClaimed == \A t \in Ticket : status[t] = "answered" => claimed[t] # None

\* The notifier leaves no chat message out that was sent since it began: what it takes
\* for done was pushed, whatever comes between its reads and wherever a round fails.
NoneSkipped == 1..poll.last \subseteq pushed
=============================================================================
