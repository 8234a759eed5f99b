----------------------------- MODULE Promotions -----------------------------
(*****************************************************************************)
(* What the shop gives away: discount codes, free samples, spins of the      *)
(* wheel, and points an administrator adds by hand. The administrator goes   *)
(* through wizards of the Telegram bot, customers press buttons of the bots  *)
(* and of the Mini App, other administrators work in the panel.              *)
(*                                                                           *)
(* Handlers overlap as in modules Conversation and Catalogue. What a code is *)
(* worth is known by the code it was typed for, a number of points by the    *)
(* customer it was typed for. Whether a code is active, and its use, are     *)
(* matters of Checkout, points of Loyalty. The sample is one file.           *)
(*****************************************************************************)
EXTENDS Integers, FiniteSets

CONSTANTS
  User, Code,
  Player,      \* bounds the customers who ask for samples and spins
  Slot,        \* bounds the updates and requests handled at the same time
  MaxGifts,    \* bounds the samples and spins of a customer that are counted
  NoState, None, Idle

State == {"code", "worth", "uses", "user", "amount", "reason", "sample_files", "reset"}
Data == [code : Code \cup {None}, worth : Code \cup {None},
         target : User \cup {None}, amount : User \cup {None}, samples : BOOLEAN]
NoData == [code |-> None, worth |-> None, target |-> None, amount |-> None, samples |-> FALSE]

Task == [pc : {"samples", "clear"}]
        \cup [pc : {"look"}, code : Code]
        \cup [pc : {"create"}, code : Code, worth : Code]
        \cup [pc : {"find"}, user : User]
        \cup [pc : {"reset", "used", "take", "mark", "spin", "record", "draw"}, user : Player]
        \cup [pc : {"adjust"}, user : User, amount : User]

ASSUME PromotionsAssumption ==
  /\ MaxGifts \in Nat
  /\ None \notin User \cup Code /\ Idle \notin Task
  /\ NoState \notin State

VARIABLES
  state, data, \* fsm_storage, of the administrator
  worth,       \* discount_codes: what a code is worth, None when there is no such code
  stocked,     \* sample_files has a row
  used,        \* users.test_used
  spun,        \* users.last_wheel_spin_at lies in the cooldown
  task,        \* of every slot
  spins        \* history: spins of a customer since a cooldown passed

fsm == <<state, data>>
gifts == <<stocked, used, spun, spins>>
vars == <<fsm, worth, gifts, task>>

TypeOK ==
  /\ state \in State \cup {NoState} /\ data \in Data
  /\ worth \in [Code -> Code \cup {None}]
  /\ stocked \in BOOLEAN /\ used \in [Player -> 0..MaxGifts] /\ spun \in [Player -> BOOLEAN]
  /\ task \in [Slot -> Task \cup {Idle}]
  /\ spins \in [Player -> 0..MaxGifts]

Init ==
  /\ state = NoState /\ data = NoData
  /\ worth = [c \in Code |-> None]
  /\ stocked = FALSE /\ used = [u \in Player |-> 0] /\ spun = [u \in Player |-> FALSE]
  /\ task = [s \in Slot |-> Idle]
  /\ spins = [u \in Player |-> 0]

-----------------------------------------------------------------------------
(* The FSM and the tasks.                                                     *)

Go(s, t) == task' = [task EXCEPT ![s] = t]
At(s, p) == task[s] # Idle /\ task[s].pc = p
End(s) == Go(s, Idle)
Me(s) == task[s].user
Begin(s, t) ==
  task[s] = Idle /\ Go(s, t) /\ UNCHANGED <<fsm, worth, gifts>>

\* Mutation: the state is kept.
ClearDataOnly == data' = NoData /\ UNCHANGED state

Clear == state' = NoState /\ data' = NoData
Ask(x) == state' = x
Put(d) == data' = d
FsmOnly == UNCHANGED <<worth, gifts>>

\* Back to the panel, /admin, adm_cancel_files.
Leave == Clear /\ FsmOnly /\ UNCHANGED task
LateClear(s) == At(s, "clear") /\ Clear /\ End(s) /\ FsmOnly
\* A call of the database or of Telegram raises, or the process stops.
Fail(s) == task[s] # Idle /\ End(s) /\ UNCHANGED <<fsm, worth, gifts>>

-----------------------------------------------------------------------------
(* Discount codes.                                                            *)

Known(c) == worth[c] # None

\* create_discount_code; a name that exists is refused. A code is deleted once.
CreateCode(c, v) == worth' = [worth EXCEPT ![c] = v]
DeleteCode(c) == Known(c) /\ worth' = [worth EXCEPT ![c] = None]
Codes == UNCHANGED <<fsm, gifts, task>>

AskCode == Ask("code") /\ FsmOnly /\ UNCHANGED <<data, task>>
TypeCode(s, c) == state = "code" /\ Begin(s, [pc |-> "look", code |-> c])

\* Mutation: the code is kept, and the wizard goes on where it is.
CodeKeptOnly(s) ==
  /\ At(s, "look") /\ End(s)
  /\ IF Known(task[s].code) THEN UNCHANGED fsm
     ELSE /\ Put([data EXCEPT !.code = task[s].code])
          /\ Ask(IF state = "code" THEN "worth" ELSE state)
  /\ FsmOnly

\* process_disc_code after its look at the name.
CodeIsFree(s) ==
  /\ At(s, "look") /\ End(s)
  /\ IF Known(task[s].code) THEN UNCHANGED fsm
     ELSE Put([data EXCEPT !.code = task[s].code]) /\ Ask("worth")
  /\ FsmOnly
TypeWorth ==
  /\ state = "worth"
  /\ Put([data EXCEPT !.worth = data.code]) /\ Ask("uses")
  /\ FsmOnly /\ UNCHANGED task
TypeUses(s) ==
  /\ state = "uses"
  /\ Begin(s, [pc |-> "create", code |-> data.code, worth |-> data.worth])
StoreCode(s) ==
  LET t == task[s]
  IN /\ At(s, "create")
     /\ IF Known(t.code) THEN End(s) /\ UNCHANGED worth
        ELSE CreateCode(t.code, t.worth) /\ Go(s, [pc |-> "clear"])
     /\ UNCHANGED <<fsm, gifts>>

CodeDelete(c) == DeleteCode(c) /\ Codes
BaleCodeDelete(c) == DeleteCode(c) /\ Codes
PanelDeleteCode(c) == DeleteCode(c) /\ Codes
\* The wizard of the Bale bot asks the same, one update after the other; the panel has
\* one form. What was typed belongs together.
BaleNewCode(c) == ~Known(c) /\ CreateCode(c, c) /\ Codes
PanelNewCode(c) == ~Known(c) /\ CreateCode(c, c) /\ Codes

-----------------------------------------------------------------------------
(* Points by hand.                                                            *)

AskUser == Ask("user") /\ FsmOnly /\ UNCHANGED <<data, task>>
TypeUser(s, u) == state = "user" /\ Begin(s, [pc |-> "find", user |-> u])

\* Mutation: the customer changes, the question does not.
TargetOnly(s) ==
  /\ At(s, "find") /\ End(s)
  /\ Put([data EXCEPT !.target = Me(s)])
  /\ Ask(IF state = "user" THEN "amount" ELSE state)
  /\ FsmOnly

\* process_loyalty_adjust_user after its look at the customer.
UserFound(s) ==
  /\ At(s, "find") /\ End(s)
  /\ Put([data EXCEPT !.target = Me(s)]) /\ Ask("amount")
  /\ FsmOnly
TypeAmount ==
  /\ state = "amount"
  /\ Put([data EXCEPT !.amount = data.target]) /\ Ask("reason")
  /\ FsmOnly /\ UNCHANGED task
TypeReason(s) ==
  /\ state = "reason"
  /\ Begin(s, [pc |-> "adjust", user |-> data.target, amount |-> data.amount])
\* admin_adjust refuses to take more points than there are; the wizard ends either way.
Adjust(s) ==
  LET t == task[s]
  IN /\ At(s, "adjust")
     /\ \/ Go(s, [pc |-> "clear"]) /\ UNCHANGED fsm
        \/ Clear /\ End(s)
     /\ UNCHANGED <<worth, gifts>>

-----------------------------------------------------------------------------
(* Samples: the bank of the administrators.                                   *)

AskSamples ==
  /\ Put([data EXCEPT !.samples = FALSE]) /\ Ask("sample_files")
  /\ FsmOnly /\ UNCHANGED task
SendSample ==
  /\ state = "sample_files" /\ Put([data EXCEPT !.samples = TRUE])
  /\ FsmOnly /\ UNCHANGED <<state, task>>
SamplesDone(s) ==
  state = "sample_files" /\ data.samples /\ Begin(s, [pc |-> "samples"])
AddSamples == stocked' = TRUE /\ UNCHANGED <<used, spun, spins>>
StoreSamples(s) ==
  /\ At(s, "samples") /\ AddSamples
  /\ Go(s, [pc |-> "clear"]) /\ UNCHANGED <<fsm, worth>>

DeleteSample == stocked /\ stocked' = FALSE /\ UNCHANGED <<used, spun, spins>>
Bank == UNCHANGED <<fsm, worth, task>>
SampleDelete == DeleteSample /\ Bank
PanelUploadSample == AddSamples /\ Bank
PanelDeleteSample == DeleteSample /\ Bank

AskReset == Ask("reset") /\ FsmOnly /\ UNCHANGED <<data, task>>
TypeReset(s, u) == state = "reset" /\ Begin(s, [pc |-> "reset", user |-> u])
\* reset_user_sample_usage
Reset(s) ==
  /\ At(s, "reset") /\ used' = [used EXCEPT ![Me(s)] = 0]
  /\ Go(s, [pc |-> "clear"])
  /\ UNCHANGED <<fsm, worth, stocked, spun, spins>>

-----------------------------------------------------------------------------
(* Samples: a customer asks for one in the bot or in the Mini App. In the     *)
(* Bale bot the handler calls what the database does not have.                *)

SampleButton(s, u) == Begin(s, [pc |-> "used", user |-> u])
ClaimSample(s, u) == Begin(s, [pc |-> "used", user |-> u])
\* MAX_TEST_PER_USER = 1
LookAtUsed(s) ==
  /\ At(s, "used")
  /\ Go(s, IF used[Me(s)] >= 1 THEN Idle ELSE [task[s] EXCEPT !.pc = "take"])
  /\ UNCHANGED <<fsm, worth, gifts>>
TakeSample(s) ==
  /\ At(s, "take")
  /\ Go(s, IF stocked THEN [task[s] EXCEPT !.pc = "mark"] ELSE Idle)
  /\ UNCHANGED <<fsm, worth, gifts>>
\* mark_test_used; the file is sent then.
MarkUsed(s) ==
  /\ At(s, "mark") /\ used[Me(s)] < MaxGifts
  /\ used' = [used EXCEPT ![Me(s)] = @ + 1]
  /\ End(s) /\ UNCHANGED <<fsm, worth, stocked, spun, spins>>

-----------------------------------------------------------------------------
(* The wheel.                                                                 *)

WheelButton(s, u) == Begin(s, [pc |-> "spin", user |-> u])
BaleWheelButton(s, u) == Begin(s, [pc |-> "spin", user |-> u])
SpinRequest(s, u) == Begin(s, [pc |-> "spin", user |-> u])

\* Mutation: nothing is asked before a spin.
CanSpinAlways(u) == TRUE

\* can_spin_wheel
CanSpin(u) == ~spun[u]
AskToSpin(s) ==
  /\ At(s, "spin")
  /\ Go(s, IF CanSpin(Me(s)) THEN [task[s] EXCEPT !.pc = "record"] ELSE Idle)
  /\ UNCHANGED <<fsm, worth, gifts>>
\* record_wheel_spin, in the bots after an animation of 2.5 seconds.
RecordSpin(s) ==
  /\ At(s, "record") /\ spins[Me(s)] < MaxGifts
  /\ spun' = [spun EXCEPT ![Me(s)] = TRUE]
  /\ spins' = [spins EXCEPT ![Me(s)] = @ + 1]
  /\ Go(s, [task[s] EXCEPT !.pc = "draw"])
  /\ UNCHANGED <<fsm, worth, stocked, used>>
\* generate_wheel_prize_code when the draw is won; the name may be one that exists.
Draw(s) ==
  /\ At(s, "draw") /\ End(s)
  /\ \/ UNCHANGED worth
     \/ \E c \in Code : ~Known(c) /\ CreateCode(c, c)
  /\ UNCHANGED <<fsm, gifts>>
CooldownPasses(u) ==
  /\ spun[u] /\ spun' = [spun EXCEPT ![u] = FALSE]
  /\ spins' = [spins EXCEPT ![u] = 0]
  /\ UNCHANGED <<fsm, worth, stocked, used, task>>

-----------------------------------------------------------------------------
Goes(s) ==
  \/ LateClear(s) \/ Fail(s) \/ CodeIsFree(s) \/ StoreCode(s) \/ UserFound(s) \/ Adjust(s)
  \/ StoreSamples(s) \/ Reset(s) \/ LookAtUsed(s) \/ TakeSample(s) \/ MarkUsed(s)
  \/ AskToSpin(s) \/ RecordSpin(s) \/ Draw(s)

Wizard ==
  \/ Leave \/ AskCode \/ TypeWorth \/ AskUser \/ TypeAmount \/ AskSamples \/ SendSample
  \/ AskReset
  \/ \E s \in Slot :
       \/ TypeUses(s) \/ TypeReason(s) \/ SamplesDone(s)
       \/ \E c \in Code : TypeCode(s, c)
       \/ \E u \in User : TypeUser(s, u)
       \/ \E u \in Player : TypeReset(s, u)

Customer(u) ==
  \/ CooldownPasses(u)
  \/ \E s \in Slot :
       \/ SampleButton(s, u) \/ ClaimSample(s, u)
       \/ WheelButton(s, u) \/ BaleWheelButton(s, u) \/ SpinRequest(s, u)

Elsewhere ==
  \/ SampleDelete \/ PanelUploadSample \/ PanelDeleteSample
  \/ \E c \in Code :
       CodeDelete(c) \/ BaleCodeDelete(c) \/ PanelDeleteCode(c) \/ BaleNewCode(c) \/ PanelNewCode(c)

Next == Wizard \/ Elsewhere \/ (\E s \in Slot : Goes(s)) \/ \E u \in Player : Customer(u)

Spec == Init /\ [][Next]_vars

-----------------------------------------------------------------------------
(* What the administrators may rely on, and what they may not.                *)

\* A discount code is worth what was typed for it, although two names may be on their
\* way to the wizard at once and the look at one may end late.
CodeAsTyped == \A c \in Code : worth[c] \in {None, c}

\* Points go to the customer the number was typed for, however the answers of the wizard
\* overlap.
AmountForTarget == \A s \in Slot : At(s, "adjust") => Me(s) = task[s].amount

\* The checks before a sample and a spin are calls of their own, so a customer who asks
\* quickly may get several, but no more spins and counted samples than requests were
\* handled at once: who asks when all those are through is refused until the cooldown has
\* passed or the count is reset.
GiftsLimited ==
  \A u \in Player : spins[u] <= Cardinality(Slot) /\ used[u] <= Cardinality(Slot)

\* What the first two follow from: the wizard asks again for all that depends on an answer.
WizardKnows ==
  /\ state = "worth" => data.code # None
  /\ state = "uses" => data.code # None /\ data.worth = data.code
  /\ state = "amount" => data.target # None
  /\ state = "reason" => data.target # None /\ data.amount = data.target

\* A customer spins the wheel once in a cooldown (README.md, the table of the bot's
\* features).
OneSpin == \A u \in Player : spins[u] <= 1
=============================================================================
