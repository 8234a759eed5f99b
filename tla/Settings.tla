------------------------------- MODULE Settings -------------------------------
(*****************************************************************************)
(* The table "settings" and the copies of it that every process keeps        *)
(* (get_setting, set_setting): a copy is loaded when it is used and older    *)
(* than TTL, and a process writes its own changes into its copy.             *)
(*                                                                           *)
(* A worker is a thread that serves a handler of a bot or a request of the   *)
(* panel. Settings matter by how they are used only, so two stand for all: a *)
(* switch, and a value that is typed in, which a switch may need before it   *)
(* can be turned on (a product, an amount, a channel). What a setting means  *)
(* to the shop is left out, and so is the question that comes before an      *)
(* answer, which changes no setting.                                         *)
(*****************************************************************************)
EXTENDS Integers

CONSTANTS
  Worker,      \* bounds the threads that use settings at the same time
  Telegram, Bale, Panel,  \* the processes
  TTL,         \* _SETTINGS_CACHE_TTL in ticks of the clock
  Wait,        \* bounds the ticks a thread is kept between two halves of a call
  Dated,       \* the setting whose values are dated: any one
  NoCopy, NoCall

Process == {Telegram, Bale, Panel}
Key == {"switch", "entry"}
Value == {0, 1}

\* What a handler still has to do, in order.
Plan == {"done", "flip", "check", "second"}
Call == [pc : {"get", "take"}, home : Process, key : Key, plan : Plan]
        \cup [pc : {"install"}, home : Process, key : Key, plan : Plan, rows : [Key -> Value]]
        \cup [pc : {"set", "own"}, home : Process, key : Key, value : Value, plan : Plan]

ASSUME SettingsAssumption ==
  /\ TTL \in Nat /\ Wait \in Nat /\ Dated \in Key
  /\ NoCopy \notin [Key -> Value] /\ NoCall \notin Call

VARIABLES
  table,       \* settings
  cache, age,  \* of every process: _settings_cache, and how old it is
  call,        \* of every worker
  waited,      \* of every worker: the ticks since it began to wait
  lag          \* history: how long ago the dated setting had a value

settingsVars == <<table, cache, age, call, waited, lag>>

SettingsTypeOK ==
  /\ table \in [Key -> Value]
  /\ cache \in [Process -> [Key -> Value] \cup {NoCopy}]
  /\ age \in [Process -> 0..TTL + 1]
  /\ call \in [Worker -> Call \cup {NoCall}]
  /\ waited \in [Worker -> 0..Wait]
  /\ lag \in [Value -> 0..TTL + Wait + 1]

\* Every process begins without a copy; a value that never was is as old as can be.
SettingsInit ==
  /\ table = [k \in Key |-> 0]
  /\ cache = [p \in Process |-> NoCopy] /\ age = [p \in Process |-> 0]
  /\ call = [w \in Worker |-> NoCall] /\ waited = [w \in Worker |-> 0]
  /\ lag = [v \in Value |-> IF v = 0 THEN 0 ELSE TTL + Wait + 1]

Proceed(w, t) ==
  /\ call' = [call EXCEPT ![w] = t]
  /\ waited' = [waited EXCEPT ![w] = 0]
Doing(w, p) == call[w] # NoCall /\ call[w].pc = p
Mine(w) == call[w].home
Waits(w) == Doing(w, "install") \/ Doing(w, "own")

-----------------------------------------------------------------------------
(* get_setting                                                                *)

\* _maybe_reload_settings_cache
Fresh(p) == cache[p] # NoCopy /\ age[p] <= TTL

Get(w, p, k, plan) == Proceed(w, [pc |-> "get", home |-> p, key |-> k, plan |-> plan])
Use(w) ==
  /\ Doing(w, "get") /\ Fresh(Mine(w))
  /\ Proceed(w, [call[w] EXCEPT !.pc = "take"])
  /\ UNCHANGED <<table, cache, age, lag>>

\* The first half of _load_settings_cache: SELECT, under the lock of the connection.
Select(w) ==
  /\ Doing(w, "get") /\ ~Fresh(Mine(w))
  /\ Proceed(w, [pc |-> "install", home |-> Mine(w), key |-> call[w].key,
            plan |-> call[w].plan, rows |-> table])
  /\ UNCHANGED <<table, cache, age, lag>>

\* The second half: the lock is taken again, and the copy is replaced, whatever was
\* written since. It counts as new from now on, not from the SELECT.
Install(w) ==
  /\ Doing(w, "install")
  /\ cache' = [cache EXCEPT ![Mine(w)] = call[w].rows]
  /\ age' = [age EXCEPT ![Mine(w)] = 0]
  /\ Proceed(w, [pc |-> "take", home |-> Mine(w), key |-> call[w].key, plan |-> call[w].plan])
  /\ UNCHANGED <<table, lag>>

-----------------------------------------------------------------------------
(* set_setting                                                                *)

Set(w, p, k, v, plan) ==
  Proceed(w, [pc |-> "set", home |-> p, key |-> k, value |-> v, plan |-> plan])
Store(w) ==
  /\ Doing(w, "set")
  /\ table' = [table EXCEPT ![call[w].key] = call[w].value]
  /\ lag' = IF call[w].key = Dated THEN [lag EXCEPT ![call[w].value] = 0] ELSE lag
  /\ Proceed(w, [call[w] EXCEPT !.pc = "own"])
  /\ UNCHANGED <<cache, age>>

\* Mutation: a write makes the whole copy look new.
KeepOwnRefreshes(w) ==
  LET p == Mine(w) t == call[w]
  IN /\ Doing(w, "own")
     /\ cache' = IF cache[p] = NoCopy THEN cache ELSE [cache EXCEPT ![p][t.key] = t.value]
     /\ age' = [age EXCEPT ![p] = 0]
     /\ \/ t.plan = "second" /\ \E v \in Value : Set(w, p, "entry", v, "done")
        \/ t.plan # "second" /\ Proceed(w, NoCall)
     /\ UNCHANGED <<table, lag>>

\* The process's own copy; a form goes on with its next setting.
KeepOwn(w) ==
  LET p == Mine(w) t == call[w]
  IN /\ Doing(w, "own")
     /\ cache' = IF cache[p] = NoCopy THEN cache ELSE [cache EXCEPT ![p][t.key] = t.value]
     /\ \/ t.plan = "second" /\ \E v \in Value : Set(w, p, "entry", v, "done")
        \/ t.plan # "second" /\ Proceed(w, NoCall)
     /\ UNCHANGED <<table, age, lag>>

-----------------------------------------------------------------------------
(* What a handler does with the value it got.                                 *)

\* get_setting returns the value. A toggle writes the opposite; one that is guarded
\* looks first whether what the switch needs is set.
Take(w) ==
  LET t == call[w] p == Mine(w) v == cache[p][t.key]
  IN /\ Doing(w, "take")
     /\ \/ t.plan = "flip" /\ Set(w, p, t.key, 1 - v, "done")
        \/ t.plan = "check" /\ t.key = "switch" /\ v = 1 /\ Set(w, p, "switch", 0, "done")
        \/ t.plan = "check" /\ t.key = "switch" /\ v = 0 /\ Get(w, p, "entry", "check")
        \/ t.plan = "check" /\ t.key = "entry" /\ v = 1 /\ Set(w, p, "switch", 1, "done")
        \/ t.plan = "check" /\ t.key = "entry" /\ v = 0 /\ Proceed(w, NoCall)
        \/ t.plan = "done" /\ Proceed(w, NoCall)
     /\ UNCHANGED <<table, cache, age, lag>>

-----------------------------------------------------------------------------
(* Handlers, by what they do to settings first.                               *)

Starts(w) == call[w] = NoCall /\ UNCHANGED <<table, cache, age, lag>>

Toggle(w, p) == Get(w, p, "switch", "flip")
GuardedToggle(w, p) == Get(w, p, "switch", "check")
Answer(w, p) == \E v \in Value : Set(w, p, "entry", v, "done")
\* The forms of the panel write a switch and what belongs to it one by one, and turn
\* on no switch without what it needs.
Form(w, p) == \E v \in Value : Set(w, p, "switch", v, "second")
Show(w, p) == \E k \in Key : Get(w, p, k, "done")

\* The menus of a customer, and the question whether a channel must be joined, which
\* every update asks.
Menu(w) == Starts(w) /\ Show(w, Telegram)
JoinFirst(w) == Starts(w) /\ Show(w, Telegram)

\* The pages of the administrators in the Telegram bot.
ForceJoinPage(w) == Starts(w) /\ (GuardedToggle(w, Telegram) \/ Answer(w, Telegram))
ReferralPage(w) == Starts(w) /\ (Toggle(w, Telegram) \/ Answer(w, Telegram))
FreeProductPage(w) == Starts(w) /\ (GuardedToggle(w, Telegram) \/ Answer(w, Telegram))
InviteBonusPage(w) == Starts(w) /\ (GuardedToggle(w, Telegram) \/ Answer(w, Telegram))
WheelPage(w) == Starts(w) /\ (Toggle(w, Telegram) \/ Answer(w, Telegram))
LoyaltyPage(w) == Starts(w) /\ (Toggle(w, Telegram) \/ Answer(w, Telegram) \/ Show(w, Telegram))
LoyaltyLimits(w) == Starts(w) /\ (Answer(w, Telegram) \/ Show(w, Telegram))
ButtonPage(w) == Starts(w) /\ (Toggle(w, Telegram) \/ Answer(w, Telegram) \/ Show(w, Telegram))
MainMenuPage(w) == Starts(w) /\ (GuardedToggle(w, Telegram) \/ Toggle(w, Telegram))
ColourPage(w) == Starts(w) /\ Answer(w, Telegram)
CardPage(w) == Starts(w) /\ (\E v \in Value : Set(w, Telegram, "entry", v, "second"))
WelcomePage(w) == Starts(w) /\ (Answer(w, Telegram) \/ Show(w, Telegram))

\* The same pages in the Bale bot.
BaleForceJoinPage(w) == Starts(w) /\ (GuardedToggle(w, Bale) \/ Answer(w, Bale))
BaleReferralPage(w) ==
  Starts(w) /\ (Toggle(w, Bale) \/ GuardedToggle(w, Bale) \/ Answer(w, Bale))
BaleWheelPage(w) == Starts(w) /\ (Toggle(w, Bale) \/ Answer(w, Bale))

\* The panel: any setting that passes validate_setting, and forms.
PanelSetting(w) == Starts(w) /\ \E k \in Key, v \in Value : Set(w, Panel, k, v, "done")
CommerceForm(w) == Starts(w) /\ Form(w, Panel)
ReferralForm(w) == Starts(w) /\ (Form(w, Panel) \/ Show(w, Panel))
WheelForm(w) == Starts(w) /\ (Form(w, Panel) \/ Show(w, Panel))
LoyaltyForm(w) == Starts(w) /\ (Form(w, Panel) \/ Show(w, Panel))
ForceJoinForm(w) == Starts(w) /\ (Form(w, Panel) \/ Show(w, Panel))
MenuForm(w) == Starts(w) /\ (Answer(w, Panel) \/ Form(w, Panel) \/ Show(w, Panel))

-----------------------------------------------------------------------------
\* The age of a copy or a value, which matters only up to a bound.
Older(n, max) == IF n > max THEN n ELSE n + 1

\* Time passes, between the two halves of a load too: another thread may hold the lock of
\* the process and wait in BEGIN IMMEDIATE for a writer elsewhere, for busy_timeout at
\* most. The second half of a write needs no lock; it may be held up as long all the same.
Tick ==
  /\ \A w \in Worker : Waits(w) => waited[w] < Wait
  /\ age' = [p \in Process |-> Older(age[p], TTL)]
  /\ waited' = [w \in Worker |-> IF Waits(w) THEN waited[w] + 1 ELSE waited[w]]
  /\ lag' = [v \in Value |-> IF table[Dated] = v THEN 0 ELSE Older(lag[v], TTL + Wait)]
  /\ UNCHANGED <<table, cache, call>>

Run(w) == Use(w) \/ Select(w) \/ Install(w) \/ Store(w) \/ KeepOwn(w) \/ Take(w)

Bot(w) ==
  \/ Menu(w) \/ JoinFirst(w) \/ ForceJoinPage(w) \/ ReferralPage(w) \/ FreeProductPage(w)
  \/ InviteBonusPage(w) \/ WheelPage(w) \/ LoyaltyPage(w) \/ LoyaltyLimits(w)
  \/ ButtonPage(w) \/ MainMenuPage(w) \/ ColourPage(w) \/ CardPage(w) \/ WelcomePage(w)
  \/ BaleForceJoinPage(w) \/ BaleReferralPage(w) \/ BaleWheelPage(w)

Request(w) ==
  \/ PanelSetting(w) \/ CommerceForm(w) \/ ReferralForm(w) \/ WheelForm(w)
  \/ LoyaltyForm(w) \/ ForceJoinForm(w) \/ MenuForm(w)

SettingsNext == Tick \/ \E w \in Worker : Run(w) \/ Bot(w) \/ Request(w)

SettingsSpec == SettingsInit /\ [][SettingsNext]_settingsVars

-----------------------------------------------------------------------------
(* What the processes may rely on.                                            *)

\* A value that a process takes for current was in the table no longer ago than TTL and
\* the wait of whoever loaded or wrote it, although copies are loaded and written by
\* several threads and other processes write the table: a change made elsewhere is in
\* force everywhere after that time.
StaleBounded == \A p \in Process : Fresh(p) => lag[cache[p][Dated]] <= TTL + Wait

\* Each conjunct of the invariant that StaleBounded follows from: a copy is older than
\* it looks by a wait at most, and what is about to enter a copy was in the table when
\* the wait began.
CopyAlmostAsOldAsItLooks ==
  \A p \in Process : cache[p] # NoCopy => lag[cache[p][Dated]] <= age[p] + Wait
EntriesReadBeforeWait ==
  \A w \in Worker :
    /\ Doing(w, "install") => lag[call[w].rows[Dated]] <= waited[w]
    /\ Doing(w, "own") /\ call[w].key = Dated => lag[call[w].value] <= waited[w]
=============================================================================
