# Patternshop: a TLA+ model of the shop

Patternshop sells sewing patterns (files) and physical goods through a Telegram bot, a
Bale bot, a Telegram Mini App and a web panel. The four programs are separate processes
that share one SQLite file; there is no other coordination between them. This directory
models what they do to that file, and to the one in which the Telegram bot keeps its
conversations: checkouts, decisions on orders, stock, wallets, the loyalty club, receipts,
the catalogue, codes, samples and spins, chats and tickets, settings. The reference is the
code under `src/`, never its documents; where the two disagree a run shows it (see
*Findings*).

## 1. Inventory

| Part (source) | State it keeps | Operations | Hard behaviour |
|---|---|---|---|
| Cart and checkout (`services/cart.py`, `services/checkout.py`, `database.py`) | `cart_items`, `orders`, `order_items`, `checkout_idem`, `discount_codes.used_count`, `users.referral_credit`, `inventory.reserved` | add, change, remove, clear; `checkout_cart` | several threads and processes check out one cart; a nested call commits half a transaction; retries; crashes |
| Decision on an order (`services/orders.py`, `database.py`) | `orders.status`, refunds of the wallet, the code and the stock, `fulfillment_events` | `approve_order`, `reject_order`, then an event, points, commission | bots, panel and the customer's cancel button decide at once; the follow-up steps are transactions of their own |
| Fulfilment and stock (`services/orders.py`, `services/inventory.py`) | `orders.physical_fulfillment_status`, `inventory.on_hand`, `reserved` | stages, cancellation, set and adjust stock | the stage is read in one transaction and written in another; a cancelled order can still be rejected |
| Loyalty club (`loyalty.py`, `database.py`) | `loyalty_state`, `loyalty_ledger` | award, reverse, register, refer, adjust, redeem | look-up of the idempotency key outside the transaction; stale tier; crash between approval and award |
| Referrals and top-ups (`database.py`, `services/payments.py`, handlers) | `users.referred_by` and three flags, `users.referral_credit`, `wallet_topups` | `/start` with a link, commission, bonus, free product; create, approve, reject a top-up | two links at once; limits counted before they are used; two administrators |
| Receipts and conversations (`fsm_storage.py`, `handlers_user.py`, `miniapp/server.py`) | state and data of aiogram's FSM in a file of its own, `orders.receipt_file_id`, `wallet_topups` | every update of a customer that asks, answers, clears, sends a receipt or cancels | updates of one customer overlap at every `await`; old buttons stay in the chat; restarts, with or without the conversations; the fallback guesses what a receipt is for |
| Catalogue (`database.py`, handlers, panel) | `categories`, `products`, `product_files`, the wizards' FSM | wizards, albums of files, edits and deletions in three front ends | files are stored while the next ones come; products are deleted under a wizard |
| Discount codes, samples, wheel, points by hand (handlers, panel, Mini App) | `discount_codes`, `users.test_used`, `users.last_wheel_spin_at`, `sample_files`, wizards' FSM | create, delete, ask, spin, reset, correct | check and record are two calls; two answers to one question |
| Discounts and prices (`services/checkout.py`, `database.py`) | `discount_codes`, `product_variants` | validate, compute | rounding and caps |
| Administrators, chat, tickets, presence (`database.py`, panel, handlers) | `admins` and a copy of it, `admin_presence`, `support_conversations`, `tickets`, memory of the notifier | add, remove, assign, answer, claim, close, push | two administrators answer at once; a role is overwritten by an old button; claim and answer are two transactions; messages come between the notifier's reads |
| Settings (`database.py`, all front ends) | table `settings`, a copy of 8 s in every process | get, set, toggles, forms | other processes read old values; a copy is loaded by one thread while another writes |
| Panel, Mini App, bots, keyboards | sessions, menus | calls of the services above | — |
| Backup, push messages, proxy, channel membership, delivery of files | external | external | — |

The parts interact through the tables only. Every process has one `Database` object whose
lock (`RLock`) lets one thread at a time into a block `with self._get_conn()`; such a block
commits when it ends. A `SELECT` opens no transaction in Python's `sqlite3`, so what is read
before the first write of a block may be old when the write happens *if another process*
wrote in between; from the first write on, SQLite's write lock protects the block.
`Database.transaction()` takes the write lock at once (`BEGIN IMMEDIATE`). These facts decide
what is one step in the models: a block that only reads, or writes first, is one step; a
block that reads and then decides on a write is two where several processes run it.

The Telegram bot runs every update as a task of its own. A task gives way at each call of
the database (`asyncio.to_thread`) and of Telegram, and never at an operation of the FSM,
whose storage is synchronous inside. So a handler is a sequence of segments between two such
calls; a segment is one step of `Conversation`, `Catalogue` and `Promotions`, and the
segments of two updates of one person interleave. The Bale bot handles one update after the
other; what it does to the tables interleaves with the other processes only.

What makes the parts correct, in a sentence each: an order holds rows that no other order
and no cart holds, and money, code uses and stock are conserved over it (checkout); a
decision is taken once and what it gives back is given back once (decision, stock); points
and balance agree with an append-only ledger, and an event counts once (loyalty); a wallet
is paid once per reason and for a reason, and limits hold up to what is under way at once
(referrals, top-ups); a conversation that waits for
a receipt knows what it is for, and a receipt that was asked for is kept (receipts); a wizard
acts on the answers it was given, and its files reach its own product (catalogue, codes,
points); the owner stays, an answered ticket is its claimant's, no message is left out of
what is pushed (support); a change of a setting is in force everywhere when a copy's life and
its loader's wait for the lock are over (settings).

## 2. Modules

| Module | What it is | Proofs |
|---|---|---|
| `Checkout` | `checkout_cart` in its real steps, the cart, the decision on an order | `CheckoutProofs` |
| `Shop` | abstract specification: a shop in which a purchase is one atomic step | `CheckoutProofs` |
| `CheckoutShop` | the refinement mapping from `Checkout` to `Shop` | `CheckoutProofs` |
| `Fulfillment` | one variant, its orders, their stages and the stock | `AdministrationProofs` |
| `Loyalty` | the points of the customers | `LoyaltyProofs` |
| `Wallet` | commissions, bonuses, free products and top-ups | `WalletProofs` |
| `Conversation` | customers' conversations, receipts, cancelling, restarts of the bot | `ConversationProofs` |
| `Catalogue` | categories, products and files; an administrator's wizards | `CatalogueProofs` |
| `Promotions` | discount codes, points by hand, samples, the wheel | `AdministrationProofs` |
| `Support` | administrators, chat, tickets, presence, the panel's notifier | `SupportProofs` |
| `Settings` | the settings' table and its copies in three processes | `AdministrationProofs` |
| `SumTheorems` | induction on numbers and finite sets, lemmas about sums over a set | itself |
| `MC...` | the instances TLC checks | |

### Checkout
A *worker* is a thread inside `checkout_cart`; `task[w].pc` is the point it has reached.
`Call` is the caller with the default key (`_default_idem_key`, lines 92-100), `FastPath`
`find_existing_commit`, `PreCheck` the checks before the transaction. From there the two
kinds of checkout differ. Without a code the rest is one `BEGIN IMMEDIATE` transaction:
`CheckoutPlain` (or `Refuse`). With a code, `_validate_discount` inside the transaction calls
`db.get_discount_code`, whose `_get_conn` block commits at its end, so that the claim of the
cart is committed first (`ClaimCart`), shipping, address and wallet are then read outside any
transaction (`Quote`), and the guarded updates form a second transaction (`Settle`). `Place`
is what both kinds write when they make an order. `Crash` lets a process die at any of these
points, or SQLite give up on the lock. `Approve` and `Reject` are `approve_order` and
`reject_order` with everything in their transactions.

Abstracted: a row's price is a parameter (`CartTotal`, `DiscountOff`); shipping methods and
addresses are present or not (`ship`); settings that are cached per process may have either
value. The stock on hand is constant here and moves in `Fulfillment`.

### Shop and CheckoutShop
`Shop` knows baskets, wallets, codes, stock and orders, and one step `Buy`. The mapping counts
the rows a worker has claimed as still in the basket, so that the step that makes the order is
the step that buys. The one thing a code changes for the customer is that a basket may lose
rows (`Loses`), which only codes allow.

### Fulfillment
Two administrators (requests of the panel run in a thread pool) and one variant.
`set_fulfillment_status` is `ReadStage` (read and check) and `WriteStage` (write without
looking again); a decision is one step and its event another (`LogDecision`), between which
the request may die. `freed` is a history variable: how often an order gave its goods back.

### Loyalty
A worker is a handler: it approves, rejects, or serves `/start`, then `AwardPurchase` (or
`ReversePurchase`, `Register`, `Refer`) computes the points, `Check` looks the key up, and
`Write` is the transaction with the unique index. `Cancel` and `RejectCancelled` are
`cb_cancel_flow`, which reverses the points of the order whatever became of it.
`BuyWithWalletElsewhere` stands for `api_cart_checkout` of the Mini App and `_run_checkout` of
the Bale bot, which end after the checkout. `Redeem` is one guarded transaction.

### Wallet
`Start`, `SetReferredBy`, `ReadGift`, `InviteRewards` are the calls of `cmd_start` after a
link. The last two are one block, `apply_referral_invite_rewards`: whether the inviter has the
free product is read in it before its first write (`database.py:2724`), so it is two steps, and
the second uses what the first has read (`given`) and sets the flag without a look. The
bonus is enabled in the model; its UPDATE is that first write.
`Approve`/`Replay`, `CheckAward`, `EnterAward`, `ReadReward`, `Claim` those of
`award_after_approve`, where an error in the award of points skips the commission;
`AskTopUp`, `ReadTopUp`, `DecideTopUp` those of a top-up. Two history variables count: `paid`
how often what was paid, `gifts` how often an inviter was given the free product. A worker
serves any front end, and every two of them interleave as if in processes of their own; the
lock of a `Database` object keeps the blocks of one process apart, so the code's bound on
`gifts` is the number of processes, which is less.

### Conversation
`state` and `about` are the FSM's state and the order in its data, of every customer; a task
in a slot is an update between two of its awaits. Buttons whose handlers touch the FSM at once
are one step (`Leave` and `Ask`, under the handlers' names). A checkout is `Checkout` (under
the names of its four buttons), `Prompt` (the order is placed, the receipt asked for) and
`LateClear`; a text is `Type` and `Typed`; a photo is `Photo`, then `LookForReceipt` (the
handler of the state) or `Find` (`receipt_fallback_catch`, which takes the customer's latest
order or top-up that waits), `Store` or `File`, and the late clear; the cancel button is
`Cancel`, `LookForCancel`, `RejectCancelled`. `CreateOrder`, `CartCheckout`, `OrderReceipt`,
`Uploaded`, `TopUpRequest` and `TopUpReceipt` are the Mini App's, which knows nothing of the
FSM; `Decide` is any administrator. `Stop` ends every task, and the conversations too when
their file is lost.

### Catalogue
`state` and `data` are one administrator's FSM. An answer is known by the run of the wizard it
was given in (`run`, a history variable), a file by what it was sent for, so that
`FilesWhereSent` can tell where it lands. `NewProductDone`, `StoreProduct`, `StoreFiles` and
`LateClear` are the last handler of the wizard; `FilesDone`, `CheckProduct`, `StoreFiles` that
of a product's page; `SendPhoto`, `LookForPreview` replace its picture. `Panel...` and `Bale...`
are what happens elsewhere: calls of the same functions, an upload of the panel in two steps.

### Promotions
The wizard of a code is `TypeCode`, `CodeIsFree`, `TypeWorth`, `TypeUses`, `StoreCode`, that of
points `TypeUser`, `UserFound`, `TypeAmount`, `TypeReason`, `Adjust`; both look something up
between two answers. A code is worth, in the model, the code it was typed for. A sample is
`LookAtUsed`, `TakeSample`, `MarkUsed`; a spin `AskToSpin`, `RecordSpin`, `Draw`;
`CooldownPasses` is the clock. `spins` is a history variable.

### Support
`admins` is the table, `known` the bot's copy of it (loaded by `Reload` and by every change in
the bot, not by the panel's), `offered` the accounts for which the owner holds buttons. A
customer's message is `Write`, `Resolve`, `Assign` (to whom it goes); an administrator's is
`TypeReply`, `TakeConversation` in the bot and `PanelSend`, `HoldConversation` in the panel. An
answer of a ticket is `TicketReply`, `Claim`, `Answer`. The notifier is `ReadLatest`, `PushNew`,
`KeepLast`, and `RoundFails` wherever it is. `Fail` ends a handler at a call that raises.

### Settings
A worker is a thread of one of three processes. `Use` is the test of the copy's age, `Select`
and `Install` the two lock sections of `_load_settings_cache`, `Take` the look into the copy;
`Store` and `KeepOwn` are `set_setting`: the table, then the own copy. Every page and form that
reads or writes settings is an action named for it, by what it does: toggles, toggles that need
an entry, answers, forms that write several settings, pages that only show.

`Tick` is the clock. Time passes between the two halves of a call as well (`Waits`): a load
releases the lock of the process after its SELECT and takes it again for the copy
(`database.py:963-964`), while another thread may hold it in `BEGIN IMMEDIATE` for a
`busy_timeout`, and the copy is dated only then. `waited` counts the ticks of such a wait and
`Wait` bounds them, by whatever the machine allows. `lag` is a history variable: how long ago
the setting `Dated`, which may be either, had a value.

## 3. Runs

All bounds are constants of the configurations, or `MaxRow`, `MaxOrder`, `MaxQty` (Checkout),
`MaxEntry` (Loyalty, ledger entries without a key), `2 * Received` (Fulfillment, stock that
adjustments may reach).

| Run | Shows | Instance and why it is enough |
|---|---|---|
| `checkout_plain` | rows, stock and keys stay consistent, a failed checkout gives the cart back | 2 customers, 2 workers, 3 rows, 2 orders, the last unit of a variant and a digital product: two checkouts race for one cart, one unit, one key |
| `checkout_shop` | the three-step checkout spends no wallet, code or unit twice; it implements `Shop`; every call ends | one customer with two workers, one code of one use, calls with and without it and with and without shipping, a withdrawn product |
| `fulfil` | no reservation outlives its order; it is exact unless an order frees it twice; history true | 2 orders of different size, 2 administrators, all stages, stock reset and corrected |
| `loyalty` | ledger and balance agree, events count once, surviving handlers award | 2 orders of one customer (paid and free), 2 handlers, every kind of entry, a tier that is reached on the way |
| `wallet` | nothing is paid twice or without reason, bonuses keep their limit, the free product is given no more often than handlers are at invitations at once, the first inviter stands, commissions are settled | 3 customers, one with two links, one inviter with two customers, 2 first purchases, limits and threshold of one, one top-up, 2 workers: the free product is given twice in this instance, and never three times |
| `conversation` | a conversation that waits for a receipt knows what for; decisions stand; a receipt that was asked for arrives | one customer, 2 updates at a time, 2 orders and a top-up, so that an old order's button meets a new order. That no conversation names a *stranger's* order needs a second customer and is left to the proof |
| `settings` | no value is taken for current that was replaced longer ago than a copy lives and a thread waits | 2 threads in 2 processes (the bots use settings alike), a copy that lives until the next tick, as long as which a thread may wait: any number of steps fit into a tick, a load overlaps a write or waits after its SELECT, a copy is renewed or written when it is too old; without the wait in the bound the run fails. With `TTL = 1` the run passes as well, in 4 million states; the theorem covers every life. The switch is the setting that is dated; the theorem covers the other |
| `catalogue` | the data of a wizard fits its question, no file lands elsewhere, no orphans | one run of the wizard, 2 products (its own and another), a category, 2 handlers at a time; several runs are left to the proof |
| `promotions` | a code has its own worth, points their own customer, gifts are no more than the requests at once | 2 codes, 2 customers for points and one for gifts, 2 handlers at a time, so that two answers to one question, two spins or two samples overlap; 3 gifts are counted, one more than the handlers |
| `support` | the owner stays, an answered ticket is claimed, no message is left out | owner and another account, 2 administrators of the web, 1 ticket, 2 messages (one before and one after a read of the notifier), 2 handlers |
| `cart_lost`, `spun_twice` | the findings below | the smallest instance that has the case |

The types of `Wallet`, `Settings`, `Catalogue`, `Promotions` and `Support` and what a second run
of the same module would only repeat (rows and stock with a code, wallets without one) have no run
of their own: all of these are theorems. So has none the bound on commissions, which needs three
invited buyers and two workers.

Two workers suffice for the races because every guard looks at one shared row: a third
worker only repeats what the second does. The theorems cover any number where they apply.

**Symmetry** is used for workers, slots, codes and customers, or orders and administrators, in
runs without liveness. **Deadlock** is not checked where the system comes to an end: in the
runs of `Wallet`, `Conversation`, `Catalogue`, `Promotions` and `Support` all orders, messages,
products or gifts of the instance may have been made.

**Fairness.** It is stated for steps *inside* a handler that was started, and nowhere else;
nothing makes customers or administrators act. `Checkout`: weak fairness of `Run(w)`, because a
thread that holds or waits for the lock goes on: SQLite's busy time-out turns a wait into an
error, which is a step too. `Loyalty` and `Wallet`: the follow-up of an approval, `Award(w)` and
`Settle(w)`, of the workers that are not in `Mortal`; those may die at any moment, and nothing
is promised of them. `Conversation`: `Receive(s)`, the steps of a handler that received a
receipt; the event loop resumes a task whose database call has returned, and `Stop` may end it
all the same. `Settings`, `Catalogue`, `Promotions`, `Support` and `Fulfillment` state no
fairness and have no liveness property.

## 4. Proofs

Every theorem holds for all values of the constants that satisfy the named assumptions of its
module (`...Assumption`, and `SentinelAssumption`, `EntryAssumption`, `WalletSentinels`,
`LoyaltySentinel`: the values that stand for "none" are none of the real ones). They say what the
code and the schema guarantee (amounts are natural numbers, ids come from AUTOINCREMENT, a
discount takes off at most the total) and TLC evaluates them in every run of the module. Sets are
assumed finite where the model counts over them: the orders of a variant in `Fulfillment`, and
row and order ids, which are numbers below a bound. Every invariant that a passing run checks,
every action property and the refinement are theorems; what is left to TLC is at the end.

`SumTheorems` carries everything that adds up. The provers cannot instantiate the library's
induction theorems, which take an operator; `NatInductionInSet` and `SetInductionInSet` state
induction for a *set* (of numbers, of subsets), in which form it is first-order, and each use
defines the set of what is to be shown. On them rest the lemmas on `SumFunctionOnSet`: the sum
exists and does not depend on the order of the elements (`SumUnique`, `SumRemove`), and what one
element more, less or changed does to it (`SumGrows`, `SumShrinks`, `SumChange`).

`CheckoutProofs`, for any customers, workers, items, codes, bounds and prices:

* `TypeCorrect`: types, in particular that no wallet, use count or reservation is negative.
  `TypeOK` is not inductive alone: a worker between the two transactions of a checkout must
  hold a code, or `Settle` could be reached without one (`SplitHasCode`).
* `SoldOnce`: no row in two orders, or in an order and a cart. The invariant `RowsApart` says
  more: carts, workers and orders hold pairwise disjoint sets of row ids, all below `nextRow`;
  a claim moves ids from a cart to a worker, a purchase from there to an order.
* `WithinLimits`: no code beyond its limit, no variant beyond its stock. The guards of the
  updates are enough because each is evaluated in the transaction that counts.
* `MoneyConserved`, `UsesCounted`, `StockPromised`: `WalletConserved`, `CodeUseExact`,
  `StockExact`, from one invariant `BooksInv`: the wallets, the uses and the reservations are what
  the orders that were not rejected add up to, and the next order's number is free (`NextIsFree`,
  or a purchase would not add an order but replace one). A purchase adds one summand to each book
  in the transaction that changes it, a rejection takes it out again. `Floor0`, the code's
  `MAX(0, ...)`, never hides anything: a rejection gives back what is a part of the sum.
* `CheckoutIsShop`: `Spec => ImplementsShop`. Its invariant `ImplInv` joins those above with
  `HandsInv`: a worker holds rows exactly between the claim of the cart and its return.
  `HandsApart` says that baskets (cart and hands) of different customers share nothing, so that a
  step of one worker moves one basket. `CallShops`, `WorkerShops`, `CustomerShops`,
  `DecisionShops` and `CrashShops` map every step to one of `Shop` or a stutter: the claim of the
  cart and its return when refused are stutters, the transaction that makes the order is `Buy`, a
  worker that ends with rows in its hands is `Loses`, which only codes permit; `NothingHidden`
  says that the shop, which subtracts, and the code, which floors at zero, agree on a rejection.
* `KeyMakesOneOrder` and `CartsAreKept`, both for a shop without codes: a key makes one order
  (needs that the key of every order is recorded, `KeysKnown`), and no cart is lost (needs that
  no worker holds rows and that the next order's number is free). With codes both fail; the run
  `cart_lost` shows the second.

`WalletProofs`, for any customers, orders, top-ups, links, workers, limits and amounts:

* `WalletTypes`: types; no wallet goes below zero.
* `FirstInviterStands`: `InviterStands`, an action property. It is also what makes the
  commission right: an inviter that was read outside the transaction is still the recorded one
  when the commission is paid. It rests on one bot serving a customer: `set_referred_by` reads and
  writes in one block under that bot's lock.
* `FreeProductsWithinRush`, for finitely many workers: `FreeProductLimited`. That it is given once
  is not true (see *Findings*). `GiftsInv` counts with what was given the workers that have
  looked before it was given and are about to give it (`Giving`): only somebody who
  finds no flag joins them, and then nothing was given yet.
* `NothingPaidTwice` and `NothingForNothing`: `PaidOnce` and `PaidForSomething`, from one
  invariant `PaymentInv`. Neither is inductive: that a second commission cannot be paid follows
  from the flag the first one left, so `Backed` says that every payment has left its mark (the
  flag of the customer, the status of the top-up), and `TasksKnown` that a worker on its way to
  a commission holds an approved order and the recorded inviter. `OnePayment` is the one lemma
  about histories: a payment for an event that has not paid yet keeps "once".
* `WalletsAddUp`: `CreditExplained`, a wallet is the sum of what was paid. `WalletInv` adds to
  `PaymentInv` that finitely many things were paid at any time, so that neither customers nor
  orders need be finite. That no summand is counted twice is `PaidOnce` and the status of the
  top-up; the sums need nothing else.

* `BonusesWithinLimit`: `BonusesLimited`, an inviter is paid for no more of the customers
  recorded as theirs than the limit. `LimitsInv` adds `InvitesKnown` to the invariants above: whose
  invitation is being rewarded, or was, has a recorded inviter, who stays; so nobody joins an
  inviter's customers after having been counted. A bonus for a customer is in the set that the
  paying transaction counts (`RewardsByCustomer` maps rewards to customers, one to one since
  nothing is paid twice).
* `CommissionsNearLimit`, for finitely many workers: with a limit, an inviter is paid fewer
  commissions than the limit and the workers together. The limit itself is exceeded, because it is
  looked at before the first write. `CountInv` counts, besides what was paid, the workers
  that have found room and not yet paid (`Paying`); only a worker that finds room joins them, and
  at that moment the commissions paid are below the limit (`CommissionsCounted`).

`LoyaltyProofs`, for any customers, orders, handlers, tiers and rates: `LoyaltyTypes`,
`LedgerIsChain`, `EventsCountOnce`, `RejectedEarnNothing`, from one invariant `LoyaltyInv`. The
first three need `Appended`, which says what one more entry does to the chain and to the keys.
The last needs two strengthenings: a handler that asks for the points of a purchase saw its order
approved (`TasksFit`), and an entry of a purchase belongs to an approved order
(`PurchasesApproved`), which no decision takes back. `LedgerAddsUp`: `StateIsLedger`, the totals
that are stored are sums over the ledger. It needs `RequestsSpendNothing`: points are redeemed by a
transaction of its own and never by a request that was computed earlier, so that what was spent and
the wallet move together.

`AdministrationProofs` has the theorems of three modules. `Fulfillment`, for any orders and
administrators: `FulfillmentTypes`, `HistoryIsTrue` from `HistoryInv` (a request that is about to
write an event finds the order decided as it will say, `ToldAsDecided`, since no order is decided
twice), `GoodsComeBack` and `ReservationsAddUp` from `ReservedInv`: at most the open orders' goods
are reserved, and exactly those unless some order freed its goods twice; the second needs the
first where the reservation is floored at zero.

`Settings`, for any threads, any life of a copy and any bound on the wait: `SettingsTypes`,
`StaleForTTLAndWait`. `StaleBounded` follows from two facts. A copy is older than it looks by a
wait at most (`CopyAlmostAsOldAsItLooks`). And what a thread is about to install or to keep was
in the table when its wait began (`EntriesReadBeforeWait`), although others write and time
passes between its two steps: a value replaced meanwhile lags by no more than `waited`. Two
lesser parts: a thread that looks into the copy finds one (`Loaded`), and the lag of the value in
the table is zero (`TableIsNow`).

`SupportProofs`, for any accounts, tickets, messages and handlers: `SupportTypes`,
`OwnerRemains` (`OwnerInv`: the copy always knows the owner, so no button that adds an account
was ever offered for theirs), `AnsweredTicketsClaimed` (`TicketInv`: a
handler that is about to answer finds its ticket claimed), `EveryMessagePushed` (`NotifierInv`:
what the notifier remembers lies below what it read, and what it read was pushed when it
remembers it).

`CatalogueProofs`, for any categories, products, runs and handlers: `CatalogueTypes`,
`WizardHasItsAnswers`, `NoForeignFiles`, `NothingLeftBehind`, from `CatalogueInv`: the files of
a conversation belong to its run or its product (`FilesOfWizard`), so do those a handler is
about to store (`Fitting`), and a number that was never given out has no product (`FreeIsNew`).

`Promotions` (in `AdministrationProofs`), for any codes, customers and handlers: `PromotionsTypes`,
`CodesWorthAsTyped`, `PointsForTheirCustomer`: the wizard knows what its question is about
(`WizardKnows`), and what a handler took from it belongs together (`CreatesAsTyped`).
`GiftsWithinRush`, for finitely many handlers: `GiftsLimited`. Its invariant `GiftsInv` counts
what a customer got together with the handlers that have passed the check and may still give
(`Spinning`, `Taking`), and says that who may spin got nothing in this cooldown, so that whenever
a handler passes the check the count begins at zero.

`ConversationProofs`, for any customers, orders, top-ups and handlers: `ConversationTypes`,
`ReceiptsHavePurpose`, `DecisionsStand`: an order has a customer exactly when it was placed
(`OrdersFit`), and a handler that is about to ask for a receipt holds an order of its customer's
(`TasksFit`), which nobody can take away.

Only model-checked: the liveness properties `EveryCallAnswered`, `HandlerAwards`,
`HandlerSettles` and `ReceiptArrives`, because the prover has neither `ENABLED` nor fairness. What a
recursive definition computes for every input would be out of reach too; the models have none.
The findings are refuted, and `NoCartLost` and `OneOrderPerKey` hold, and are proved, only where
there are no codes.

## 5. Findings

* `cart_lost`: with a code, a refused checkout leaves the customer without cart and order,
  because the claim of the cart was committed (`checkout.py:382`).
* `spun_twice`: two spins that overlap both pass the cooldown (`handlers_user.py:1325`), because
  the spin is recorded after the animation.

Seen while modelling, without a run of their own. Where a model contains the code in question
it follows it as it is, so that the properties above hold beside these facts.

*Orders and stock.* The default key of a checkout that succeeded is not found again, since the
cart is empty (`checkout.py:97`). Two pending orders of one digital product can both be approved
(`checkout.py:322`). A cancelled shipment whose order is then rejected gives its reservation back
twice (`database.py:3686`). `approve_order` resets the stage (`database.py:2088`) and a cancelled
order may be packed (`orders.py:103`). `commit_inventory` and the service's `SetInventory` have no
caller. `cb_order_approve` refuses an order whose first product has no files
(`handlers_admin.py:942`; also `handlers_bale.py:1307`).

*Points and money.* Orders paid by the wallet in the Mini App's cart or in the Bale bot never get
their points (`miniapp/server.py:876`, `handlers_bale.py:355`). The cancel button reverses the
points of an order that was approved after it looked (`handlers_user.py:786`). Two processes can
pay more commissions than `referral_commission_max_count` (`database.py:2671`; by how many is
`CommissionsNearLimit`). Two processes that serve two customers of one inviter at once can both give the inviter the
free product: its flag is read before the first write and set without a guard
(`database.py:2724`, `2762`), although the comment at line 2751 says once (no more often than
`FreeProductsWithinRush` says). A customer who follows two links at once may bring the bonus to the inviter
who is not recorded, and such a bonus escapes the limit, which counts recorded customers
(`database.py:2741`). A bot announces a
top-up as added that the panel has rejected (`handlers_admin.py:1116`). Two reasons sent quickly
apply a correction twice (`handlers_admin.py:1923`). `LOYALTY.md:33` promises the registration
bonus in the Mini App, which never awards it.

*Conversations and wizards.* `address_choices_kb` calls `get` on an `sqlite3.Row`, so choosing
among stored addresses raises (`handlers_user.py:549`, `database.py:3589`). A photo sent while a
text is awaited ends in the fallback for receipts (`handlers_user.py:1441`). `cb_admin_cancel_files`
reads the data after it cleared it (`handlers_admin.py:718`). `adm_files_done` pressed twice adds
a product twice. `/cancel` is taken for an answer inside wizards (`handlers_admin.py:2644`). Two
requests for a free sample both pass the check (`handlers_user.py:837`; no more than come at once,
`GiftsWithinRush`); `/api/sample/file` does not
look at `test_used`.

*Support and settings.* A copy of the settings counts as new from when it was put in place, not
from its SELECT, and the lock is given up in between (`database.py:963`), so a copy that looks
fresh may be older than its life by the wait for the lock. `api_ticket_reply` answers whoever holds the claim
(`admin_panel/server.py:1306`). A web administrator who holds a chat is never "online" in the bot, so
the next message reassigns it (`database.py:3070`, `admin_panel/server.py:1430`). Two administrators
may both see a conversation as free (`handlers_admin.py:2417`). The administrators' cache may be set
to `None` between its reload and its use (`database.py:1209`, `1219`), which raises. Toggles read and
write in two steps, so two of them may count as one; forms write settings one by one.

*Bale.* `create_topup` is called with arguments it does not have (`handlers_bale.py:842`), as are
several methods the database lacks (`545`, `1058`, `1198`); `reject_order` is awaited although it is
a plain function (`464`); data is cleared right after a code or an address was stored in it (`318`,
`455`); files of a pending order are delivered (`387`).

## 6. Not modelled

* *Arithmetic of prices*: percent, caps, rounding, variant prices and shipping costs are
  parameters with bounds (`PricingAssumption`); expiry dates of codes and prizes.
* *Variants, shipping methods, addresses, ratings, questions, renames*: single statements of SQL
  with nothing between them.
* *Corrections of a wallet in the panel* (`admin_panel/server.py:946-960`), which floor at zero
  and would make `CreditExplained` about them only.
* *Conversations of the Bale bot*, which are kept in memory and handled one after the other; what
  its handlers write to the tables is modelled.
* *Forced membership*, a question to Telegram before a customer's update; with it on, there is one
  more place where an update gives way (`force_join.py:68`), between aiogram's look at the state
  and the handler. `Conversation` and `Promotions` assume it off or answered.
* *Decisions on top-ups* are in `Wallet`, not in `Conversation`; the two share no variable.
* *Threads and files*: connections per thread, migrations, and `restore_backup`, which overwrites a
  file that may be open (`backup.py:123`); the two statements of the administrators' cache.
* *Everything that only shows*: keyboards, texts, calendar, lists, statistics, browser code, sessions
  and authentication. *Everything external*: push messages, delivery of files, the proxy.

What would be worth doing next: `Pricing` as operators checked against what the customer is shown
before the checkout; a second customer in the run of `Conversation`.
