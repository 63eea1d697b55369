# Kans shop: a TLA+ model of the server

Kans shop sells stationery through a Telegram bot and a web app. Both are thin
clients of one Python server (FastAPI and aiogram over SQLAlchemy) that keeps
everything that matters in PostgreSQL at READ COMMITTED with explicit row locks,
and short-lived things (dialogue state, login codes, counters) in Redis. This
directory models the parts of that server where several things happen at once
or one thing happens in several steps, checks them with TLC on small instances
and proves the properties that matter most with TLAPS.

Paths below are relative to the repository; `services/` stands for
`backend/app/services/`, `handlers/` for `backend/app/bot/handlers/`.

## Inventory

| Component | State | Operations | Interacts with | What is hard |
|---|---|---|---|---|
| Cart (`cart_service`, `cart_replay_service`, `purchase_locks`) | `cart_items`, `cart_mutations` | add, keyed add, set, remove, clear | locks the customer's row, then a product; emptied by checkout | a repeated addition; a cart that changes under a checkout |
| Checkout and quote (`purchase_service`, `checkout_quote`, `inventory_policy`) | `orders`, `order_items`, stock, `kans_order_seq` | quote, submit | reads catalog and settings, clears the cart, enqueues notices | stock under contention, prices that move after the quote, retries, roll-back |
| Checkout dialogue (`handlers/user/checkout.py`) | FSM state and data of a chat | every step, back, edit, receipt, summary, confirm | quotes and submits | buttons of old messages; two updates of one chat handled at once |
| Order lifecycle (`order_service`) | `orders.status`, history, stock | confirm, advance, cancel, mark paid | returns stock, enqueues notices | cancel against advance, pay, checkout |
| Writing about orders (`handlers/admin/orders.py`, `admin_order_service`) | FSM state and data, keyed messages | prompt, reason to cancel, message to the customer | order lifecycle, outbox | a text that meets another prompt's state |
| Card payment and receipts (`manual_payment_service`, `receipt_service`) | receipt columns, files in private storage, reviewer | upload, open, accept | order lock, administrator lock | a receipt replaced under review; a file stored, not committed |
| Receipt migration (`scripts/migrate_private_receipts.py`) | manifest, public and private files, receipt columns | dry run, apply, verify | live uploads, restores of a backup | dying between copy, commit and removal |
| Gateways (`payment_service`) | `payment_transactions`, `orders.payment_status` | Click Prepare/Complete, Payme Create/Perform/Cancel/Check | mark paid | webhooks duplicated, late, reordered, concurrent |
| Outbox (`notification_outbox_*`, `handlers/admin/orders.py`) | `notification_outbox`, `orders.admin_message_ids` | enqueue, claim, render, send, settle; the bot's own edits of a card | Telegram; every service that changes an order | at-least-once delivery, leases, a crash between send and acknowledgement, two writers of one card |
| Broadcasts: desk (`handlers/admin/broadcast.py`, `api/v1/admin/broadcasts.py`, `admin_broadcast_service`) | FSM data, drafts, keys | preview, draft, launch, cancel | team, customers | launching what nobody saw, or twice |
| Broadcasts: delivery (`broadcast_worker`) | `broadcasts`, `broadcast_recipients` | claim, check, send, record | Telegram, customers, staff | frozen audience, authority withdrawn midway, two workers counting |
| Row locks | PostgreSQL's lock table | what each transaction locks, in order | all of the above | deadlock, also through foreign keys |
| Catalog administration (`admin_catalog_service`, product forms) | categories, products, images, `edit_version` | create, move, edit, delete, galleries, stock corrections | checkout, cart | stale screens; cycles of the tree; counts and galleries |
| Store settings (`store_settings_service`, `handlers/admin/settings.py`, the panel's page) | settings, `settings_version`, FSM data | load, refresh, patch | quote, inventory policy | lost updates; values and versions read at different times |
| Team and sessions (`admin_team_service`, `admin_session_service`, `api/admin_security.py`) | `admins`, `auth_epoch`, sessions | add, change, remove, log in, log out everywhere | reviews, broadcasts, deliveries | the last superadmin; a session older than its epoch |
| Login codes (`admin_login_code_service`, `customer_auth_service`) | Redis keys | issue, consume, expire | sessions | four separate commands; digits that come back |
| Addresses (`address_service`) | `addresses` | create, change, default, delete | - | one default, at most twenty |
| First contacts (`user_registration`, `start.py`, `traffic_source_service`) | `users`, campaigns, clicks | register, click, attribute | every update | two first updates of one customer |
| Visitor statistics (`analytics_service`) | sessions, events | ingest a batch, attribute guest sessions, prune | sign-in | tabs that sign in at once |
| Marketing worker (`services/marketing/worker.py`) | `marketing_posts` | claim a day, render, post, record | Telegram | retries, lost answers, a second instance |
| Front door (`api/rate_limit.py`, `throttling.py`, `subscription.py`) | Redis counters, a remembered yes | count, ask Telegram, forget | every call | dying between two commands; answers remembered and forgotten |
| Pacing, catalog reading, reports, favorites, profile, geocoding, frontend, Alembic | - | - | - | not modelled, see below |

What makes each right:

* cart and checkout: nothing is sold that is not there; an order charges what
  its customer accepted for what it ships; one key buys once; transactions end;
* checkout dialogue: the order is what the last summary with its key showed;
* order lifecycle: a cancellation returns exactly what the order took;
* payments: an order is charged at most once, only while open, and only on
  evidence; what a gateway was told stays true; receipts are never lost, and
  once the migration is verified none is public;
* outbox and broadcasts: a settled row stays settled, every row settles, one
  lease sends at most once, nobody outside the confirmed audience is written to,
  and what is launched is what was previewed;
* administration: a superadmin remains, only those with authority change the
  team, a withdrawn session stays withdrawn; saves overwrite only what was
  seen; the catalogue holds together;
* the rest: one advert a day, campaigns add up, a session belongs to one
  customer, nobody is shut out for no reason, no circle of waiting transactions.

`PROJECT.json` lists every component with its status, and the hazards of this
code, each at its line with the properties aimed at it.

## Modules

| Module | Models | Checked by |
|---|---|---|
| `Purchase` | carts, quotes, checkout, cancellation, product forms, corrections, visibility, settings | `PurchaseContention`, `PurchaseQuote`, `PurchaseEnds` |
| `SalesLedger` | what `Purchase` promises: a shelf and a book of sales | refined by `Purchase` (`KeepsLedger`) |
| `Payments` | gateway callbacks, receipts, reviews, beside the order's own life | `Payments` |
| `Outbox` | the notification outbox, its workers, and the bot's own edits of a card | `OutboxLeases`, `OutboxCards`, `OutboxStaleCard` |
| `Broadcast` | launched broadcasts and their workers | `BroadcastWorkers`, `BroadcastStuck` |
| `RowLocks` | the lock programs of the transactions | `ShopFront`, `LocksSameCustomer` |
| `CheckoutDialogue` | the bot's checkout from the cart to the order | `ShopFront` |
| `Campaigns` | first contacts and campaign links | `ShopFront` |
| `Storefront` | batches of visitor events | `ShopFront` |
| `AddressBook` | a customer's addresses | `ShopFront` |
| `Promotion` | the daily advert | `ShopFront` |
| `FrontDoor` | limits and the channel gate | `ShopFront` |
| `AdminTeam` | the team and its sessions | `BackOffice` |
| `LoginCodes` | login codes in Redis | `BackOffice` |
| `Catalog` | categories, products, galleries | `BackOffice` |
| `StoreSettings` | screens of settings | `BackOffice` |
| `OrderDesk` | texts typed about orders | `BackOffice` |
| `BroadcastDesk` | how a broadcast comes to be launched | `BackOffice` |
| `ReceiptCutover` | the migration of receipts | `BackOffice` |
| `MC...` | instances for TLC | |
| `Induction` | facts about naturals, finite sets and iteration that the proofs cite | |
| `PurchaseProofs`, `PaymentsProofs`, `OutboxProofs`, `BroadcastProofs`, `BroadcastDeskProofs` | theorems about the module of that name, for all constants | |
| `ShopFrontProofs` | theorems about `AddressBook`, `FrontDoor`, `Campaigns`, `CheckoutDialogue`, `Storefront`, `Promotion`, `RowLocks` | |
| `BackOfficeProofs` | theorems about `AdminTeam`, `StoreSettings`, `LoginCodes`, `OrderDesk`, `Catalog`, `ReceiptCutover` | |

The components share the order, and each module keeps the columns of it that
its questions are about. `Purchase` has status, lines, terms and stock; payment
does not touch those except for confirming a new order. `Payments` has payment,
receipt and status. `Outbox` reduces an order to how far its status has come and
who paid it. `CheckoutDialogue` ends where `Purchase` begins, `BroadcastDesk` where
`Broadcast` does: the launch carries content, key and audience over. `RowLocks`
has the locks of all of them and nothing else, since a deadlock depends on
nothing else.

`MCShopFront` and `MCBackOffice` hold the small components together: a
variable `part` chooses one, and the others stay at rest. These components share
no variable, so their product would show nothing more than they do one by one;
one run over several keeps the number of instances small. Where components do
interact (cart, checkout, cancellation, forms and settings over one stock;
callbacks, reviews and deactivations over one order; order changes and
deliveries over one outbox; all transactions over one lock table) they are
actions of one module.

### How transactions become steps

A transaction sees what others have committed each time it reads, and keeps the
locks it takes until it ends. So a transaction is cut where it waits for a lock
or where it reads something that another transaction may change meanwhile; what
it writes appears at its commit. A transaction with nothing to wait for
(`AdjustStock`, `CancelOrder` in `Payments`) is one action. Locks are derived
from what open transactions hold (`UserFree`, `ProductFree`, `OrderFree`,
`TeamLockFree`, `OwnerFree`), not kept in a variable. A crash, a lost connection
and any exception roll back: the transaction disappears, and only a drawn order
number stays used, as `nextval` does not roll back.

A handler of the bot reads the FSM data, awaits, and writes; aiogram handles the
updates of one chat at the same time. So a handler that awaits between reading
and writing is two actions or more, and keeps what it has read in a record of its
own (`handler`, `tap`, `errand`). Every button ever shown can be tapped whenever the
chat is in its state. A Redis command, or a script, is one step; commands in a row
are as many.

### Purchase

`tx[w]` is the transaction of worker `w`. `BeginCheckout` is `lock_customer_cart`,
the replay lookup, the emptiness check and `get_inventory_policy`;
`LockForSale` one turn of the loop of `_lock_and_validate_products`;
`PriceCheckout` the second `quote_checkout`, the comparison with
`expected_quote` and the order number; `CommitCheckout` the inserts, stock and
sold counters, and the cleared cart. `ReplayCheckout` is the answer to a key that
already has an order. `sent` holds the requests clients have issued; as they
stay there, each may arrive again, any number of times. A quote, its
fingerprint and the terms an order keeps are one record: every one of its fields
is hashed, so equal fingerprints are equal records, under the assumption that
SHA-256 does not collide. `Terms` masks the settings that do not apply to the
order type or method, as `_quote_fingerprint` and `quote_checkout` do.

`Cancel` locks the order, then the products in ascending order, skips deleted
ones, and returns stock by the order's own `stock_deducted`. When all are locked it
inserts outbox rows, one of which refers to the customer: that is FOR KEY SHARE on
the customer's row, which waits while a transaction of that customer holds the row
for update (`CanTellCustomer`). A circle of waiting transactions can therefore
close (`Tangled`, `Circle`); the database fails one of them (`ResolveDeadlock`).
`CartOps` names the cart operations an instance has. `form` is what an
administrator's screen was loaded with; `SubmitForm` is refused when
`edit_version` moved. `AdjustStock` clamps at zero and compares no version, but
advances it. The history variables `answers` and `supplied` exist for properties only.

### Payments

`job[w]` is a callback between its first, unlocked look at the transaction and
the order's lock, an upload between the file and the commit, or an acceptance
between the administrator's row and the order's. `Found` is what
`get_by_provider_tx_id` returns, at most one row by the unique constraint;
`Latest` is `get_by_order_and_provider`. Signatures are taken as verified. `once`
remembers that a transaction completed when a refund has taken it back. The
gateways' half and the card half touch different orders, so `MCPayments` explores
each with the other at rest (`HalfSpec`).

### Outbox

An outbox row is named by what it is about, which is what its dedupe key says.
A lease is the pair of row and token; `attempts` serves as the token, as every
claim makes a new one. There is no clock: the lease of a worker that is gone can
be taken at any time, and that of a live worker too, as one of the bounded
faults. `face` is what was rendered, fixed when the rows were read; `chat` is what
administrators see.

The worker is not the only one who writes a card. `BackToOrder` is a button's
handler that reads the order (`on_back_to_order`, and the others that end in
`_render_order_card`), `RenderOrderCard` the edit it makes some awaits later, which may
fail; `AskForText` is a question put in the card's place
(`on_cancel_reason_selected`). `hand[h]` is what handler `h` is about to write, and
`overtaken`, a history variable, the writers whose reading is older than the latest
edit of their card. Two kinds of message also show an order and are not in
`chat`: those the order does not remember (a list of orders opened in the bot), which no
worker edits, and copies of which the worker never learnt that Telegram took them.

### Broadcast and BroadcastDesk

`Check` is `_check_live_delivery`, `Post` the send, `Count` and `Commit` the
transaction of `_mark_claim` and `_refresh_progress`, cut because it locks its own
recipient but not the broadcast, so that two of them overlap. A column is written
only when its value changed, as SQLAlchemy does (`Written`, `Progressed`).
`overrun` counts messages Telegram accepted after the broadcast had been stopped.
`Legacy` broadcasts were left in sending by a version that had no recipients'
rows; the first claim stops them (`Unaccounted`).

In `BroadcastDesk`, `promise[k]` is what the preview of key `k` showed. The chat's
previews, drafts and launches work on FSM data that another update may change
between the read and the launch; the panel drafts first and may repeat a launch.

### RowLocks

A transaction is the sequence of locks it takes: `FOR UPDATE` ("update"), `FOR NO
KEY UPDATE` ("write") and the `FOR KEY SHARE` ("share") that inserting a row takes
on each row its foreign keys refer to. `End` may come at any moment at which the
session is not waiting, which covers early returns and errors.

### CheckoutDialogue

`form` is the FSM data, `step` the state, `shown[k]` what the last summary with key
`k` said, `handler[h]` what a handler has read and what it is doing. Showing a summary
takes three steps: `BeginShow` reads the data, `QuoteSummary` asks for the quote, and
either `RequestReceipt` asks for a (new) receipt or `ShowSummary` writes the key. The
key is compared with, and reused from, the data read in the first step, and written
into whatever the data are in the last; two updates of one chat may do this at once.
`Confirm` is the first comparison with the data, `PlaceOrder` the submission with its
quote comparison and the attached receipt, `ReviewAgain` the way back to a summary
when something changed. Names, phones, addresses and comments are model values. A
read or an update of the FSM data is one step (what the storage makes of two
updates at the same moment is not modelled), and a summary counts as shown when its
key is written; its message follows.

### Administration

`AdminTeam`: a change is asked for by a handler that read its actor, decided under
the team's advisory lock and the rows it locks, and committed; a login and a
logout-everywhere read the administrator's row without a lock and write later.
`withdrawn` counts how often an administrator's sessions were withdrawn,
`overwritten` marks those whose epoch a stale logout set back. `Catalog`: every
write begins with one advisory lock, so a write is one action; what may be stale is
the screen (`desk`) it acts on. `StoreSettings`: settings are read in two
statements, version first. A page of the panel keeps both and saves all its values;
told of a conflict, its editor may take over the newest version and save the same
values (`RefreshPage`). The bot's list shows values and keeps no version; the button
of a setting reads again, keeps that version, and shows none of its values
(`ChooseSetting`, `AskValue`); the typed value is saved under the version the FSM
data had when the text's handler read them (`EnterValue`, then the save).
`Storefront`: a batch is the claim of its session's row, the rows of guest sessions
one by one, and the commit; `PruneEvents` removes old events, which stay counted,
`PruneSession`, much later, a session. `FrontDoor`: INCR and EXPIRE are two steps
but for the two counters kept by a script; `orphaned` holds the counters whose
EXPIRE died with its process. `LoginCodes`: four commands for an administrator's
code, one script for a customer's. `OrderDesk`: a button sets the state, then notes
the order, then asks, in three steps. `ReceiptCutover`: a run works entry by entry
through its manifest and may die after any file operation or commit.

### Mutants

Each module holds, next to some definitions, a variant marked *Mutant*: a
plausible bug of that place. No action uses them. Put in place of the
definition they are next to, each makes some property fail, which shows that
the property depends on the code it is about. `PROJECT.json` lists the pairs.

## Runs

Each run is a `.cfg` with its MC module (`tlc -config <run>.cfg <MC module>`).

| Run | Question | Bounds | States |
|---|---|---|---|
| `PurchaseContention` | stock under contention, as a refinement of the book of sales | 2 customers, 2 workers, the last unit of 1 product, tracking switched, deletion and status changes, 2 requests, 2 order numbers | 610 k |
| `PurchaseQuote` | retries, quotes, forms, the stock ledger | 1 customer, 2 workers, 2 units of 1 product, 2 settings, 3 form edits, a correction, hiding, 2 requests, 1 keyed addition, versions up to 2 | 1.5 M |
| `PurchaseEnds` | what a checkout relies on; termination | 2 customers, 2 workers, 2 products, deletion, 1 addition to a cart; preorders below the minimum amount; each may cancel while shopping | 132 k |
| `Payments` | gateways, receipts, reviews | a Click, a Payme and 2 card orders, 2 gateway ids, 2 amounts, 2 transactions, 2 files, 2 administrators, 2 workers | 1.1 M |
| `OutboxLeases` | leases, crashes, liveness | 1 order, 1 administrator, 2 workers, 2 faults | 68 k |
| `OutboxCards` | cards under status changes | 1 order, 1 administrator, 1 worker, 2 handlers of the bot, 2 status changes, no fault | 1.8 M |
| `OutboxStaleCard` | a card nobody updates | 1 order, 1 administrator, 1 worker, no fault | violated |
| `BroadcastWorkers` | audience, cancellation, progress, liveness | 1 broadcast, which may be an old one, 2 customers, 2 workers, 3 faults | 494 k |
| `BroadcastStuck` | a broadcast that never finishes | 2 customers, 2 workers, no fault | violated |
| `LocksSameCustomer` | deadlock with the order's own customer | 2 sessions, checkout and cancellation | violated |
| `ShopFront` | the customers' side, part by part | see below | 2.1 M |
| `BackOffice` | the administrators' side, part by part | see below | 1.3 M |

`ShopFront` in detail: lock programs with 3 sessions where shopper and owner
differ; a dialogue with 2 order types (delivery paid by card, preorder paid in
cash: cash for deliveries, too, made the run too long, and the theorem has every
method), 2 tariffs, 2 handlers at once,
2 summaries, 1 change of cart or tariff, 2 passes through the form; 2 visits at
once of 2 people with 2 campaign links; 2 batches at once of 2 tabs in 2 browsers
with 2 customers; 2 requests at once over 3 addresses with a limit of 2; 2
marketing workers over 2 days with 3 attempts; 2 calls of 3 kinds with 1 allowed
per window.

`BackOffice` in detail: 3 administrators, 2 of them superadmins, 2 changes at once,
1 session, 2 withdrawals; 3 categories, 1 product, 2 images, 2 editors; 2 owners and
2 customers over 2 codes, 2 issues at once; 2 errands at once, 2 prompts, 2 texts; 2
orders with 3 files and 2 runs of the migration; a page of the panel and a chat over
2 settings of 2 values, up to version 2; 2 previews, 1 draft, 2 taps at once.

The MC modules leave out what adds states but no case. `MCPayments`: a gateway's order
is new, confirmed or cancelled, since a callback looks only at whether it is open; a
card order has every status. `MCBackOffice`: at most one category is hidden and one
product form open at a time; one administrator at a time is in the cooldown of a
requested code; of two orders that are alike the first prompt, and the lower key
before the migration, are the first one's; and after a first preview the dialogue of a broadcast
is not led through caption and link once more. `MCPurchase`: one of the form edits
changes price and stock together. The theorems have none of these bounds.

Why the bounds are enough to be interesting: one scarce product and two
transactions are the smallest setting in which stock, a replay and a
cancellation can conflict; two products the smallest in which lock order
matters and in which two checkouts draw numbers at once; two ids of one gateway
the smallest in which an order could be charged twice. A product form, a
correction and one sale fit under version 2. Every hazard of the dialogues is
one handler that overtakes another, or one old button, so two handlers and two
keys suffice; two passes let answers of an earlier pass survive. Three
administrators are the least with two superadmins and somebody to promote; three
categories the least with a cycle that is not a pair. Three sessions allow a
circle of locks that is not a pair, which two transactions at once cannot show.
`MaxSent`, `MaxOrders`, `MaxVersion`, `MaxCartEdits`, `MaxTx`, `MaxObjects`,
`MaxSteps`, `MaxFaults`, `MaxKeys`, `MaxChanges`, `MaxPasses`, `MaxAttempts`,
`LastDay`, `MaxVisits`, `MaxEvents`, `MaxWithdrawals`, `MaxPrompts`, `MaxFiles`,
`MaxPreviews` and `MaxDrafts` bound what would grow without end; each bounds how
much happens, not in which order. `NumbersLeft` applies `MaxOrders` where a
checkout begins, so that the bound cannot leave a transaction hanging. Workers,
customers, administrators, gateway ids and the like are symmetric where no
property under test is a liveness property. (`MaxAttempts` is the code's own
limit, as are `BatchSize`, `Limit` and `Allowed`, scaled down.)

`CHECK_DEADLOCK FALSE` is set where the bounds let the system come to rest with
nothing more to do (`Outbox`, `Broadcast`, `ShopFront`, `BackOffice`).

### Properties

* `StockLedger`: shelf plus live orders equals everything supplied, through
  sales, cancellations, corrections and forms.
* `KeepsLedger`: every step of `Purchase` is a step of `SalesLedger` or none. The
  ledger sells in one step, at most once per key, what the buyer accepted, from
  what is on the shelf; it returns units at most once, and only if they were
  counted off.
* `OneOrderPerKey`, `AnswersAgree`, `AddOncePerKey`: retries.
* `QuoteHonoured`: what is charged is what was accepted, and for exactly the lines
  the order took, although the two come from different reads of the cart.
* `CheckoutSound`: what a checkout has read stays true until it commits.
  `OnlyOwnCircles`: a circle of waiting transactions always holds a checkout or
  cart change of a customer and the cancellation of an order of that same customer.
  `TransactionsEnd`: each transaction commits or rolls back.
* `ChargedOnce`, `ConfirmedStands`, `PaidHasEvidence`, `ChargedWhileOpen`,
  `SettledStands`: payments, across refunds; `ReceiptsStored`: uploads that die.
* `OneSendPerLease`, `SettledForGood`, `AllSettle`: the outbox. `NeverBack`: a card
  goes back to an older state only by an edit whose author read the order before the
  edit it undoes was made.
* `AudienceAsConfirmed`, `StopsSending`, `ProgressHonest`, `EveryRowSettles`:
  broadcasts; `LaunchedAsShown`: their desk.
* `NoDeadlock`: locks.
* `ShownIsOrdered`: the checkout dialogue, with overlapping summaries.
  `OnePerPrompt`: the order desk.
* `CampaignsAddUp`, `SessionsStand`, `AddressesInOrder`, `OneAdvertADay`,
  `NobodyShutOut`: the smaller parts of the customers' side.
* `SuperadminRemains`, `ActsWithAuthority`, `WithdrawnStaysOut`, `NewestCodeWorks`,
  `SavedAsSeen`, `CatalogConsistent`: administration.
* `ReceiptsKept`, `VerifiedIsPrivate`: the receipt migration.

Several hold with an exception that is part of the property and that the code
does have: `OneAdvertADay` admits a second advert after a lost answer, a crash
between sending and recording, or a rendering overtaken after half an hour;
`WithdrawnStaysOut` excludes an administrator whose epoch a stale logout set back;
`OnePerPrompt` excludes prompts that another update of the chat overlapped;
`NeverBack` admits an edit by somebody who read the order before the edit it undoes;
`SavedAsSeen` admits a save between the bot's list and the tap on its button, and
the panel's editor who goes on after a conflict; `NobodyShutOut` admits a limit whose
process died between INCR and EXPIRE. The
exceptions are explained below.

### Fairness

`PurchaseEnds` assumes strong fairness of a worker's next step (`Proceed`): a
process goes on with the transaction it has open, and PostgreSQL queues lock
requests, so that a waiting one is not passed over for ever. It also assumes weak
fairness of `ResolveDeadlock`: PostgreSQL's detector fails a transaction of every
circle. Beginning a
transaction and every client or administrator action are not fair. The outbox
and broadcast loops poll for ever inside the server's lifespan, which is weak
fairness of `Deliver`; faults are bounded, so a behaviour has finitely many
crashes, refusals and late leases, as "eventually" needs. The other modules
have no liveness property: what they wait for is a person.

### What does not hold

* `CardsInSync` (`OutboxStaleCard`). A status change queues card updates for the
  administrators in `admin_message_ids`. A card that has been rendered but whose
  id is not yet saved is not among them, and stays as it was rendered.
* `NeverStuck` (`BroadcastStuck`). The two workers that record the last two
  recipients each count the other's as open. Whoever counts next would finish
  the broadcast, but nobody does. One API process runs one worker, so this needs
  two processes, which the design document provides for.
* `NoDeadlock` when customer and owner are the same (`LocksSameCustomer`). The
  outbox insert of a cancellation takes a key-share lock on the customer's row
  after the products, against the order "user, cart, products". PostgreSQL
  resolves the circle by failing one request, which can be repeated.

Notes taken while modelling, of what the models show or the code does at the
edges. None of them is a finding of a run.

* Deliveries. A worker beside a handler of the bot, two handlers, or two workers can
  edit a card back to an older state (`handlers/admin/orders.py:389`,
  `notification_outbox_worker.py:581`): the slower one writes what it read before.
  `NeverBack` says that this is the only way. A broadcast recipient that is
  to be retried goes back to pending even if the broadcast was cancelled
  meanwhile, and stays there (`broadcast_worker.py:463`); a cancellation that
  commits between the count and the commit of the last outcome is overwritten by
  "completed".
* Gateways. A second identical Payme Create that arrives while the first is
  uncommitted is answered with an error once (`payment_service.py:546`); Payme's
  refund leaves the order paid, as the code documents.
* Checkout dialogue. A receipt left from an earlier pass with card payment makes
  `on_confirm` attach it to an order paid in cash, which is refused by an exception
  nobody catches: the order is rolled back and the dialogue stays. Editing to a
  preorder after card or online keeps the method, and the summary then has no
  confirm button. A receipt sent for one total is accepted with an older summary
  of another total if prices have returned to the older ones. A summary that was being
  prepared while the customer left writes its key into the cleared data; a later
  identical order then reuses the key, and is answered with the first one.
* Settings. The bot's list shows the values without their version; the button reads a
  newer version and shows none of its values (`handlers/admin/settings.py:53,82`). So a
  save between the list and the tap is overwritten unseen. The panel keeps its values
  when its editor takes over the latest version after a conflict
  (`docs/superpowers/specs/2026-10-09-kans-shop-web-admin-design.md:139`).
* Order desk. `on_custom_cancel_reason` does not catch `OrderAlreadyProcessedError`,
  nor `on_customer_message_entered` `IdempotencyConflictError`; the state is then not
  cleared. Overlapping taps, or a tap while a text waits, can make a text act on
  another order, or for another purpose, than its prompt said.
* Broadcast desk. Buttons carry only their action, so the launch button of an
  older preview launches the newest one. `BroadcastAlreadyLaunchedError` and
  `BroadcastValidationError` are not caught by `on_broadcast_send`; an answer that
  fails after `state.clear` rolls the launch back with the dialogue gone.
* Team. Two codes issued at once for one administrator are both live, although
  `admin_login_code_service.py:5` says otherwise. A logout from all devices writes
  the epoch it read plus one (`admin_session_service.py:169`), so one that overlaps
  another withdrawal can set it back. A request that writes its own session row and a
  team change that revokes it can wait for each other (`admin_team_service.py:299`).
* Marketing. A crash after sending, a lost answer, or a rendering of more than
  thirty minutes publishes a day twice, although the docstring of `worker.py`
  excludes it; a late failure overwrites "sent" with "failed".
* Limits. Where INCR and EXPIRE are two commands (`rate_limit.py:56`,
  `throttling.py`), a process that dies between them leaves a counter that never
  expires; the two counters of codes use a script, but a sign-in passes the general
  counter first, which does not. A yes of Telegram asked for before
  a customer left can be remembered after another update forgot it.
* Visitors. The first update of a customer is lost when two first contacts race,
  or when the notice of every fifth new user fails; a customer first seen by the web
  app gets no campaign. Batches that are sent again are counted again. Batches of two
  tabs can deadlock at sign-in, and one then fails.
* Migration. `restore_media --receipts` (`docs/DEPLOY.md:136`) puts receipts back
  into the public directory after a verified cutover; verification against a
  manifest cannot succeed any more once a customer has replaced a listed receipt.
* Addresses. Deleting the default leaves none default.

## Proofs

All theorems hold for every value of the constants, under the named assumptions of
the module they are about. One names a condition more: `LocksClimb` is about shoppers
who own none of the orders that are worked on (`ShoppersApart`). Without it the code
does not have the property, as `LocksSameCustomer` shows.

| Module | Theorem | States |
|---|---|---|
| `PurchaseProofs` | `TypeCorrect` | `Spec => []TypeOK` |
| | `MutualExclusion` | `Spec => []LocksExclusive` |
| | `LocksSuffice` | `Spec => []CheckoutSound` |
| | `ReturnsSuffice` | `Spec => []ReturnsSound` |
| | `NeverOversold` | `Spec => []StockNeverNegative` |
| | `NumbersUnique` | `Spec => []NumbersFresh` |
| | `BuysOnce` | `Spec => []OneOrderPerKey` |
| | `RepliesAgree` | `Spec => []AnswersAgree` |
| | `ChargedAsAccepted` | `Spec => []QuoteHonoured` |
| | `UnitsAccounted` | `Spec => []StockLedger` |
| | `AddsOnce` | `Spec => AddOncePerKey` |
| | `PurchaseKeepsLedger` | `Spec => KeepsLedger` (implements `SalesLedger`) |
| `PaymentsProofs` | `TypeCorrect` | `Spec => []TypeOK` |
| | `NeverChargedTwice` | `Spec => []ChargedOnce` |
| | `PaymentsHaveEvidence` | `Spec => []PaidHasEvidence` |
| | `ReceiptsAreStored` | `Spec => []ReceiptsStored` |
| | `OnlyOpenOrdersAreCharged` | `Spec => ChargedWhileOpen` |
| | `ReviewersMayReview` | `Spec => ReviewerActive` |
| | `AnswersStand` | `Spec => []ConfirmedStands` |
| | `PaymeOnePending` | `Spec => []OnePending` |
| | `SettlementsStand` | `Spec => SettledStands` |
| `OutboxProofs` | `OutboxTypes` | `Spec => []TypeOK` |
| | `ExtraCopiesAreFaults` | `Spec => []OneSendPerLease` |
| | `SettledStay` | `Spec => SettledForGood` |
| | `CardsNeverGoBack` | `Spec => NeverBack` |
| `BroadcastProofs` | `BroadcastTypes` | `Spec => []TypeOK` |
| | `OnlyTheAudience` | `Spec => []AudienceAsConfirmed` |
| | `SettledRowsStay` | `Spec => SettledForGood` |
| | `SendingStops` | `Spec => []StopsSending` |
| | `ProgressTrue` | `Spec => []ProgressHonest` |
| `BroadcastDeskProofs` | `LaunchesAsShown` | `BroadcastDeskSpec => []LaunchedAsShown` |
| `BackOfficeProofs` | `OneSuperadminStays` | `TeamSpec => []SuperadminRemains` |
| | `ChangesHaveAuthority` | `TeamSpec => ActsWithAuthority` |
| | `WithdrawnSessionsStayOut` | `TeamSpec => []WithdrawnStaysOut` |
| | `SavesAreInformed` | `SettingsSpec => SavedAsSeen` |
| | `DeliveredCodesWork` | `CodesSpec => []NewestCodeWorks` |
| | `PromptsAnsweredOnce` | `DeskSpec => []OnePerPrompt` |
| | `CatalogHolds` | `CatalogSpec => []CatalogConsistent` |
| | `ReceiptsStay` | `CutoverSpec => ReceiptsKept` |
| | `VerifyMeansPrivate` | `CutoverSpec => VerifiedIsPrivate` |
| `ShopFrontProofs` | `AddressesStayInOrder` | `BookSpec => []AddressesInOrder` |
| | `NobodyIsShutOut` | `DoorSpec => []NobodyShutOut` |
| | `CampaignsCounted` | `CampaignsSpec => CampaignsAddUp` |
| | `OrderedAsShown` | `DialogueSpec => ShownIsOrdered` |
| | `SessionsBelong` | `StorefrontSpec => SessionsStand` |
| | `AdvertsBounded` | `PromotionSpec => []OneAdvertADay` |
| | `LocksClimb` | `Spec => []NoDeadlock`, if `ShoppersApart` |

`StockNeverNegative`, `LocksExclusive`, `ReturnsSound`, `NumbersFresh`, `OnePending`,
`ReviewerActive` and the type invariants are not in a run: they are proved.

The theorems of a composed run are about the components' own specifications. The
assumptions on constants say that sentinels are no values, that bounds are
naturals, and that what the code keeps in tables is finite. `CutoverAssumption`
also says what the migration starts from: a receipt that is not private yet is, in
public and at Telegram, what the customer sent.

`PurchaseProofs`. `TypeOK` is inductive once it says that a drawn number is an
order id and that a cancellation's order exists. `LocksExclusive` is inductive with
it: every action that adds a holder has the matching `Free` as a guard.
`StockNeverNegative` is not: `CommitCheckout` subtracts what was read several
steps before. What it needs is `CheckoutSound`: for the products a checkout holds,
stock still covers the quantity and the price is the one read. That is preserved
because whoever else writes a product needs its lock (`LocksExclusive`), and the
cart of a checkout is stable because cart writes need the customer's. The one
writer that takes no customer lock is the deletion of a product, which removes it
from carts; so the invariant says that a line is still there *or* its product is
gone, and a product held by a checkout cannot be deleted. At `PriceCheckout` all
products are held, so the second read of the cart equals the first, which gives
`QuoteHonoured` at the commit. `CheckoutSound` also carries that the key of an
unfinished checkout has bought nothing, from which `OneOrderPerKey` and
`AnswersAgree` follow at the commit, and `NumbersFresh` gives that the commit
overwrites no order.

`StockLedger` sums over orders; a step changes the row of one order, and the sum by
the change of its share (`UnitsChange`). That the commit of a cancellation returns
exactly what its order took is `ReturnsSound`: the order can still be cancelled, and
each of its products that exists is locked or will be. With `CheckoutSound`,
`NumbersFresh` and these, every step maps to one of the ledger's (`PurchaseKeepsLedger`):
the commit of a checkout is `Sell`, of a cancellation `Return`, the end of an order
`Close`, a form or correction `Count`, a deletion `Withdraw`, and the rest stutters.
`AddOncePerKey` rests on the keys of additions under way being unused (`KeysUnused`),
as each holds its customer, whom any other use of the key would need.

`PaymentsProofs`. Many callbacks do nothing to an order, so the proof first sorts
the steps by their effect (`StepShape`): a step is quiet, charges an order
(`Pays`, common to Click and Payme), belongs to a card transfer, or moves a status.
`ChargedOnce` is inductive together with `PaidHasEvidence`: a charge needs an
unpaid order, and an order with a completed transaction is paid, although the
transaction may have been refunded since. That paid stays paid has one threat,
the second half of an upload, which writes the payment column without looking at
it; `UploadSound` answers it (the order waits unpaid for a card transfer while
the upload holds its lock, and the file belongs to that upload alone). That an
acceptance is of the receipt the order refers to needs `ScreensSound`: a screen
that carries the order's version and shows a receipt shows the current one.
`ReviewerActive` has its own invariant, that the administrator of a review in
progress is active, which deactivation preserves because it needs the row.
The table of transactions is sorted the same way (`TableShape`) and has the
invariant `TableInv`: a row says how it was settled, a gateway's id names one row,
and a pending Payme row is the newest of its order, which is why looking at the
newest row alone is enough before a second one is opened.

`OutboxProofs` and `BroadcastProofs` have the same core. `OneSendPerLease` is not
inductive: that a row has been sent no more often than claimed says nothing about
the claims that can still send. `SendInv` therefore tells leases apart
(`LeasesApart`: a lease is of one worker, and its token is one that was given out),
and counts the tokens that can send no more (`Spent`): a message was accepted at
most as often as there are spent tokens (`SendsCounted`). A claim adds a token
that is not spent, a send moves exactly its own token to the spent ones, a crash
or refusal only spends. In the outbox `ClaimsOwed` adds that a row free to be claimed
has been claimed no more often than faults happened, because only a fault gives a
row back; so every copy beyond the first is owed to one. In `Broadcast`,
`RowsAgreed` says that rows exist only for the confirmed audience, and
`OutcomesTrue` that a worker about to record "sent" was answered by Telegram.
`SettledForGood` follows step by step: claims take rows that are pending or
sending, and whoever settles compares status and token first. (`OutboxLeases`
checks the outbox's `SettledForGood`, the broadcast's is proved only.)

`NeverBack` needs `CardInv`: what a card shows was true of its order once
(`CardsWereTrue`), and so is what a worker or a handler is about to write
(`WorkersRight`, `HandsRight`); and who is about to edit a card, and was not
overtaken, has read nothing older than the card shows (`Ahead`). An edit puts every
other editor of that card among the overtaken, and a reading takes its reader out.
`StopsSending`: the workers that have checked a broadcast may each still send once,
and after it stops no worker checks it again; so `StopInv` bounds what was sent too
late together with the workers that still may. `ProgressHonest`: `HonestInv` says
that the numbers a broadcast shows, and those a worker has counted but not
committed, are borne out by the rows, with the worker's own outcome written in. Rows
only move on (`Onward`), so what bore a count out goes on doing so; a count that is
old is too small, never too large.

`BroadcastDeskProofs`. A key goes with what its preview showed, through the FSM
data, every copy a handler keeps while it awaits, and every request of the panel
(`ChatKeys`, `PanelKeys`); chat and panel never have a key in common; and a handler
that is about to launch is the only one, as it holds the administrator's row.

`BackOfficeProofs`. Team: what is decided stays allowed until its commit because only one
change is decided at a time (`DecisionsStand`), which is what the team lock is
for; replacing it by locks on the rows involved is a mutant, as two superadmins
could then demote each other. `EpochInv` says that epochs count withdrawals,
as they are and as every session and pending login read them, unless a stale
logout has overwritten one.

Settings: `ScreensTrail` says of everything that carries a version, a page, a list, a
tap, a prompt, a text being handled, that the version is no later than the
current one; that where it is the current one, what stood with it still stands; and
that values read later are those of the current version too. This is so because the
version is read first and every save advances it. Codes: a delivered
code names its owner while nothing is being issued to that owner, and an issue for
somebody else takes only digits that are free and drops only a code that is theirs.
Order desk: a prompt that nothing overlapped is the one the chat shows, its state and
noted order are those it announced, and what it has done cannot be done again: the
order is closed, or the message has its row (`DeskInv`). Catalogue: `CatalogInv` adds
that parents exist, that a picture is of a product that exists and that a screen
which is not old shows a row. That the walk of `_check_parent_change` visits all
ancestors, and the search for public categories all they lead to, is that both
reach their fixed point in as many steps as there are categories (`Closure`); that
no category is above itself then says that moving one below a category that is not
among its descendants closes no circle. Pictures are numbered by their rank (`Ranks`).
Migration: `CutoverInv` says that an order's row leads to what its customer sent, that
an entry of a manifest names that too as long as its row has no private key, and
where a run is: the row locked and without a key while the file is copied, the file
there before the key, the key there before the public file goes.

`ShopFrontProofs`. Addresses: what a request saw under its customer's lock is still
there when it writes. Front door: while a customer is outside, every call under way
knows it (`AwayIsKnown`); one kept by a script has an expiry; a counter that is not
zero has an expiry, or a call that is about to set it, or lost that call
(`LimitsEnd`). Campaigns: a visit past its first step holds its customer, and has
written no campaign before its click is counted. Dialogue: `DialogueInv` says that
the data of a chat are grounded, as they are and as every handler has read them: a
key names the summary that was shown with the request noted beside it, unless it is
ordered, and a receipt answered the request noted as `paymentQuote`. A key drawn
from old data is new or names the same request, so a late summary changes nothing
that an older copy relies on. Visitors: a session's row is locked by one batch,
which attributes only sessions that are guests of its browser and stay so while they
are locked; the events that are left of a session are no more than it has counted.
Adverts: every advert, and every rendering that may yet send one, has used up an
attempt (`AttemptsCover`); a day without a mishap belongs to the one worker at it.
Locks: rows are given rungs (`Rung`: advisory lock, administrators, orders, the
customer who shops, the cart, products by id, owners of orders), every program is a
ladder (`Ladder`), and a circle of waiting sessions would have a highest rung below
another one of its own. Key-share locks on administrators, taken in any order,
conflict with no lock that is held while waiting.

`Induction`. The library's induction theorems take a predicate, which the provers
here cannot instantiate. This module states them for sets instead (the numbers or
the subsets with a property): a set of naturals has a least member, what zero has
and each number passes on all have, what a finite set is grown to, iteration of a
function, its fixed point, and ranks in a finite order. All rest on one fact of
the library, that the order of the naturals is well-founded. Recursive functions of
the models are then known to exist, and to be what their equations say.

Only model-checked: liveness (`TransactionsEnd`, `AllSettle`, `EveryRowSettles`), as the
prover does not handle fairness and `ENABLED`; and the counterexamples of the three
runs that end in a violation. Every safety property of the other runs is proved.

## Not modelled

* Formatting, texts, keyboards, HTTP validation, file type checks, encodings;
  signatures and credentials of the gateways; money as fixed-point decimals (the
  models use small integers, so rounding is out of view).
* Pacing (`telegram_pacing_service.py`): one atomic Lua script; a model would
  restate it. Geocoding: external calls without state. Catalog reading: queries,
  and a view counter that is read and written without a lock, so that concurrent
  views are lost, and that nothing depends on. Reports and statistics: aggregates
  in SQL. Favorites and profile: single rows of one customer. Alembic revisions:
  applied once, in order. The rendering of adverts: pictures and video.
* The frontend: what a web client can send, and send again, is an action of
  `Purchase`, `AddressBook`, `Storefront` and `BroadcastDesk`; what it keeps in the
  browser (its own attempt and recovery records) is not modelled.
* In `Catalog`: slugs, texts and prices, version numbers (a screen is current or
  stale), image files that a roll-back leaves behind. In `CheckoutDialogue`: a
  read or an update of the FSM data is one step. In `BroadcastDesk`: the file of a photo. In
  `Broadcast`: the authority of one administrator. In `Storefront`: the fields of an
  event, robots and clock offsets. In `RowLocks`: the rows of `orders` and history
  that removing an administrator sets to NULL.

## Plan

1. Done: the purchase, payment, outbox and broadcast cores, the locks, and the
   administration and customer modules listed above; a theorem for every safety
   property that a run checks, and the refinement of `SalesLedger`.
2. Next: the team's transactions in `RowLocks` with the rows of orders and history,
   and the browser's recovery records in front of `Purchase`.
3. Abstract specifications worth stating besides `SalesLedger`: a payment that is
   open, paid or refunded, implemented by `Payments`; a queue that delivers at
   least once, implemented by `Outbox` and by `Broadcast`. Their step simulations
   would follow from `StepShape`, `TableShape` and `SendInv`.
