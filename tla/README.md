# Mizan Commerce: a TLA+ model of the back end and of the screens

Mizan Commerce is a SaaS for small shops. A Next.js front end, used from several
phones and tabs at once, talks to a Django / PostgreSQL back end; Celery runs
periodic tasks, Stripe bills the shops, and a stateless `ai-service` reads photos
of supplier invoices and products. What is hard in this program is not any single
computation. In the back end, several devices, background tasks and webhooks change
the same few rows, each handler chooses by itself what it locks and what it merely
reads, and PostgreSQL runs all of it at READ COMMITTED. In the front end, everything
is a promise: what is typed is saved later, what is shown was read before, an answer
comes when its sheet is closed, its page left or its line removed.

This directory holds the specifications of the parts where that matters, the TLC
models that check them on small instances and the TLAPS proofs that hold for every
size. Paths are relative to `apps/backend/apps` when they end in `.py` and to
`apps/frontend` otherwise.

## 1. Inventory

For each part: the state it keeps, its operations, what it meets, what is hard and
what makes it correct.

### Back end

**Stock movements** (`stock`). The movements (`StockMovement`, append-only) and, on
each variant, the cached `stock_quantity`. Entry, manual exit, inventory count of
several lines, reservation and release on behalf of an order; each line goes through
`create_movement`: row lock on the variant, check, INSERT, then
`StockMovement.save` sums all the movements and rewrites the cache. Meets orders,
supplier invoices and the product sheets, which save the same row. *Hard*: lines
lock their variants in the order they were sent; a count computes a difference from
a stock that others change; one line of several may be refused. *Correct when* the
cache is the sum of the movements, a request applies whole or not at all, an exit
never takes what is not there, nothing blocks for ever.

**Orders** (`orders`). Status, totals, payment, `stock_reserved`, lines, number,
history of the statuses. Create, change the lines, the status, the payment, the
header. *Hard*: three handlers read the order without a lock; the header edit saves
every column it has read, in three statements that are not one transaction; the
number comes from a string comparison and a lock that does not always exist.
*Correct when* lines hold exactly the stock they should, totals follow the lines,
the invoice follows payments and cancellations, a month has no more orders than the
plan allows.

**Invoices** (`invoices`). Documents, their lines and frozen totals, the counter
`InvoiceSequence`, the version of a draft. *Hard*: no gap in the numbers although a
request may fail after taking one; a save, a deletion and an issue of one draft
cross; two devices bill one order; four kinds of row lock are held at once, the shop's
being shared with whoever inserts a row of the shop. *Correct when* numbers
are 1, 2, 3..., an issued document is complete, right and frozen, an order is billed
once, no save is lost. `pdf.py`, `preview.py` and the style only render.

**Products and customers** (`products`, `customers`). Products, variants, suppliers;
customers with counters computed from their orders. *Hard*: the sheet of a variant
saves the whole row, its cached stock included; deletion as "unused" races the
creation of an order.

**Subscriptions** (`subscriptions`). One local row per shop, the Stripe events seen,
Stripe's own subscription. Trial and its end, checkout, change of plan with its
amount shown first, cancellation, webhooks, nightly reconciliation, staged notices
of unpaid arrears, the limits of a plan. *Hard*: events come late, twice or
concurrently; Stripe is read before the local row is locked; the trial task decides
from a row read without a lock; an amount is shown, then confirmed minutes later; a
notice is claimed before it is sent. *Correct when* the row ends up in step with
Stripe, what is charged is what was shown, a message is sent once.

**OCR** (`ocr`, `apps/ai-service`, `components/stock/entry`). Documents, analyses and
their status, the month's counts of paid scans. A photo of a supplier's invoice is
stored, read by a worker, polled by its page, checked and recorded into the stock; a
scan of a package proposes the fields of a product. *Hard*: a message comes twice, a
worker dies with an analysis in progress; the lines of an invoice are sent again after
an answer was lost, or from elsewhere; a slot is reserved before a paid call, given
back when it fails, perhaps in another month. *Correct when* an invoice enters the
stock once, as it was shown; the slots a month has taken are the calls whose answer was
of use, those under way and those a kill cut off.

**The smaller parts.** `notes` (reminders, a daily summary), `loyalty` (points moved
by conditional updates), `zakat` (versioned calculations, follow-ups), `shops`
(settings, members, logo), `accounts` (sign-up, sessions, lockout), `public_pages`,
and `comms`, `exports`, `core`.

### Front end

**Session** (`lib/refresh-flights.ts`, `lib/server-session.ts`, `app/api`). Two
cookies in the browser, a table of refreshes under way in the Next.js process, a
blacklist in the back end, which accepts a refresh token once. *Hard*: requests sent
together present the same token; an answer may erase cookies a newer one has set.
*Correct when* a user is signed out only for a reason, a page
loaded more than an hour after the last renewal being one.

**Invoice editor** (`components/invoices/editor`). A draft saved 800 ms after the
last key, by chained requests that carry a version; issuing, deleting and leaving
flush first. *Hard*: keys typed while a save runs, two tabs on one draft, a blank
form whose creation has not answered. *Correct when* nothing typed is lost unsaid,
nothing is overwritten unseen, a blank form makes one draft.

**Queries and their cache** (`lib/hooks`, `lib/query-keys.ts`). What the screens
read, kept for a minute; each write names the keys it has read again. *Hard*: a
write must name every key that shows what it changed, and an answer read before a
write may come after it. *Correct when* a browser never shows as fresh what it has
itself made stale.

**Forms over data that is read again** (`components/form`, the settings, the
profile, the identity of the public page). *Correct when* what is typed survives
every reading, answer and failure.

**Zakat autosave** (`components/zakat`). A versioned sheet and unversioned settings,
each saved while it is filled, merging what fails under what was typed since.
*Correct when* the last edit of each field is stored and no edit conflicts with
another of the same page.

**Edition of a sale** (`useOrderEditSave.ts` and the hooks of the form). A draft of
the lines, saved by one call per difference, any of which may fail. *Correct when* a
save that ends leaves the order selling what the draft did.

**Quick preferences** (`useAccountTheme.ts`, `useMe.ts`, `useReminders.ts`).
Applied at once, saved behind in order, put back on failure. *Correct when* the last
choice wins.

**Sheets, dialogs and pages that send once** (51 of them, from `PaymentBottomSheet`
to the reset of a password). Opened, filled, sent, closed by their answer, by the
user or by a navigation. *Hard*: closed and opened again while sending, sent again
after a lost answer. *Correct when* a content is recorded once and a form is ended by
its own answer.

**Lists** (`lib/hooks/useListUrlState.ts` and every list). Search, filters, sort and
page in the URL; a search waits 300 ms, a navigation is under way, Back meets both.
*Correct when* the list ends on what was asked, step by step.

**What screens say of their queries** (every panel that reads one). Waiting, failed,
empty, data. *Correct when* nothing is said to be empty that may not be, and no
skeleton stays for ever.

**Lists of lines** (sales, supplier invoices, catalogues, zakat sheets, members...).
Lines added, changed, removed and asked about, in rows, sheets and late answers.
*Correct when* a gesture changes the line it was made on.

**Page of an order** (`components/orders/detail`). Three queries read apart, a copy
of the back end's table of statuses, sheets that stay open while the order moves, the
steps drawn from the history. *Correct when* what it offers the back end accepts, and
the steps drawn are the order's life.

**Subscription page** (`app/(app)/settings/subscription`). What it offers, a preview
with its amount, a confirmation, checkout and its return. *Correct when* what is
offered is accepted and what is paid was shown.

**The rest** (formatting, layout, public shop, marketing pages) displays what it is
given.

### How they meet

A screen reaches the back end through the session's proxy; its answer goes to the
cache, from which other screens read. An order's handlers call stock (reservation)
and invoices (synchronisation) in their own transaction, and first the plan limits.
Webhooks and tasks write the subscription's row that limits and pages read. Devices
meet only in the database: in the models of the screens, the other devices are
actions that change what is stored.

`PROJECT.json` lists every part with its status and every hazard with its line.

## 2. Plan

Done, in this order:

1. `StockLedger` with the abstract `StockBook`; `OrderStock`; `OrderInvoice`;
   `InvoiceNumbering` with the abstract `InvoiceRegister`; `OrderCreation`; proofs
   of all of them.
2. `SessionRefresh`, where a mistake signs every user out, and its proofs.
3. What saves itself: `DraftEditor`, `ZakatAutosave`, `ProfileAutosave`,
   `SettingsForm`, `SaleEdit`, `Appearance`; then what is read: `QueryKeys`,
   `QueryCache`. Proofs of `DraftEditor`, `SettingsForm`, `ProfileAutosave`,
   `ZakatAutosave`, `Appearance`, `QueryCache`.
4. What all screens do alike, one behaviour and a table of rows each: `Submission`
   and `Dialogs`, `Listing` and `Lists`, `Reading` and `Panels`, `Lines` and
   `LineTables`, each with proofs over any table of rows.
5. What meets Stripe: `PlanPage`, `Billing`, `Arrears`; proofs of the first and last.
6. `OrderDetail`, the page of an order against the back end's rules, with proofs.
7. OCR: `InvoiceReading`, from the photo to the stock, and `ScanQuota`, with proofs of
   both.

Left:

* the matching of an invoice's lines and the memory of a supplier's labels;
* deletion of a product against the creation of an order; the daily summary and the
  reminders; loyalty;
* granted plans and the billing portal in `PlanPage`, the reminder of a trial that
  ends in `Arrears`, edits typed while a save runs in `SaleEdit`;
* proofs: of the runs' safety properties, `SavedIsDraft` and `ImplementsBook` are the
  ones without a theorem. Both are sums, so inductions over data; lemmas about one line
  at a time may reach part of them.

Runs are kept few, one per question. Modules that share no variable are checked in
one run, which chooses one of them at the start.

## 3. Modules

| module | stands for | checked through |
| --- | --- | --- |
| `StockLedger` | movements as row-locking transactions, and stale sheet edits | `MCStockLedger`, `MCStockEntries` |
| `StockBook` | what a movement request promises: all of its lines at once or none | `ImplementsBook` |
| `OrderStock` | order lines, status, reservation, header edits, product type | `MCOrderStock` |
| `OrderInvoice` | one order, its payments and its invoice | `MCOrderInvoice` |
| `InvoiceNumbering` | drafts, issuing, the counter, row locks | `MCInvoiceNumbering` |
| `InvoiceRegister` | an append-only register of issued invoices, an order billed once | `ImplementsRegister` |
| `OrderCreation` | concurrent creations, plan limit, numbers | `MCPlans`, itself |
| `PlanPage` | the subscription page, the change of plan, Stripe's charge | `MCPlans` |
| `Billing` | the local row as a late copy of Stripe's subscriptions | `MCPlans` |
| `Arrears` | the notices of arrears, two workers that may die | `MCPlans` |
| `InvoiceReading` | a supplier's invoice: its photo, its workers, its page, the stock | `MCStockEntries` |
| `ScanQuota` | the slots of a month for the scans of packages | `MCPlans` |
| `SessionRefresh` | cookies, flights, blacklist | itself |
| `DraftEditor` | invoice editors over drafts with versions | `MCScreens` |
| `QueryKeys`, `QueryCache` | every query and write with its keys; the life of one query | `MCScreens` |
| `SettingsForm` | a form over data that is read again | `MCScreens` |
| `PendingEdits`, `ZakatAutosave`, `ProfileAutosave` | pages that save themselves | `MCScreens` |
| `SaleEdit` | the lines of an order edited and saved call by call | `MCScreens` |
| `Appearance` | optimistic preferences | `MCScreens` |
| `Submission`, `Dialogs` | forms that send once; the 51 there are | `MCScreens` |
| `Listing`, `Lists` | a list in the URL; the 7 there are | `MCScreens` |
| `Reading`, `Panels` | what is said of a query; the 88 parts there are | `MCScreens` |
| `Lines`, `LineTables` | lines filled by hand; the 13 lists there are | `MCScreens` |
| `OrderDetail` | the page of an order and the rules of the back end | `MCScreens` |
| `StockLedgerProofs` | theorems about `StockLedger` and `InvoiceReading` | `tlapm` |
| `OrderStockProofs`, `OrderInvoiceProofs`, `InvoiceNumberingProofs`, `SessionRefreshProofs` | theorems about the module each is named after | `tlapm` |
| `FormsProofs` | theorems about `DraftEditor`, `SettingsForm`, `ProfileAutosave`, `ZakatAutosave`, `Submission` | `tlapm` |
| `PlansProofs` | theorems about `OrderCreation`, `Arrears`, `ScanQuota`, `PlanPage` | `tlapm` |
| `ViewsProofs` | theorems about `Appearance`, `Reading`, `QueryCache`, `Listing`, `Lines`, `OrderDetail` | `tlapm` |

### Conventions

*Transactions.* READ COMMITTED is modelled by what the code relies on: a statement
sees what is committed when it starts and what its own transaction has written;
`select_for_update` and UPDATE wait for the row lock; every lock goes at commit or
rollback; a failure at any point undoes the transaction. A handler that holds one
lock from its first to its last statement, and reads nothing that others may change
without that lock, is one action. Where it reads before locking, or takes several
locks, every such point is a step of its own.

*Stale saves.* Django's `serializer.save()` writes every column of the row that was
read. Two actions, a read and a save, stand for it, and a history variable
(`clobbered`, `torn`) records when a save wrote something other than what was there.
Invariants are stated outside that set: they say exactly how far the damage goes.

*Requests of a screen.* A request is sent by one action, taken by the back end in
another, answered in a third; each may fail, and an answer may be lost although the
back end did what was asked. JavaScript runs to completion: what a handler does
between two `await`s is one action.

*Tables of rows.* Where many screens do the same with small differences, the
behaviour is one module parameterised by rows, and a second module gives each
screen's row, mapped to the lines that make its choices. Exceptions to a property
are sets of rows named in those tables (`Presuming`, `Forever`, `Misplacing`) or a
predicate on the row (`HearsLate`, `SendsAgain`): a reader finds in them, by name,
the screens that break the rule. Section 6 lists them.

*Mutants.* An operator preceded by `(* Mutant: ... *)` is a plausible mistake in the
definition that follows it. No specification uses it. Replacing the definition by
its mutant makes the property named in `PROJECT.json` fail.

### `StockLedger`

`pc[r]`, `line[r]` and the lines of a request follow `create_entry`, `create_exit`,
`adjust_to_counts`, `reserve_stock` and `_release_stock` through their loop.
`Acquire` is the row lock, `Record` the check and the INSERT (`TooMuch` is
`limit_to_available`), `Refresh` is `_update_variant_cache`, `SkipEqualCount` the
count that changes nothing. `pending`, `touched` and `draft` are what the transaction
has written and others cannot see; `ledger` and `cache` are committed. `Fail` is any
exception or dead worker. `CancelDeadlocked` is PostgreSQL's own deadlock detection,
external to the code. `EditRead` and `EditSave` are `ProductVariantDetailView.update`.
Prices, suppliers, notes and the read-only listings are left out.

### `OrderStock`

`order[o]` keeps `status` and `stock_reserved`; `held[l]` is reserved minus released
by the movements of line `l`. `PlaceOrder`, `AddItem`, `UpdateQuantity`,
`RemoveItem`, `Cancel`, `Reactivate`, `Progress` are the handlers, each under the
order's row lock and so one action; the movements are `StockLedger`'s business.
`Tracked` reads the product's type *now*, as the code does, hence `ChangeType`.
`ChangeMode` is the shop's fulfilment mode, which changes the status graph.

### `OrderInvoice`

The order and invoice rows, the payment a cashier has started, the header edit an
editor has started. `PayRead` / `PayLock` / `PayCommit` are `OrderPaymentView.post`
and `update_payment`: read without a lock, then a transaction that takes the order's
row lock by its UPDATE, reads the invoice without a lock, and saves it. `CancelLock`
/ `CancelCommit` do the same for a cancellation. `Synced` is
`sync_invoice_from_order`. `MarkPaid` and `CancelInvoice` are conditional UPDATEs of
the invoice alone, so they fall between the two steps of the others. `EditRead`,
`EditSave`, `EditRecalculate` and `EditDie` are the header edit: three statements
committed one by one. "open" stands for `to_prepare` and `prepared`, which this part
treats alike. The amount of tax is any of `Taxes`.

### `InvoiceNumbering`

A job is one request: save, delete or issue a draft, or bill an order. `LockShop`,
`LockDoc`, `LockOrder`, `TakeNumber` take the locks in the order the code does;
`Acceptable` is what it finds under the lock; `Blocked` the blocking points of
`check_invoice`; the `Commit...` actions write and release. `taken[j]` is the content
read under the lock, on which the frozen totals are based. `Fail` rolls back wherever
the job is, in particular between taking a number and committing. One amount stands
for the lines of a document.

A row that names its shop is checked when its transaction commits (Django's foreign
keys are deferred), and PostgreSQL then locks the shop's row FOR KEY SHARE: `ShopShared`
is the wait of a new draft, of a save that has lines and of an edit that inserts a line
or a movement. Such an edit is two steps, `BeginInsert` with the order's lock and
`EndInsert`. `ShopMode` is the strength of the lock an issue takes on the shop; with FOR
UPDATE (its mutant) the issue waits for the draft or the order of one that waits for the
shop, the circle of the comments in `drafts.py:284-286` and of `ShopLockTest`.

### `OrderCreation`

`limit` is the shop's plan, fixed in one behaviour. With a limit, the row lock on the
shop is held from `PassLimit` to the end. `FindLast` is the query of the last number
of the year, by string order (`Before`); `LockLast` is its `FOR UPDATE`, which waits
for the lock on *that* row and does not look again; `Insert` meets the unique
constraint; `RefuseDuplicate` is the 409 of `core/exceptions.py`. `Base` and `Wide`
are 10 and 1000 in the code.

### `PlanPage`, `Billing`, `Arrears`

`PlanPage` has Stripe's subscription (`atStripe`), the row (`inRow`) and what each
open page was last shown. `ChoosePlan` asks for a preview, `AnswerPreview` computes
it, `ConfirmChange` sends its amount back, `CheckChange` is the first half of
`apply_plan_change` (the copy, the age of the amount, the comparison) and
`ChargeChange` / `PlanChange` the second (Stripe's update under an idempotency key);
`Move` is anything else that happens at Stripe in between, `LoseAnswer` an answer
that never comes. `StartCheckout` / `ReturnFromCheckout` / `ConfirmPayment` leave the
site and come back. An amount is what it depends on (plans, date, and a number for
the rest), so that two amounts differ exactly when a price could.

`Billing` separates the *reading* of a subscription from the *writing* of its copy
(`copies`): `sync_subscription_from_stripe` retrieves before it locks. Events are
delivered until one is handled; the daily task reads again what is linked;
`WriteExpired` is `expire_trial`, whose decision is older than its write.

`Arrears` is `process_past_due`: claim by a conditional update, send, give back on
failure, between any steps of which a copy may write any status (`Billing`'s
business) or the worker die.

### `InvoiceReading`, `ScanQuota`

`rows[d]` is an `OcrResult`: its status, how many readings of it began, which one it
holds. `StorePhoto` is the upload, which commits the row, then leaves the message;
`TakeMessage`, `BeginReading` (`mark_ocr_processing`) and `EndReading` (`mark_ocr_done`,
`mark_ocr_failed`) are a worker's task. `flow` is the page: `Stage` is `stageOf`,
`AskRow` / `ShowRow` the polling, `lines` the reading its form was filled from.
`OpenRow` takes the row's lock and `RecordLines` or `UndoLines` ends that transaction
(`record_invoice_entry`); the movements in between are `StockLedger`'s business. Which
lines were read, and what they were associated with, is one reading.

`ScanQuota`: `ReserveSlot` is the conditional UPDATE of the month's row, `ReleaseSlot`
its converse; a request remembers the month it reserved in. `kept` is the cache of
faces, which may not answer, and forgets. `paid`, `wasted`, `faces` and `lost` are what
happened, whatever was counted: a call that timed out, or whose answer could not be
used, gives its slot back and may have been paid all the same (`Received`), and
`wasted` has those that were. A plan without limit is an `Allowed` that is
never reached, a provider that is off one of 0.

### The screens

`SessionRefresh`: pair `n` is the n-th pair of tokens. A request reads its cookies,
joins or starts a flight (`Joinable`), waits, and its answer sets or erases cookies;
`Rotate`, `Settle`, `TimeOut`, `Prune` and `Evict` are the life of a flight;
`RelayPasswordChange` and `FinishLogout` forget it; the back end exchanges a token
once (`Rotate`). `stale` has the pairs whose access token and cookie have ended, after
an hour (`Expire`); `EndRefresh` is the end of a refresh token and of its cookie, after
thirty days. `OpenPage` is the gate of `proxy.ts`: a page loaded without an access
cookie goes to the login page, whatever refresh token is left. `events` has what may
end a session. Behaviours start signed in.

`DraftEditor`: an editor's `call` is the request under way, `status` what its header
says. The blank form is content 0 and each key makes a new one; a content is what
`toPayload` (`editorSchema.ts`) makes of the fields. Back-end handlers are one step
each; `InvoiceNumbering` opens them.

`QueryKeys` transcribes the 45 queries and 78 writes of `lib/hooks`, with the facts
each shows or changes. `QueryCache` watches one query: fresh, stale, being read, read
across a write (`crossed`), with its screen shown or not.

`SettingsForm`: `typed` is what the fields show, `base` what the form compares them
with, `followed` whether the form follows its data; `resetKeepingEdits` is the heart
of it. Content 2 is stored as 1: what the back end normalises comes back different.

`ZakatAutosave` and `ProfileAutosave`: pending edits (`PendingEdits`), the one
request, the timer, what the cache knows of the version. `SaleEdit`: the calls
computed from the differences when saving starts, sent one after the other.
`Appearance`: the queue of saves, each with the value to put back.

`Submission`: an opening has a number, a sending remembers the opening it is from;
the row says whether the form locks, keeps its state inside, awaits, and how it ends.
`Listing`: the URL shown, the navigation under way, the search that waits, the
history; `meant` is what the user has asked for, step by step. `Reading`: TanStack
Query's states of one query per subject, and `Says`, what the part makes of them.
`Lines`: each line's identity and value, the gestures under way with the *place* or
the *identity* they kept, and `wished`, what its gestures should have made of it.

`OrderDetail`: the order as it is, as read, the history as read, the shop's mode as
read; `Offered` is what the page's parts show, `act` the gesture under way with what
the page showed when it began; `Accepts` is the back end's rule (`allowed_transitions`
and the conditions of the views); `OrderSteps` the drawing. One gesture at a time per
page; a shop without a mode is as `on_site`.

## 4. Runs

| run | question | answer |
| --- | --- | --- |
| `StockRace` | two invoices of suppliers, two workers, a message twice, a death, two submissions | an invoice enters the stock once, as its page showed it; the page does not wait for ever |
| | a two-line sale, a two-line count in the opposite order, an exit taking one variant twice, a release, failures and deadlocks anywhere | each request is all or nothing (`ImplementsBook`, counts and exits within the stock included), every request ends |
| `StockEdit` | an entry, an exit, a two-line sale and a two-line count in the opposite order beside two sessions that edit sheets | the cache is wrong only where a stale save overwrote it, until the next movement |
| `StockStaleEdit` | does the sheet edit leave the stock alone, as its comment says? | no |
| `OrderReservation` | two orders on one variant, one with a free line as well, edited and moved in any order, with stale saves and changes of type | lines hold what they should |
| `InvoiceSync` | two cashiers and an editor, payments, cancellations, manual changes of the invoice, interrupted edits | the invoice follows payments and cancellations |
| `InvoiceResurrected` | does a cancelled invoice stay cancelled? | no |
| `Invoices` | two requests at a time on two documents and an order, of any kind, failing anywhere | immutability, versions, register (numbers without a gap, an order billed once) hold, and every request ends without a deadlock to break |
| `Plans` | creations at the limit; scans on the slots of two months; two subscription pages; late copies of Stripe; notices and dying workers | the limit holds, the slots taken are the calls of use, those under way and those a kill cut off, what is offered is accepted, what is charged was shown, a message is sent once, the row ends in step |
| `OrderThousandth` | is a generated number always free? | not after the thousandth order of a year |
| `Sessions` | two requests renewing, signing out, changing the password, losing their answers | a user whom nothing disturbed stays signed in, a page loaded an hour late aside; no token is presented twice while its flight can be joined |
| `Screens` | two invoice editors, a settings form, a sale being edited, quick preferences, 51 forms, 7 lists, 13 lists of lines, the page of an order: failures, late answers, other devices | nothing typed is lost or overwritten unseen, nothing is recorded twice, lists and lines end as asked, the order's page offers what is accepted |
| `Settling` | the cache against every pair of a query and a write, both zakat autosaves, an invoice editor, 88 panels, under fairness | what was written ends up shown, what was typed is stored or said not to be, no panel lies or waits for ever |

`MCScreens`, `MCPlans` and `MCStockEntries` choose one of their parts at the start
(`screen`, `topic`); the others stay as they begin, with nothing enabled, so that the states add up
instead of multiplying. The parts share no variable: checking them together would
only check all their products.

### Bounds and why they are enough

* `StockRace`: two variants and two lines are what a deadlock, a repeated variant and
  a partial failure need; the starting stock (3 and 1) lets the exit be accepted or
  refused depending on the sale, and the count be equal to the stock or not. Two
  photos, two workers, one message delivered twice, one death and two submissions are
  what a second reading, another photo meanwhile and a second recording need.
* `StockEdit` (482,329 states): two editors, so that one stale save may follow
  another, beside a deadlock, a refused exit and a count that changes nothing.
* `OrderReservation`: `MaxQty` 2 makes increases and decreases; `MaxDrift` 2 stops
  the exploration of stale saves and retyping (not of ordinary edits) once a line is
  two units off, since the property no longer looks at that line.
* `InvoiceSync`: goods 0, 1, 2 with a payment of 1 and a possible discount of 1 gives
  partial, exact and excess payments and totals of zero; two cashiers hold the two
  orders of read and lock that matter; they are interchangeable, hence the symmetry.
* `Invoices` (256,260 states): two requests, two documents and an order meet in every
  pair of kinds, beside a request that inserts a line in the order: an issue that holds
  the shop waits for the draft or the order of a request that needs the shop to commit.
  `MaxVersion` 2 lets a draft be saved and then issued and cannot block a request, since
  two jobs raise a version by two at most.
* `OrderThousandth`: numbers of one digit in base 3 instead of three in base 10; four
  creations reach past the width, in one month.
* `Plans` (1,148,674 states). Three creations exceed the limits 1 and 2 and meet in
  pairs on a number; two months per year and `MaxMonth` 2 give a change of month and
  of year. Two pages and three gestures: one page shows an amount, the other confirms
  its own, the first confirms or resends; one move of Stripe falls anywhere;
  `MaxClock` 1 with `MaxAge` 0 makes an amount expire. With four gestures, `MaxClock`
  2 and `MaxAge` 1 a run by hand covers 8.39 million states and holds. Two Stripe
  subscriptions, three events and two copies under way: an old subscription and its
  successor, each read before and after it changes. `LastStage` 3 (4 in the code)
  keeps a first, a middle and a last message; two spells of arrears, two workers, one
  death: a second death only ends the other worker. Scans: two at a time and three in
  all on two slots of text and one of image, two months, a kill: a face, its back and
  another scan at the limit, before and after the month changes.
* `Sessions` (4,729,015 states): two requests; five pairs and three flights let a token
  be renewed, renewed again while the first answer is late, and once more after a new
  sign-in; the hour and the thirty days of a pair may end anywhere.
* `Screens` (2,022,792 states). *Editors*: two on one draft, one of them opened blank,
  two keys in all: the second typed while the first is being saved. *Forms that send
  once*: two contents, two openings, two sendings at a time are what a late answer
  and a resending need. *Lists*: one word, two pages, three steps of the user: a
  search waiting, a choice under way, Back; on a phone, the lists whose sheet has three
  parameters at most (`SmallSheet`). All the lists (881,492 states), and four steps on
  the list of orders (2.19 million), hold by hand. *Lines*: three lines, so that a place can be taken by
  the next line and by a new one. *Order*: a payment due or not and one excess, four
  changes of status, two gestures and moves of others in all: a change of mode, a
  return, a stale gesture. With a total of 2 and 3 paid at most, by hand: 1.78 million
  states, holds. *Sale*: two goods, two numbers the back end gives, one change by
  another device.
* `Settling` (152,208 states). All 45 queries against all 78 writes, two changes: one
  read across, one after. One editor and one amount, because liveness is costly; the
  safety of two editors is in `Screens`, and two amounts were checked by hand. Panels
  with the same row, in the same exception sets, are represented by one of them
  (`Parts`); two subjects, to turn to another and back.
* The type invariants of the modules of the screens and plans were checked by hand
  runs of the same configurations with `TypeOK` added; those that have a proof are
  theorems.

`CHECK_DEADLOCK FALSE` is set where the model legitimately stops: requests sent once
that have all ended, users who do no more.

### Fairness

* `FairSpec` of the other back-end modules asks weak fairness of `Step` of each request:
  PostgreSQL schedules runnable statements, grants a free row lock to a waiter, and a
  worker carries on with its request. It is enough because a request that waits for a
  lock is enabled from the moment the lock is free until someone else takes it, and
  each is sent once. In `StockLedger` the deadlock detector is part of `Step`; the
  mutant `NeverDeadlocked` shows that progress depends on it.
* In `InvoiceNumbering`, `FairSpec` asks strong fairness of `Step`: edits of an order may
  follow one another without end, and PostgreSQL queues those who wait for a row, so that
  an issue has its turn. `EndInsert` is weakly fair. Nobody has to send a request, and
  none has to fail.
* `BillingFairness`: Celery beat runs the daily tasks again and again (`WF`); Stripe
  delivers an event until it is answered 2xx (`WF`); the writing of a copy, of an
  event or of a task, may fail or be outrun but not for ever (`SF`).
* `CacheFairness`: a query asked to be read is read (`WF`); its answer arrives though
  a write that overtakes it starts it again (`SF`), as a user does not write for ever
  faster than the back end answers.
* `EditorFairness`, `ZakatFairness`: a timer fires, the next request of a chain is
  sent, a request ends, answered or not (`WF`). What failed is tried again only if
  the user asks: nothing is asked of the user.
* `PanelFairness`: the network comes back (`WF`); a request under way ends (`SF`,
  since the network going away disables the answer meanwhile).

* `ReadingFairness`: the upload and its answer, the polling of a page that is open in
  front (`refetchInterval` stops behind) and its answers, workers that run and take
  the messages there are, the end of a transaction (`WF`). A task has a timeout on
  each call it makes.

Nothing is asked of users, other devices, the calendar, or failures.

## 5. Proofs

TLAPS checks these theorems for every value of the constants, under the named
assumptions of each module (types of the constants; the holder of a free lock is no
request; bounds are naturals; `HoldingAssumption`, below).

* `StockLedgerProofs`: `TypeCorrect`, `CacheFaithful` (`CacheIsLedger`). The cache
  being the sum of the movements is not inductive. `LedgerInv` adds that a request
  past its lock owns the variant of its current line (`LineIsLocked`), that only the
  owner has anything uncommitted on a variant (`WritesUnderLock`), that what it has
  rewritten counts the committed movements and its own (`DraftIsSum`,
  `PendingIsDrafted`), except between an INSERT and its refresh.
  Of `InvoiceReading`, `ReadingTypeCorrect` and `InvoicesEnterOnce`
  (`StockedAsShown`), for any number of workers that die and of messages delivered
  twice: what is kept of a read invoice is kept for good (`Kept`), a page holds what is
  kept or nothing, a submission sends it, and who holds the row is alone to enter it.
* `OrderStockProofs`: `TypeCorrect`, `ReservationsMatch`, `ReservedExactlyWhileLive`.
  `OrderInv` is their conjunction; the second needs the third, because a release looks
  at the flag.
* `OrderInvoiceProofs`: `SyncTypeCorrect`, `PaymentsReachTheInvoice`,
  `CancellationReachesTheInvoice`, `TotalsFollowLines`. The invoice a transaction has
  *seen* may differ from the row it will overwrite. `SyncInv` says by how much: while
  the order is locked no invoice is issued, a cancelled one stays cancelled until that
  transaction saves, and one seen alive belongs to an order that is not cancelled.
* `InvoiceNumberingProofs`: `TypeCorrect`, `NumbersAreGapless`, `TotalsAreOfTheLines`,
  `IssuedInvoicesAreComplete`, `OrdersAreBilledOnce`. `NumberingInv` follows each job
  through its transaction (`JobOK`): from its lock to its commit the draft stays a
  draft of the lines it has read, the order stays unbilled, and at most one job holds
  the next number (`CounterOK`).
  `IssuedInvoicesAreImmutable` (`IssuedIsImmutable`) is an action property: a step
  that changes a document holds its lock, and `JobOK` says the document it holds is
  still a draft. `SavesAreOfWhatWasRead` (`NoLostSave`) needs one more invariant,
  `VersionsNameTheirLines`: what a draft held under a version is what everybody who
  read that version has read. `IssuingImplementsTheRegister` (`ImplementsRegister`)
  is the refinement: a commit that issues appends to the register the next number,
  that `CounterOK` says nobody else holds, with lines that `JobOK` says are still
  those read; every other step stutters.
* `SessionRefreshProofs`: `Typed`, `KeepsSession`, `AsksOnce`, for any number of
  requests. `SessionInv` says what holds as long as nothing has happened that may end
  a session (`Quiet`, an hour's end aside, after which only a sign-in is added:
  `QuietLogin`): flights of one token follow each other, only an unavailable
  back end lets the next begin (`FlightOrder`), and the blacklist holds what a flight
  has exchanged and nothing else (`DeadExchanged`).
* `FormsProofs`:
  * of `DraftEditor`, `EditorTypeCorrect` and `NothingOverwrittenUnseen`, for any
    number of editors and drafts. `EditorInv` adds `EveryoneShowing`: the version an
    editor saves over, the one a request carries and the one it was answered have all
    been on its screen. `OneDraftEach` (`OneDraft`) rests on `CreatedInv`: an editor
    that has created a draft knows it, is about to hear of it, or is left;
  * of `SettingsForm`, `FormTypeCorrect` and `EditsAreKept`, whose strengthening
    (`Protected`) says that a wanted field also differs from what the form has of the
    back end, so that a reading finds it edited and keeps it;
  * of `ProfileAutosave`, `ProfileTypeCorrect` and `LastChoicesAreStored`: what is
    stored, sent and waiting, one over the other, are the choices (`ProfileInv`);
  * of `ZakatAutosave`, `ZakatTypeCorrect`, `NobodyConflictsAlone` (`NoConflictAlone`)
    and `LastEditsAreStored` (`LastEditStored`): while nobody else edits and no answer
    was lost or overtaken, the page has the version of the back end whenever it may
    send (`VersionsMeet`); and the sheet of the back end under what is sent and what
    waits is what was last typed (`LatestWaits`). TLC checked the invariant,
    `ZakatInv`, before it was proved;
  * of `Submission`, `SubmissionTyped`, `RecordsOnce`, `EndsItself`, over *any* table
    of rows. `OwnContent` (what is in the form was put in its last opening and not
    sent by an earlier one), `SentOnce` (a content is only sent again when its sending
    failed before it was recorded) and `KeptOnce` (a back end that refuses to record
    twice) for the first; `Held` and `Forgotten` (the callbacks died with the opening,
    or the form could not be closed, or not be opened again, before the answer) for
    the second.
* `PlansProofs`, for any number of requests, workers, scans or pages, and any limits:
  * `MonthsStayWithinLimit` (`WithinLimit`): `LimitInv` says that one request at a time
    is past its count, and that until it commits the month has room for its order;
  * `OwnersAreToldOnce` (`ToldOnce`): the reminder stored on the row does not tell who
    sends what. `ArrearsInv` gives each stage between the one a worker read and the
    one it claimed to that worker alone (`RemindersApart`), and has the end of an
    arrears either marked on the row, or being told by one worker, or told
    (`EndsApart`);
  * `ScansAreCounted` (`CallsCounted`): `SlotsCounted` is the account, for each counter
    and month, of the slots taken: calls of use (`OfUse`: paid and not wasted), lost, or
    held by a scan under way in the month it began. `FacesShared` bounds the backs that go on a slot of their face by the
    faces read alone, those kept, being shared and about to be kept;
  * `BillsAreOfWhatWasShown` (`PaysWhatWasShown`) and `OffersAreAccepted`
    (`OfferedIsAccepted`): `PlanInv` says that between the check and the charge the
    amount is the one shown unless Stripe moved (`StillAgreed`), and that what was
    billed has its outcome under the key of what was shown (`BillsOK`), so that a
    second sending finds it;
  * `PlansAreKept`: all of these hold of the specification the run checks, as a step of
    one part is a stutter of the others.
* `ViewsProofs`:
  * of `Appearance`, `LastSelectionIsSaved` (`LastSelectionWins`): the saves to make end
    with the last choice (`QueueInv`), and while none has failed what is shown, what the
    account will have, the cache and a reading under way are that choice, except in the
    cases `ChoiceInv` names;
  * of `Reading`, over any table of panels, `OnlyAnswersSayNothing`
    (`NothingOnlyIfSo`): a panel outside `Presuming` knows (`Knowing`), and one of a
    thing that must exist never keeps an answer that there is none (`OneInv`);
  * of `QueryCache`, for any queries and writes, `OwnWritesAreShown`
    (`OwnWritesShown`), from the rule that a write reaches what it changes (`Reaches`):
    what this browser knows to have changed is older than the write under way
    (`WriteInv`), and an answer read before is known to be crossed (`CrossedInv`);
  * of `Listing`, over any table of lists, `ListsAreAsAsked` (`AsAsked`): what is meant
    is the URL shown, else the one on its way, else that with the search still waiting
    (`MeantInv`), and the field shows the same (`SearchInv`, `FieldInv`), unless steps
    were hurried;
  * of `Lines`, for any number of lines, `LinesAreAsMeant` (`LinesAsMeant`): lines and
    wishes are each other's (`Meant`); a line kept by its place is still there, which
    holds of the rows where nothing moves meanwhile (`Steady`: `SheetInv`,
    `AwaitedInv`), and a removed one may be put back where it was (`RemovedInv`);
  * of `OrderDetail`, `OffersFit` (`OfferedFits`): a gesture under way was offered by
    what the page showed when it began (`GestureInv`), and whatever the order has
    become, the back end accepts it if what the offer rests on has not changed
    (`AllOffered`); and `StepsAreAsLived` (`StepsAsLived`): a history that follows the
    shop's graph is a *life* (`Life`: a step is passed for good until it is entered
    again), of which the drawing is the last visits. `PassedInv` says that the order's
    history is one, as long as the shop has not changed its mode.

The theorems over tables rest on rules the rows obey, stated as assumptions that TLC
evaluates on the real tables: `HoldingAssumption` of `Submission`, `PanelsAssumption`
(`Knowing`) of `Reading`, `WritesAssumption` (`Reaches`) of `QueryCache`,
`ListRowsAssumption` of `Listing`, `LinesAssumption` (`Steady`) of `Lines`. A screen
that breaks the rule is refused there, or is one of the exceptions section 6 lists: what
the proofs show is that the rule is enough.

`TotalsFollowLines`, `TotalsAreOfTheLines`, `IssuedInvoicesAreComplete`,
`ReservedExactlyWhileLive` and the type theorems are proved and not repeated in a run;
neither are `NumbersAreGapless` and `OrdersAreBilledOnce`, which the register that
`ImplementsRegister` checks implies of what is committed.

Only model-checked: liveness (`EveryRequestEnds`, `ReadingEnds`, `InStepInTheEnd` and
those of `Settling`), which is out of reach of the prover; `ImplementsBook`, whose
mapping sums the lines of a request, so that its step simulation is an induction over
data; `SavedIsDraft`, which compares totals of lines, likewise; the rest of `SaleEdit`
and `Billing`; and every property a run is expected to violate. `QueryKeys` and the
tables are finite data: TLC enumerates them whole.


## 6. What the checks found

Three runs expect a violation; each finding quotes the sentence it contradicts.

* `StockStaleEdit`: a price saved from a sheet that was read before a movement puts
  the old stock back. The next movement of that variant repairs it.
* `InvoiceResurrected`: the invoice synchronised by a payment is read without a lock;
  a manual cancellation in between is overwritten.
* `OrderThousandth`: numbers are compared as strings, so the query keeps finding
  `YYYY-999` as the last one after `YYYY-1000` exists.

### Stated, refuted, and not kept as runs

TLC refutes these as well; each repeats the cause of one above or is a matter of
wording, and they are kept out of the runs, some as a definition of their module.

* `CancelledHoldsNothing` (`orders/services.py:335`): release looks at the product's
  present type. Reserve, turn the product into a service, cancel: the stock stays held.
* `StatusFollowsGraph` (`orders/views.py:168`): the header edit writes back the status
  it read, so a cancellation in between is undone for the order, not for its stock.
* `NoPaymentOnceCancelled` (`orders/views.py:207`): the status is checked on a row
  read before the transaction, and not again.
* "Un article créé avec son format apparaît aussi dans les niveaux" of the stock
  (`useProducts.ts:316`): not when it is created by the form (`useSaveProduct.ts:86`),
  which only has the products read again. The levels are right a minute later.
* "Nothing falsely saved" (`useAccountTheme.ts:10-13`): two quick clicks that both
  fail leave on screen a choice that was never saved.
* A change of password keeps its author signed in (`accounts/views.py:128-129`): not
  when the answer with the new tokens is lost, or crosses that of another request.
* Issuing accepts what the check sheet shows (`useIssueFlow.ts:10-13`): another device
  may have saved the draft since the sheet was read.
* A conflict is a draft modified elsewhere (`useDraftAutosave.ts:23`): after a lost
  answer, the next save meets the editor's own.
* Asking Stripe again "règle l'ordre de livraison" (`stripe_sync.py:3-5`): a stale
  reading of an old subscription, written late, links the row to it again; its end
  then unlinks the row for good while a newer one is alive. `InStepInTheEnd` has it as
  its exception.
* The amount charged is the one confirmed (`stripe_plan_change.py:8-10`): unless the
  subscription moves between the recheck and Stripe's update (`moved` in `bills`).

### Met while modelling

Exceptions the properties name:

* `HearsLate` (a late answer to a closed opening ends the next one): the sheets of
  payment and invoice, quick-added customer and product, notes (whose text it also
  wipes), the format of a product, the article and the customer of an invoice,
  members, contacts, the catalogue picker, checkout.
* `SendsAgain`: pages whose button works while the next page loads (exit and manual
  entry of stock, a new sale, photos of a product), and a reminder while it looks for
  an existing one.
* `Presuming` (40 parts say "nothing" of a query that is paused, failed or unfinished)
  and `Forever` (three skeletons have nothing for a failure): see `Panels`.
* `Misplacing` (six lists keep the place of a line): see `LineTables`. Another photo of
  an invoice also drops the associations of the review.
* `LeftToAge` in `QueryCache`: what is left to its minute although a write changed it.
* `LosesTab`: clearing the filters of the movements of stock loses their tab.
* `hurried`: a step taken on a URL that has not caught up may cancel the one before:
  a filter within 300 ms of typing cancels the search while its field still shows it;
  of two quick choices the first is lost; leaving within 300 ms of typing throws the
  user back to the list, as the timer is not cancelled.

Other observations, none with a run of its own:

* Order page: "back to preparation" sent from a page that shows the order ready
  reactivates one cancelled meanwhile; payments are computed in the browser from the
  order as read; the times of the steps are out of order after a change of mode, which
  `StepsAsLived` excepts.
* Order creation: without a plan limit, two creations that start together compute the
  same number, and the second is refused. `GeneratedNumberIsFree` is for plans with a
  limit for that reason. With a limit, a creation holds the shop FOR UPDATE
  (`limits.py:41`) when it asks for the lock of the last order
  (`generate_order_number`); a line being added to that order holds it and needs the shop
  to commit: PostgreSQL ends one of the two. `InvoiceNumbering` shows why issuing does
  not do this (`no_key`); creation does. An interrupted header edit leaves a total of former lines
  (`torn`).
* Settings forms send all their fields, so that another device's change is
  overwritten; a field put back to its former value during a save is not an edit.
* Edition of a sale: a call whose answer is lost and that is sent again adds its line
  twice; the lines another device added are removed.
* Zakat: a lost answer to the sheet, then the conflict it causes, drop the edits that
  wait; a setting changed while a refusal is being read again waits for the next one.
* Subscription page: an "immediate" preview that became scheduled is confirmed with
  the message of the first; from yearly to monthly with a better plan is offered and
  always refused (`TwoSteps`); two checkouts in two tabs make two subscriptions.
* Invoices of suppliers: a worker that dies with an analysis in progress leaves it
  "processing", as its message is gone and nothing takes it up again; its page says it
  is being read for as long as it is open, with the button that changes the photo
  disabled (`interrupted` in `ReadingEnds`). A document stored while the broker could
  not be reached stays pending: the comment of `ocr/views.py:95-99` has an operator
  launch it again, and there is no operation for it.
* Session: a page loaded, or reloaded, more than an hour after the last answer goes to
  the login page although the refresh cookie is alive for thirty days, as `proxy.ts:58`
  looks at the access cookie only; requests of a page that stays open are renewed.
  `docs/exploitation/deploiement.md:728-730` accepts that all tabs stay signed in or that
  all come to the login page. `SessionKept` says so
  with its event `hour`: the cookies are kept, and the application is not shown.
* Scans of packages: "jamais un appel non compté" (`ocr/services.py:1155`) is of a
  process that is killed. A call that times out (`ai_client.py:646`) or is answered off
  its schema gives its slot back though the provider may have been paid: `CallsCounted`
  has these apart, in `wasted`.
* Arrears: a worker that dies between the claim and the sending loses that message for
  ever; a false "past due", copied late, sends a reminder to who has paid.

## 7. Not modelled, and why

* Rendering, exports, mail bodies, dashboards, serializers, formatting, the public
  shop and the marketing pages: they read and format.
* Rounding of amounts and tax: no property distinguishes them; the models carry
  integers.
* PostgreSQL's detection of deadlocks in `InvoiceNumbering`, so that `EveryRequestEnds`
  asks that it is never needed (`StockLedger` has it, and relies on it). The other locks
  on a shop's row (`limits.py:41`, `settings.py`, `shops/services.py`) are FOR UPDATE and
  left out of it: those who hold one wait for no draft. One of them may wait for an
  order: see the creation of orders in section 6.
* Permissions and shop isolation: each model is of one shop and of members allowed to
  do what they do.
* Notes, loyalty, public pages, the rest of shops and accounts: see the plan.
* The reading of a document itself (`apps/ai-service`): whatever it returns is a
  reading or a failure. What a scan of a package proposes is display.
* Plans granted by an administrator and Stripe's portal: they leave `PlanPage`.
* Composition of `OrderStock` with `StockLedger`: an order's movements are one atomic
  effect on `held` there and one request here. The two agree because reservations are
  never refused and a failed request rolls the order back as well.
* Composition of the screens with the modules of the back end: each screen's module
  has the handlers it calls as single steps, with the refusals the back-end modules
  establish.

## 8. Running

In this directory, `tlc -config Screens.cfg MCScreens` runs one model (two to four
minutes on two workers, the longest with `Plans` and `Settling`; the others take
seconds to a minute and a half) and `tlapm FormsProofs.tla` checks one proof module.
`PROJECT.json` names the module of each configuration, the source lines of each
definition, the mutant of each property and the hazard each property is for.
