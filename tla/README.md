# Verification of the invoices service

TLA+ models of the invoices service (NestJS, TypeORM, PostgreSQL), the TLC runs that check
them and theorems about them checked by TLAPS. Source paths are relative to the
repository; line numbers are in `PROJECT.json`.

## The system

One Node process answers HTTP requests. A handler runs without interruption between two
`await`s, and other handlers run while it waits. All state is in PostgreSQL, written
through TypeORM, except the rate limiter's map, which lives in the process. No handler
opens a transaction that spans two of its calls, takes a lock, or uses a version column.
So every awaited repository call is an atomic step, and every pair of steps may be
separated by those of other requests, by an error, or by the end of the process.

`repository.save(entity)` is itself two steps: TypeORM selects the stored row by its key,
works out the columns and relation rows that differ from the entity, and then writes these
in a transaction. An entity whose row is gone is inserted.

| Component | State | Operations | What makes it correct | Hard behaviour |
|---|---|---|---|---|
| Invoices (`modules/invoices`) | `invoices`, `invoice_items` | create, update, send, void | only drafts change, paid stays paid, totals are those of the items, an edit replaces the items as a whole | read, check, then save an old entity; items deleted before they are replaced; cascade on a stale relation |
| Payments (`modules/payments`) | `payments`, `invoices.amountPaid` | createPayment, updatePayment | `amountPaid` counts each payment once and claims nothing beyond what is recorded or due | check and write apart; two tables without a transaction; decimals read as text, so that `+` appends |
| Item totals (`prepareInvoiceItems`) | two accumulators shared by concurrent look-ups | one look-up per item | every item counted once, rounding bounded | order of look-ups, edits of the product meanwhile |
| Auth and users (`modules/auth`, `modules/users`) | `users`, `organizations`; signed tokens | register, login, refresh, request and confirm reset | one account per address, a reset token works once | look-up, slow hash, write; organization stored before its user |
| Organizations, products, partners | three tables | create, update, remove | tax numbers and names unique, removed is removed, and so is what belonged to it | look-up then insert; save of a removed row; the cascade under handlers in flight |
| Compliance (`modules/compliance`) | `eway_bills`, `gstr_filings` | create and update bills, generate and update filings | one bill per invoice, one filing per period, a stored row is reported stored | look-up then insert; bodies nobody validates; the answer fails after the write |
| Lists (`findAll` of organizations, partners, invoices) | none; a walk's progress is the client's | one page per request: the page, its rows, the count | a walk misses no row and repeats none, the total covers the page | several queries without a snapshot; offsets into a list that changes between pages; ties |
| Rate limiter (`main.ts`) | a map from client and path to a count and an end | one check per auth request | bounded bursts, refusals end | window borders; a restart; configuration read as text |
| Events (`modules/event`) | none | emit, listeners that log | a lifecycle event follows the commit it tells of | order of events |
| Guards, filters, health, configuration | none | – | – | not modelled, see below |

Components interact in three ways: they share tables (payments write `invoices`; the
removal of an organization cascades to the users, invoices, items, payments, bills,
filings and products of it, whoever holds one of them), AuthService calls UsersService and
OrganizationsService, and services emit events that EventListener logs.

## Modules

| Module | Models | Composes or extends |
|---|---|---|
| `InvoiceLedger` | InvoicesService and PaymentsService over their three tables, and the removal of an organization | |
| `InvoiceLedgerProps` | its properties | extends `InvoiceLedger` |
| `InvoiceBook` | what a client that waits for answers is promised: two accounts, what the rows say (`book`) and what was received (`cash`), each call one step on one of them | implemented by `InvoiceLedger` (`ImplementsBook`, with `book <- invoice, cash <- collected`) |
| `InvoiceLedgerProofs` | theorems | extends `InvoiceLedgerProps`, `FiniteSums` |
| `InvoiceTotals` | `prepareInvoiceItems` and the rounding of what is stored | |
| `InvoiceTotalsProofs` | theorems | extends `InvoiceTotals`, `FiniteSums` |
| `Accounts` | AuthService with the UsersService and OrganizationsService calls it makes | |
| `AccountsProofs` | theorems | extends `Accounts` |
| `Registry` | Organizations, products and partners | |
| `RegistryProofs` | theorems | extends `Registry` |
| `Compliance` | ComplianceService, and the removal of an organization | |
| `ComplianceProofs` | theorems | extends `Compliance` |
| `Listing` | the three paged lists and a client that walks through one | |
| `ListingProofs` | theorems | extends `Listing` |
| `RateLimiter` | `createRateLimiter` and the restarts of its process | |
| `RateLimiterProofs` | theorems | extends `RateLimiter`, `FiniteSums` |
| `FiniteSums` | lemmas about sums over finite sets | |
| `MC*` | constants and symmetry for the runs of the module named | |

The invoice handlers and the payment handlers are one module because they write the same
rows: that interaction is the system's hardest. What the others share with it is the
organization, so `RemoveOrg` and its cascade is an action of every module whose handlers
hold rows that go with it.

### How state and actions correspond to the code

A module's tables are its variables. `req[r]` is a request slot: `Idle`, or the place in
the handler (`pc` names the call it does next) with the local variables it holds. An
action named after a look-up (`FindForPayment`, `RegisterFind`, `FindGstin`) is the first
await of a handler, with the checks that follow it: a refused request ends where it began.
Each later action is one awaited call with the synchronous code up to the next.

* `InvoiceLedger`: `Create` is the cascading insert of `create` (what it reads first no
  other handler changes, see `InvoiceTotals`), after which its event is still to come.
  `update` is `FindForUpdate` or `FindForItemsUpdate`, `DeleteItems`, then `SaveItems` or
  `RejectItems`, and the save. `createPayment` is `FindForPayment`, `InsertPayment` and
  the save; `updatePayment` is `FindPayment`, `WritePayment`, `SumPayments` and the save.
  Every save of an invoice is `LoadForSave` (select and diff), `Flush` (write), and then
  `Emit`. `items` holds one row per saved item list, since the rows of a list are written
  and deleted together. An invoice is a status, a total and an amount paid in paise. A
  payment's transaction id is unique in its organization: `RefuseInsert` and `RefuseWrite`
  are what the column, and the references to a row that is gone, make of `InsertPayment`
  and `WritePayment`. The body of a correction is not validated: it may name another
  invoice (`about`), whose payments are then summed into the one that was loaded
  (`SumOf`), and `RefuseWrite` is also the column that does not take what it holds.
  `RemoveOrg` deletes the rows and leaves the requests in flight: a save that finds no row
  inserts one, which the missing organization refuses (`Refused`); a row that goes between
  select and write is updated without effect (`FlushNothing`). `OrphanedItems` chooses
  what becomes of item rows the saved entity does not have: `"delete"`, by
  `orphanedRowAction` on the side of the invoice, or `"nullify"`, which the required
  `invoiceId` refuses.

  The pg driver returns decimals as text and no column has a transformer
  (`core.module.ts:33`), so `amountPaid + amount` appends (`AddPaid`): "0.00" and 600 make
  "0.00600", which the column rounds to a paisa; 50.5 makes "0.0050.5", which it refuses
  (`AddIsValid`, and `Refused` at the save). The reduction of `updatePayment` starts from
  the number 0 and reads "0600.00" for one payment, the sum, and no number for two
  (`SumIsValid`). Comparison and subtraction convert, so the check of the remaining amount
  is a check of numbers. A text never equals the number TypeORM compares it with, nor the
  text of a sum that of the column: `diff` always has `amountPaid` after a payment and
  `total` after an edit of the items.
* `InvoiceTotals`: items without a product are done while `map` runs; each look-up that
  returns is an action; then the save rounds to the columns' two decimals. `Nearest` gives
  both neighbours of an exact half, because the binary value of the product may lie on
  either side of it.
* `Accounts`: `RegisterFind`, `RegisterCreateOrg`, `RegisterCreateUser`, `IssueTokens`;
  `Login`, `Refresh`; `RequestPasswordReset`; `ConfirmFind`, `UpdatePassword` (which reads
  the user again) and `SavePassword`. A bcrypt result is a fresh value, a reset token its
  user and the fingerprint of the hash it was made for.
* `Registry` and `Compliance`: look-up, then insert, with the unique columns deciding
  again; read, then save. In `Compliance` a save is two steps, in `Registry` one, which
  writes the whole row. A save of a row that is gone goes on as an insert, which the
  missing invoice or organization refuses. The body of `updateEwayBill` is not validated:
  `FindBill` lets it carry any number and vehicle details or none, an `invoice`, which
  moves the bill, and an `ewbId`, which makes `save()` look for that row. `RefuseValue` is
  a value a column does not take, wherever something is written. In `Registry`, `KeepOrg`
  is a removal that references to the organization's users refuse, and a switch says
  whether the schema requires a partner's organization.
* `RateLimiter`: `OpenWindow`, `CountRequest` and `Refuse` are the three branches of the
  middleware, `Tick` the clock, `Restart` a new process with an empty map. `WindowIs` says
  whether the configured window is a number (the default) or text from the environment
  (`now + windowMs` then appends its digits to a date of thirteen).
* `Listing`: a list is the sort key of each row that matches the filters. `ReadPage` is
  the query with `LIMIT` and `OFFSET`: any cut of any order the database may choose, so
  ties are decided anew by every query. The list of invoices joins, hence TypeORM selects
  keys first, in an order that ends with the primary key, then the rows (`LoadRows`);
  partners are followed by their invoices (`FillInvoices`); organizations and invoices by
  the count (`CountRows`, which TypeORM may save where the page tells it). `Create`,
  `Move` and `Remove` are the other clients. `Answer` gives the page to the client, which
  asks for the next one unless the answer says it was the last.

`Abort` in each module is a call that rejects, or a process that ends: the slot is lost
and what it wrote stays.

## Runs

Passing runs:

| Run | What it shows |
|---|---|
| `SequentialClient` | a client that waits, with failing calls and removals: as long as no call failed and nothing was corrected, `amountPaid` is a paisa for each payment that counts; as long as no call failed, the last event names the state; statuses change only as the handlers say; every write refines `InvoiceBook`, failed calls included; one item list at a time, and exactly one as long as nothing failed or was rejected; a correction repairs every drift |
| `OverlappingClients` | two requests at once, with failures, retries under one transaction id, edits of the total, corrections and removals: neither `amountPaid` nor a payment exceeds what the invoice was ever worth; until a correction, `amountPaid` is never more than was recorded and counts no payment twice; a removed organization's books stay closed |
| `TotalsOfItems` | three concurrent look-ups while the product changes: every item counted once, rounding within half a paisa per item, the stored header and items add up, and the preparation ends |
| `OverlappingAccounts` | two requests, failures, removals: spent tokens stay dead, users have their organization; one request at a time, an address is one account and a token works once, and without failures no organization is left without a user |
| `OverlappingRegistry` | overlapping requests keep the catalogue consistent; one at a time, removed rows stay gone and a created partner's tax number was free |
| `OverlappingCompliance` | overlapping requests and removals keep bills and filings unique and leave none of a removed organization; one at a time, a filing keeps its date and a bill without vehicle details is not stored behind an error |
| `ListingsWhileEditing` | a walk through the pages misses no row unless one left or moved, repeats none unless one was added or moved, and a total covers its page unless a row left between the two queries |
| `LimiterBursts` | at most twice the limit in any stretch of one window, and the limit more per restart; refusals are deserved and end |

The promises "one at a time" are checked in the overlapping runs, on the behaviours in
which no two requests have overlapped so far. The history variables `overlapped`
(`Registry`, `Compliance`) and `disturbed` (`Accounts`, which also notes failures) record
it. In the same way `incidents` (`InvoiceLedger`) records failures, rejected items and
corrections, `worth` the highest total or declared payment of an invoice,
`since` (`Listing`) what happened to the list during a walk, `recent` and `restarts`
(`RateLimiter`) what happened in the last window. No action reads them, save for the bound
on restarts. `OverlappingClients` leaves out by a `VIEW` what none of its properties and
no later step reads: `heard`, of `incidents` all but whether there was a correction, and
what a handler holds that is past its use (`Rest`).

Runs that refute what the repository says of itself. Each stops at the first
counterexample; the finding in `PROJECT.json` quotes the line.

| Run | Refuted | How |
|---|---|---|
| `OverCollection` | a payment never exceeds what remains | two payments read the same `amountPaid` |
| `StringHydration` | `amountPaid` is updated by a payment | text is appended, not added |
| `LimiterFromEnvironment` | a refusal is for too many requests | a window read as text does not end |
| `TokenTwice` | a reset token works once | both confirmations look before either writes |

### Other divergences

The same models contain these disagreements between code and description. They are why
some properties above have a guard, and each is reproduced by checking the formula with
the constants given.

| Described | What the code does | Formula, constants |
|---|---|---|
| a paid invoice cannot be voided (`invoices.service.ts:237`) | `save` writes draft over a status that an overlapping update set to paid after the void read the row | `[][\A i \in Invoices : invoice[i].status = "paid" => invoice'[i].status # "draft"]_vars`; two requests, `Settable` with `"paid"`, `Ops` with `"update"` |
| an invoice has at least one item (`invoice.dto.ts:71`) | `update` deletes the items before their replacements may be rejected | `OneItemList` with `{"correction", "rejection"}` for `{"correction"}`; one request |
| a payment that was stored is counted (`payments.service.ts:42`) | a call that fails between the two writes leaves it uncounted, and the retry with its transaction id is refused: only a correction counts it | `LedgerCountsPaise` without `"failure" \notin incidents`; one request |
| organizations and partners are listed with pagination (`organizations.controller.ts:64`, `README.md:175`) | organizations and partners are ordered by one column that is not unique: with equal keys, a row may be on two pages and another on none although nothing changed | `NothingMissed` and `NothingTwice` with `{"shrunk"}` and `{"grown"}` for the sets |
| the total is that of the items | `update` saves the invoice with the items it loaded before it deleted them; the cascade writes the old ones again and drops the new (where `OrphanedItems` is `"nullify"`, the save is refused) | `OrphanedItems = "delete"`, `Quiet => \A i \in Invoices, x \in ItemsOf(i) : invoice[i].total = x.sum`; one request |
| an address registers once (`auth.service.ts:120`) | both registrations look it up before either stores its user | `EmailIsUnique` without its guard |
| a partner's GSTIN exists once (`business-partners.service.ts:33`) | the same, and `update` looks nothing up; no unique column backs it | `CreatedGstinIsFree` without its guard |
| a deleted organization is deleted (`organizations.controller.ts:105`) | an overlapping update saves it back | `RemovedStaysGone` without its guard |
| a stored bill is answered with 201 (`compliance.controller.ts:52`) | the date of vehicle details is text, and the answer calls a `Date` method on it | `StoredBillIsAnswered` without `b.vehicle` |
| a partner is created (`business-partners.controller.ts:39`) | `create(dto)` sets neither `organizationId` nor `createdById`, which the entity requires | `PartnerOrg = "required"`: `partners` stays empty |
| a taken GSTIN is a 409 (`organizations.controller.ts:45`) | TypeORM names the constraint `UQ_` and a hash, without `gstin` in it: 500 | not in the model |

### Bounds

Sets of model values stand for keys, and because rows are never reused a finite set bounds
how many are ever made.

* Two request slots: each race here is a pair, one request that read and another that
  wrote. The theorems hold for any number.
* `InvoiceLedger`: one invoice and its organization where requests overlap, since handlers
  of different invoices touch no common row but a transaction id, which two payments of
  one invoice contend for as well; two invoices for a client that waits, so that a
  correction may sum the payments of the other one. Two payments: one to pay, one to
  exceed the remainder or to overwrite the sum. A transaction id and the lack of one: a
  retry and a payment that is none. Totals above and below the amount, so that an edit
  lowers the total below what was paid. Amounts: 600 is appended and rounds to a paisa,
  and two of it exceed the total; 50.50 is text that is refused, and together with 600
  shows that the sum is not what is counted. `RaceOps` leaves `send` and `void` out of the
  overlapping run: they save a status as `update` without items does.
* `OrphanedItems` is `"nullify"` for the client that waits, what TypeORM 0.3 makes of the
  entities, which state no action on the side of the items: there the save that follows
  an edit of the items is refused, and the old total stays. It is `"delete"` where
  requests overlap, what the option on the side of the invoice asks for: there edits
  change the total under payments in flight. The theorems hold for both.
* `Batches` bounds the number of edits, `Hashes` the number of password changes and
  registrations, `TaxIds` the organizations, `Payments` the payments, since rows in flight
  keep their keys.
* `Compliance`: two organizations, one with an invoice, the other with an invoice and a
  period, so that a removal meets handlers of its own rows and of others', and a body can
  move a bill to the invoice of another one, or of a removed organization.
* `Listing`: three rows, pages of two, three keys: a row may move over either border of a
  page, and a tie may lie on it.
* `InvoiceTotals`: three items exceed two, so that an accumulator is read, changed and
  read again; quantities, rates and percents are chosen so that taxes (24.975,
  89.91, 1.5 and 5.4 paise) fall below, on and above a half, and a subtotal on one.
* `RateLimiter`: a limit and a window of three ticks are enough to place requests before,
  at and after a border. `MaxRestarts` allows one restart in each stretch of a window.
  Time is relative to the current tick, so it needs no bound.

`CHECK_DEADLOCK FALSE` is set where the system may really stop: a request of
`InvoiceTotals` ends, and `OverlappingAccounts` and `TokenTwice` use up their keys.

### Fairness

* `InvoiceTotals`: weak fairness of the look-ups and the save: Node runs a handler once
  its promise settles, and the driver settles every promise. None of the edits of
  products.
* `RateLimiter`: weak fairness of `Tick`: time passes.

The other modules state safety only. In particular a walk through a list that keeps
growing need not end, whatever is fair.

## Theorems

Every invariant and every action property of the passing runs is a theorem. Where the
column "Assumes" is empty, only the assumptions on constants are used that the modules
state and TLC evaluates on every run. Any number of everything is allowed: requests,
organizations, users, invoices, payments, rows, items, keys; any amounts and totals,
negative ones included; failures, removals and both treatments of orphaned items.

| Module | Theorem | Says | Assumes |
|---|---|---|---|
| `InvoiceLedger` | `TypeCorrect` | `[]TypeOK` | |
| | `ClosedForGood` | `[]RemovedBooksStayClosed` | |
| | `NeverOvercounts` | `[]PaidNeverOvercounts` | amounts are not negative |
| | `ClaimsStayWithinWorth` | `[]ClaimsWithinWorth` | |
| | `HistoryIsExact` | `collected` is the sum of the payment rows, always | |
| | `CountedOnce` | `[]PaymentsCountOnce` | |
| | `StatusesFollowTheRules` | `StatusDiscipline` | one slot |
| | `CorrectionsRepair` | `CorrectionRepairsDrift` | one slot |
| | `HandlersImplementTheBook` | `ImplementsBook` | one slot |
| | `BooksCountPaise` | `[]LedgerCountsPaise` | one slot |
| | `EventsAreTrue` | `[]EventsTellTheStatus` | one slot |
| | `OneListPerInvoice` | `[]OneItemList` | one slot |
| `InvoiceTotals` | `TypeCorrect` | `[]TypeOK` | |
| | `AccumulatorsAreSums` | `[]AccumulatorsAddUp` | |
| | `TaxIsNearExact` | `[]TaxNearExact` | |
| | `ColumnsAddUp` | `[]StoredAddsUp` | |
| `Accounts` | `TypeCorrect` | `[]TypeOK` | |
| | `UsersKeepTheirOrg` | `[]UsersHaveTheirOrg` | |
| | `SpentTokensStayDead` | `[]SpentTokensAreDead` | |
| | `OneUserPerEmail` | `[]EmailIsUnique` | |
| | `TokensWorkOnceAlone` | `[]TokenWorksOnceAlone` | |
| | `OrgsHaveUsers` | `[]NoOrphanOrgs` | |
| `Registry` | `TypeCorrect` | `[]TypeOK` | |
| | `CatalogStaysConsistent` | `[]CatalogIsConsistent` | |
| | `RemovalsLast` | `[]RemovedStaysGone` | |
| | `GstinsAreChecked` | `CreatedGstinIsFree` | |
| `Compliance` | `TypeCorrect` | `[]TypeOK` | |
| | `BillsStayConsistent` | `[]BillsAreConsistent` | |
| | `FilingsStayConsistent` | `[]FilingsAreConsistent` | |
| | `DatesStay` | `FiledDateKept` | |
| | `StoredIsAnswered` | `StoredBillIsAnswered` | |
| `RateLimiter` | `TypeCorrect` | `[]TypeOK` | |
| | `BurstsAreBounded` | `[]BurstBound` | |
| | `RefusalsAreDeserved` | `[]RefusedOnlyWhenSpent` | the window is a number |
| `Listing` | `TypeCorrect` | `[]TypeOK` | |
| | `WalksMissNothing` | `[]NothingMissed` | |
| | `WalksRepeatNothing` | `[]NothingTwice` | |
| | `TotalsCover` | `[]TotalCoversPage` | |

The assumptions are needed, and each says something of the code:

* "One slot" (`OneSlot`) is the client that waits for each answer. With the constants of
  `SequentialClient` and two slots, TLC finds each of these properties violated. The other
  modules put the same condition into their properties, by `overlapped` or `disturbed`.
* "Amounts are not negative": `@IsNumber` sets no minimum. A payment of -50 is stored, and
  its text "0.00-50" refused, so that `collected` falls and `amountPaid` does not.
* The numeric window: `LimiterFromEnvironment` refutes `RefusedOnlyWhenSpent` otherwise.

What a payment that is counted adds is a paisa, since the digits of the amount are
appended; `LedgerCountsPaise`, `PaymentsCountOnce` and `InvoiceBook` (`Count`) say so, and
`StringHydration` refutes what the code means, that the sum is added. Corrections are
part of every theorem. Three properties speak of the time until the first one
(`Uncorrected`): `updatePayment` may change a payment that was already counted, lower one
below what was recorded while another request holds the old sum, and write a sum instead
of paise. Edits are part of every theorem as well: one may lower the total below what was
paid, which is why `ClaimsWithinWorth` compares with the most the invoice was ever worth
(`worth`: its totals, and what a correction declared), not with its total.

### How they are proved

Hardly any of these properties is inductive: a request in flight carries values it will
write. So each proof has a strengthening that says what every handler in flight holds, at
each of its awaits, and what the rows are meanwhile; the module's comments introduce them
where they are defined. Each step of `Next` has its case and each conjunct its step, and
what the first awaits, the calls, or the steps that write nothing, have in common is a
lemma (`BeginType`, `RecordsCall`, `CountQuiet`, `WorthSlot`).

Ledger, overlapping requests:

* `ClosedForGood`: `RecordsInv` adds that the invoice of every busy request is stored
  unless its organization is gone, and that the items in its hands are of that invoice
  (`OnRecord`). So the only row a save can miss is one whose insert is refused. The money
  theorems below rest on it: a removal sets an account back to nothing, and no entity of
  that account is written afterwards.
* `HistoryIsExact`: `CashInv`, on `KeyInv`: the key of a payment on its way is no row's
  and no other request's, so every insert is of a new row, every correction of one.
* `CountedOnce`: `CountInv` adds `Backed`: the number a busy request may write counts only
  payments that are stored. A payment that is inserted counts once at most
  (`CountedInsert`), in the table and in the entity alike (`AddPaidCounts`, the one fact
  about text), and until the first correction the table only grows while the invoice is
  stored, which makes `Backed` stable under other requests' steps. Where a removal empties
  it, `KeyInv` and `Stored` in `Backed` say that nothing is written afterwards.
* `NeverOvercounts`: `MoneyInv`: what counts is a positive amount, so as long as none is
  negative the number of payments that count is at most what is collected; the rest is
  `CountedOnce`.
* `ClaimsStayWithinWorth`: `WorthInv` adds `Fits`: what every entity in flight may write
  is within the worth of its invoice, and one that is to insert a payment has room for it.
  `worth` never falls (`WorthRises`), so `Fits` is stable (`StillFits`). Corrections keep
  it because a sum that is a number is that of one row at most (`SumFits`), and that row
  is within the worth of the invoice it belongs to.

Ledger, a client that waits: `InStepInv` says what the only handler is about to do to the
row as it is now (`SendPlan`, `VoidPlan`, `EditPlan`, `PayPlan`, `CorrectPlan`), and that
`save()` found exactly the columns in which the two differ. Hence a write makes the row
what the plan says. `StatusesFollowTheRules` and `CorrectionsRepair` follow, and
`HandlersImplementTheBook` is one case per action: a write is the step of `InvoiceBook`
that the plan is named for, `InsertPayment` is `Receive` and `Flush` is `Count`,
`WritePayment` is `Amend` and the save `Settle`, `RemoveOrg` is `Close`, all else
stutters. `BalancedInv` says that `amountPaid` is behind the payments that count only
while a handler owes the write (`Owing`), `EventsInv` that the last event is wrong only
while the next is to be emitted (`Announcing`). `ItemsInv` says that the list in the
handler's hands is the invoice's or replaces one that is deleted (`Listed`), through an
edit that fails, is rejected, or saves over the rows it has just replaced.

Item totals: `SumInv` says the accumulators are the sums over the prepared items, which a
look-up extends by its own; `RoundedInv` that each tax is its exact value to half a paisa
(`NearestIsNear`), `StoredInv` the same of what was stored. The sums of terms that lie
within half a unit of each other lie within half a unit for each term (`TallyNear`).

Accounts: `HashInv` says that the hash a handler holds is nobody's, no token's and no
other handler's, so what a confirmation stores revives no token that was spent.
`AloneInv` says of a history without overlap that what a handler looked up is still so
(`LooksUpTrue`), and that each organization has its user or the handler that is about to
store it (`Filled`). `UsersHaveTheirOrg` and `CatalogIsConsistent` are inductive with the
types: the database checks the reference when a row is written, and the cascade removes
both. `Registry` has an `AloneInv` of the same kind; that the keys of organizations and of
partners differ, both being generated uuids, is its assumption `KeysAreDistinct`.

Compliance: uniqueness is inductive with the types, since an insert is checked against
every row (`BillIsRefused`, `FilingIsRefused`) and a late write rewrites one row, which
keeps its key and takes no other row's number or invoice, nor an invoice that is gone
(`WrittenBill`, `WrittenFilings`). So what the handlers look
up beforehand is not needed for it. `DatesStay` needs `DateIsHeld`, `StoredIsAnswered` its
like `BillIsHeld`: while requests do not overlap, the entity that is about to be saved
agrees with its row, or what differs is written with it; `AloneInStep` (the other slots
are empty) makes that stable.

Rate limiter: `BurstInv` bounds what a key got through in the last `a` ticks, for every
`a` at once: by the limit, and once more for each restart, besides what the open window
has counted; by that count alone where the stretch lies inside the window. A tick shifts
the stretches, a request counts in each.
`SpentInv` says that the requests an open window counts lie within the last window.

Lists: `Ahead(x)` is the number of rows before `x`. `MissInv` says that each row of the
first list not yet given (`Pending`) has at least as many rows before it as the walk has
gone past (`Waits`), which additions only increase; `TwiceInv` that each row given has
fewer, which removals only decrease; `CoverInv` that the list is long enough for the page
until it is counted. They were checked by TLC on the constants of `ListingsWhileEditing`
before they were proved.

`FiniteSums` carries the sums. It proves that `MapThenSumSet` of the community modules
does not depend on the order in which it takes the elements, what it is for one element
more, and how sums compare, each by a smallest counterexample among the subsets of the
finite set (`SubsetInduction`, from the well-foundedness of strict inclusion), since
induction theorems with an operator as parameter cannot be used.

### Only model-checked

* `Settles`, `RefusalEnds`: liveness under fairness and `ENABLED` are out of reach of
  TLAPS.
* The runs that refute: each is one counterexample.
* That the theorems need their assumptions: TLC's counterexamples, as said above.

## Abstractions and assumptions

* Keys, bcrypt salts and generated tax numbers: fresh values, drawn when a handler starts;
  nobody can tell. A fingerprint (16 hex digits) determines its hash.
* Reset and refresh tokens do not expire: more behaviours than the code has.
* `invoices.userId` is required by the entity and set by no handler. `InvoiceLedger`
  models a database that takes the row; with a schema synchronised from the entities
  `create` is refused and there is nothing to check.
* Amounts in `InvoiceLedger` are exact paise; binary rounding is in `InvoiceTotals` only.
  `RoundsUp` reads the leading digit of amounts below ten million rupees.
* `@IsNumber` sets no minimum, so amounts and totals may be negative in the model; of the
  theorems only `NeverOvercounts` excludes negative amounts.
* An organization that an overlapping update saves back after its removal is in `Registry`
  only. In the other modules a removed organization does not return, so what they and the
  theorems say of removals holds as long as no update of the organization overlaps its
  removal.
* A GSTIN stands for a PAN too: they are handled alike, one after the other.
* The bodies of `PATCH` on payments, bills and filings are typed `Partial<...>` or as a
  literal and so are not validated. Of a payment's, `amount`, `transactionId` and
  `invoiceId` are modelled, where the last changes only which payments are summed, since
  the loaded `invoice` decides the column. A body with a key `invoice`, `organizationId`
  or `paymentId`, which the DTO does not declare, would move the payment or write another
  row, and is not modelled. A bill's may carry everything its entity has; a filing's
  status may be any text. Where such a body holds what a column does not take, the write
  is refused: `RefuseWrite`, `RefuseValue`.
* The insert of a row without a key is one step: `save()` has nothing to select by then
  (`Create`, `InsertPayment`, and the inserts of the other modules).
* In `Registry` a save is one step that writes the whole row, where TypeORM writes the
  columns that differ from a row it selects just before. The properties of that module
  are about keys, unique columns and removals, which the database decides at the write.
* External behaviour modelled from its use: TypeORM's `save`, PostgreSQL's unique columns,
  foreign keys, enum types and cascades, the pg driver's decimals, `Date.now`.

## Not modelled

* Guards and strategies: decisions on a token and a route alone, without a table, an await
  or a later step that could meet them changed.
* Response formats, filters, interceptors, logging, Swagger, health, configuration, seeds:
  no state that a property tells apart. `seeds/create-admin.ts` is run by hand before
  there are clients.
* Single reads (`findOne`, `getPayment`): one query and its answer. They are in the models
  as the first step of the handlers that call them.
* `common/services/event.service.ts`: published events are logged only, nobody calls it.
  EventListener logs. It subscribes to names that are emitted by nobody
  (`payment.received`, `product.created`, `product.updated`, `ewaybill.generated`,
  `gstr.filed`).
* Several processes: each has its own rate limiter; for the tables they are just more
  requests.

## Plan

1. A bound on how far overlapping payments over-collect, from the number of requests.
2. `HandlersImplementTheBook` for requests that overlap on different invoices, where a
   slot per invoice should do for `OneSlot`.
3. The save of `Registry` in two steps, as in `InvoiceLedger` and `Compliance`.
