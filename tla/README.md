# Verification of Merch Manager (protovibe-merch)

Merch Manager is a point of sale for bands: a Go API over MariaDB, and a Vue
single-page app that keeps selling while it is offline. Sellers stand at a merch
table with a phone, the connection comes and goes, and several of them book at
the same time on one stock and one sequence of receipt numbers.

This directory holds TLA+ specifications of the program's own core logic, the
TLC instances that check them, and theorems proved with TLAPS. The source is the
reference: definitions are translated from the code, and `PROJECT.json` maps each
one to the lines it stands for. Paths below are relative to `src/`, with
`services/`, `api/` and `auth/` for the directories under `backend/internal/`.

1. [The system](#1-the-system)
2. [Modules](#2-modules)
3. [What is checked](#3-what-is-checked)
4. [What is proved](#4-what-is-proved)
5. [Where the code and its words part](#5-where-the-code-and-its-words-part)
6. [What is not modelled](#6-what-is-not-modelled)
7. [What is left](#7-what-is-left)

To repeat: `tlc -config X.cfg M` for the pairs listed in section 3, `tlapm M.tla`
for the eight modules whose names end in `Proofs`.

## 1. The system

### Components

| Component | State it keeps | Operations | What is hard |
|---|---|---|---|
| Sale booking: `services/sales/service.go`, `api/handlers_sales.go` | `sales`, `sync_events` | `Book`, `BookHistorical`, replay of an event | overlapping transactions, retries, midnight |
| Receipt numbers: `services/receipt` | none: scans the tables | `Next`, `Allocate`, preview | allocation and insert are apart; reservations share the sequence |
| Payment-QR reservations: `services/paymentqr`, `api/handlers_paymentqr.go` | `payment_qr_intents` | reserve, cancel, redeem, expire, purge | races of reservation, booking and purge |
| Automatic withdrawal: `services/catalogue/auto_withdraw.go` | `is_offered` | after every booking | stock counted in a snapshot |
| Sales page: `frontend/src/views/band/SalesView.vue` | busy flag, the prepared sale | deliver once, queue on a network failure | the answer may be lost after the booking |
| Offline queue: `frontend/src/offline`, `stores/offline.ts` | IndexedDB outbox, one flush per tab | enqueue, synchronise, mark, discard | lost answers, several tabs, rejections, practice mode |
| Money: `services/money`, `services/sales/compute.go` | none | `Distribute`, `Prepare` | cents lost to rounding |
| Sale life cycle: `services/sales/lifecycle.go` | `sales` | cancel, deliver, mark paid, change shipping | lost updates on rows of one receipt |
| Support access: `services/platform/support_access.go`, `auth/session.go` | `support_access_grants`, `sessions.acting_grant_id` | request, decide, activate, revoke, resolve a session, expire | no transactions; the clock |
| Scheduler: `services/scheduler` | none | periodic purge, expiry, materialisation, backup | a pass may fail between two steps |
| Packing list on the server: `services/packing` | the list with revision and generation, `packing_sync_events`, photo files | apply a change, replay, upload a photo, reset | a snapshot older than the lock, files outside the transaction |
| Packing list on the device: `frontend/src/offline/packing.ts` | IndexedDB queue and snapshot | mutate, synchronise, overlay, retry, dismiss | lost answers, refusals in the middle of a queue, generations |
| Recurring finance: `services/bandfinance` | rules, run ledger, entries | create, pause, resume, delete, catch up | catching up against pausing; occurrences that pile up |
| Sandbox: `services/sandbox`, `api/middleware.go` | `sandbox_environments`, cookies, files | enter, resume, reset, leave, touch, purge | slots, concurrent entry, a purge that fails halfway |
| Accounts and sessions: `auth`, `api/handlers_auth.go` | users, sessions, pending tokens | log in, second factor, set-up, profile | full-row saves, copies of an account's version |
| Band administration: `api/handlers_bandadmin.go`, `services/platform/bands.go` | users of a band, `is_active` | create, demote, deactivate, delete | the last administrator, the quota |
| Registration: `services/registration` | requests, setup codes | request, decide, claim, expire | an expiry decided without the lock |
| Catalogue: `services/catalogue` | articles, options, variants | save options, withdraw, drafts | variants derived from options, stock derived from ledgers |
| Purchases: `services/purchases` | goods receipts | create, correct, cancel | corrections that lower the stock |
| Uploads: `services/storage`, `api/handlers_photos.go` and others | files and the rows that name them | upload, replace, delete | row and file change in two steps |
| Backup and restore: `services/backup` | runs, directories, the band's rows and files | back up, restore, prune | a process that stops at any step |
| Balances and finance report: `services/balances` | none: reads sales, purchases, band transactions | headline figures and some ten breakdowns of a period | independent queries that have to agree |
| Import, export, mail, audit | tables | conversions, records | little concurrency of their own |

### Interactions

- The sales page posts a sale with an event id it has drawn (`prepareSale`). If
  the network fails it stores the same sale under the same id in the outbox;
  `synchronize` resends it until the server has decided. `sync_events` makes the
  resend idempotent, and its unique key settles a race of two deliveries.
- A booking draws its number from `receipt`, which scans `sales` and
  `payment_qr_intents`; a reservation draws from the same sequence and keeps its
  number taken while it lives. A booking that quotes a payment code redeems the
  reservation and consumes it.
- After the rows are inserted the booking withdraws variants that are sold out;
  a withdrawn variant fails later quotes and bookings.
- The life cycle works on the rows a booking wrote, with the same `Distribute`.
- `LoadSession` reads the grant a session is bound to on every request and clears
  the binding of one that is not live; the scheduler expires lapsed grants.
- The practice mode switches the tab's `apiMode`; the outbox is shared by both.
- The packing page keeps a snapshot and a queue; `synchronizePacking` transmits the
  queue in order, fetches the list and lays what is still queued over it. The
  server's hint (`Hub`) only makes it do so sooner.
- A request for a band becomes the band and its first administrator, whose
  sessions carry a copy of the account's version; deactivating the band raises it.
- Purchases and sales are the stock; corrections end with the automatic withdrawal,
  and a change of an article's options derives its variants anew.
- The balances page and the finance report read what bookings, the life cycle,
  purchases and the band's own entries have left in the tables; each figure is a
  query of its own.
- The scheduler's passes (reservations, support windows, registrations,
  environments, recurring entries, backups) meet requests at any point.
- A restore replaces the rows of a band in one transaction, then its directory,
  in which uploads and the packing list keep their files.

### What makes each one correct

- *Booking*: an event enters the ledger once, however often and however
  concurrently it is sent; every success names the receipt it is stored under; a
  payment code is redeemed by one basket; receipt numbers are unique.
- *Reservations*: a displayed code keeps its number until it lapses and decides
  the receipt of the basket paid by it; what was redeemed is never released.
- *Offline queue*: no sale is lost, entries are sent oldest first, a sale shown
  as rejected is not booked, and the queue is emptied once the connection stays.
- *Money and life cycle*: every row balances, the rows add up to the money
  received, receipts are paid as a whole, cancelled rows are frozen.
- *Support access*: a revocation is final, a session acts under a grant of its
  own that a band admin approved, and every window closes.
- *Packing list*: a change is applied once, every answer is the list of its
  revision, a photo on the list has its file; on the device no change disappears,
  none overtakes an older one, and the page ends up showing the server's list.
- *Registration*: one band per request, one name per band, one handover of a code.
- *Accounts*: a change that signs out leaves no session and no sign-in that was
  under way.
- *Goods*: stock stays in the catalogue, what is sold out for good leaves it.
- *Files*: no row without its file, and a restore keeps what it replaced.
- *Recurring finance*: every occurrence is entered once, none is passed over, and
  what is due is booked without anybody looking.
- *Reports*: whatever was corrected, cancelled, parked or paid late, the parts of a
  page come to its headline figures, and a period is the difference between the
  balances at its two ends.
- *Practice mode*: concurrent starts never take more environments than there are,
  and what was given up is removed.

`PROJECT.json` lists the hazards behind these properties at the line where each
bites.

## 2. Modules

```
BookedOnce <--(refines)-- SalesBooking <--EXTENDS-- OfflineSales
                               ^                         ^
                        SalesBookingProofs <--EXTENDS-- OfflineProofs
BookedOnce <--(refines)-- PackingList  <--EXTENDS-- PackingDevices <--EXTENDS-- PackingProofs
Money <--EXTENDS-- SaleLifecycle <--EXTENDS-- MoneyProofs
Money <--EXTENDS-- Reports <--EXTENDS-- Balances <--EXTENDS-- MoneyProofs
SupportAccess <--EXTENDS-- SupportAccessProofs
Catalogue <--EXTENDS-- Purchases
Accounts, Registration, Purchases <--EXTENDS-- BandsProofs
Sandbox, Finance <--EXTENDS-- SchedulesProofs
Uploads <--EXTENDS-- Backups <--EXTENDS-- BackupsProofs
MC<Module> EXTENDS <Module> with what its configurations need

MCMembers   = SaleLifecycle | PackingList             MCDevices   = OfflineSales | PackingDevices
MCSchedules = Sandbox | Finance                       MCBands     = Registration | Accounts | Purchases | Backups | Sandbox
MCBooking   = SalesBooking | Balances
```

The five modules in the last three lines put components that share no state side by
side: a variable `part`, chosen initially, says which of them a behaviour follows,
and the others stay at their start. The states of such a run are the sum of those
of its parts, not the product, and every property speaks of one part. In `MCBands`
the choice of accounts does not matter to the other parts, so `users` is fixed
there. Components that do share state are composed by EXTENDS. `BandsProofs`,
`SchedulesProofs` and `MoneyProofs` put the theorems about such neighbours side by side, one section
for each; no theorem speaks of two of them.

A definition whose comment starts with "Fault:" is not part of any
specification. It is a plausible bug in the definition after it, kept to show
that the properties would notice.

### Conventions for the database

MariaDB runs transactions at REPEATABLE READ. The plain selects of a transaction
all see one snapshot, and its writes appear together at the commit. A transaction
is therefore two actions, one that reads and remembers, one that writes. Anything
may happen between them. A lock wait is the other order of two commits, a
deadlock a rollback (`Fail`, `Abort`). `SnapshotIsolation` stands for
`innodb_snapshot_isolation`, on by default since MariaDB 11.6.2: a write to a
row that was changed after the snapshot fails. What runs outside a transaction
gets an action per statement where another actor can come in between.

### SalesBooking and BookedOnce

| TLA+ | Code |
|---|---|
| `sales`, `syncEvents`, `intents` | the tables; unique keys on (band, event) and on (band, receipt) of the reservations as in `migrations/0001_init.up.sql`; there is none on `sales.receipt_id` |
| `req[r]` | one HTTP request being served, with the local variables it carries from one step to the next |
| `ReceiveSale`, `ReceiveHistorical`, `ReceiveReservation` | the handlers up to the first read; a sale is dated with the day it arrives |
| `Replay` | `sales.Service.replay`, before and outside the transaction |
| `Begin` | `book` up to the first write: `loadPrices`, `redeemIntent`, `Allocate`, the stock check |
| `Commit` | rows, `AutoWithdrawDepleted`, `consumeIntent`, `recordSyncEvent`, COMMIT |
| `Allocate`, `Reserve` | one round of the loop of `createPaymentQRIntent` around `CreateIntent` |
| `CancelIntent`, `Expire`, `PurgeExpired` | cancellation, the TTL, the scheduler's purge |
| `Fail`, `Finish`, `Midnight` | a 5xx before the commit, the answer, the calendar |

Abstractions. Every basket sells one unit of one no-reorder variant, so stock is
the number of baskets against `Stock`. A receipt id is its day and number. The
payload fingerprint is what may differ between two deliveries of one event, the
day the server fills in and the historical flag: the app sends no `sold_on` and
always resends the payload it first sent. A preview may be any number up to the
next one. The deletion and the insert of `CreateIntent` are one step. The 24 hours
a lapsed reservation is kept before the purge are dropped: it may be purged any
time after its expiry, a superset of the code's behaviour. (The comment in the
scheduler speaks of consumed reservations as purged too; `PurgeExpired` keeps
them, and so does the model.)

`BookedOnce` is the promise to a device that retries: an event is entered once
and stays. `SalesBooking!Once` maps the ledger to it.

### OfflineSales

The device, around the same server: `OfflineSales` EXTENDS `SalesBooking`, and a
delivery occupies one of its request slots, which goes on being served after the
device gave up on it.

| TLA+ | Code |
|---|---|
| `link` | `up`; `down`: the browser knows; `dark`: the server is unreachable behind a working interface |
| `Sell`, `SellPractice`, `ViewAnswer`, `ViewLost` | `SalesView.book` and what it does with the answer |
| `outbox` | the object store `sales` |
| `StartFlush`, `Tap`, `TakeNext`, `FlushAnswer`, `FlushLost` | `synchronize` and the ways it is started |
| `MarkRead`, `MarkWrite` | `markAttempt`: one IndexedDB transaction reads, another writes |
| `LinkChanges`, `Reload`, `SwitchMode` | the `online` event, a tab closed and opened, `setApiMode` |

Sales are cash. An answer is lost only while the link is not up. The removal of
an entry and the arrival of its 2xx are one step; `Reload` comes before or after.
Baskets of goods name variants of the band they were sold in, so the practice
mode and the real band reject each other's; a donation names none and passes
between them.

### Money and SaleLifecycle

`Money!Distribute` is the code's algorithm: floors, and the cents left over from
left to right. `SaleLifecycle` follows one receipt. `Read*` are the first
halves of `Cancel`, `SetDeliveryStatus` and `MarkPaid`, `Commit` the second half
of whichever it was. `UpdateShippingCost` selects FOR UPDATE and is one step;
`Repriced` is its arithmetic over the active rows in order of id (`InOrder`).
`given = 0` stands for the NULL of an unpaid row. A row counts as changed since
the snapshot if its value differs; a change to and fro in between, which the
database would notice, is let through, so the model has more behaviours here, not
fewer. `handed` records what the band received.

### Reports and Balances

`Reports` is pure: what `ComputePeriod` and `FinanceReport` work out of given books.
`Balances` makes the books.

| TLA+ | Code |
|---|---|
| `Within`, `LiveIn` | `Period.apply` and the clause on `is_cancelled` of every query |
| `Summary`, `Listed`, `Purchased`, `Sold` | `summaryPeriod` over `variantRowsPeriod` and `StockMapAt`: merchandise through the table of variants, the rest directly |
| `HolderTotals` | `accountHolderTotalsPeriod`: three queries, merged by holder |
| `ItemRanking`, `EventRanking`, `CostBasis` | `itemRankingsPeriod`, `groupRankingPeriod`, `costBasisAt` |
| `DailyIncome`, `Timeline` | `dailyIncomePeriod`, `eventTimelinePeriod`; `EventGap` for its 31 days |
| `Methods`, `Categories`, `Inventory`, `Assets`, `Announced` | `FinanceReport` |
| `saleRows`, `BookSale`, `BookOther`, `PaySale`, `ChangeShipping`, `CancelSales` | `sales` with the columns the reports read; `Prepare`, `MarkPaid`, `UpdateShippingCost`, `Cancel` |
| `purchaseRows`, `Purchase`, `CorrectPurchase`, `CorrectReceipt`, `CancelPurchases` | `purchases`; the services of the same names |
| `transactionRows` and its four operations | `band_transactions`; `Create`, `Update`, `Settle`, `Cancel` |
| `isActive`, `ParkVariant` | `variants.is_active`, changed by a save of options |

The figures of a page are read statement by statement, outside a transaction; the
model reads them of the same books, so it says what a page shows that nobody writes
during. For the same reason each operation is one step: how two of them
overlap is the matter of `SaleLifecycle`, `Purchases` and `Finance`. An article has
one variant. `CorrectReceipt` gives every active row the same quantity and cost.
A `Fault:` is a holder's share that adds the shipping once a row, and an event
whose first day is looked for in the period only.

### SupportAccess

One band. Each handler reads the grant and later updates it by its id alone,
without a transaction, so the two are separate actions: `ReadToDecide` then
`Approve` or `Deny`, `ReadToActivate` then `Activate` then `Bind`, `ReadToRevoke`
then `Revoke` then `Detach`, `ReadSession` then `Admit` or `Refuse` then `Clear`;
the sweep is `ReadLapsed`, `MarkExpired`, `DetachLapsed`. `Finish` also ends any
request with an error halfway. Every account has one session that lives on; the
second factor and the read-only restriction of the scope are left out.
`approved`, `withdrawn` and the `late` mark of a request are observations.

### PackingList

| TLA+ | Code |
|---|---|
| `asked` | what every event asks for: the payload the device fixed when it was made |
| `list`, `generation`, `log` | `packing_bags`, `packing_items`, `packing_photos` in position order; the state row; `packing_sync_events` with the recorded answers |
| `files`, `orphans` | photos whose file is stored; files no row will ever name |
| `ReceiveChange`, `ReplayChange`, `Store` | the handler up to `Apply`: the look at a recorded answer, the quota and the stored file of an upload |
| `Look`, `CommitChange`, `RefuseChange` | `Apply`: the look that opens the snapshot, the lock and everything up to COMMIT, a refusal |
| `Clean`, `FailChange`, `Restart`, `FinishChange` | removal of files after the commit, ROLLBACK, a server that stops, the answer |

The event is looked up before the state row is locked, so the snapshot is older
than the lock. Under `innodb_snapshot_isolation` the lock fails when the row was
changed since; `Locked` says so and `LockedAnyway` is the fault that shows what
happens without it. `Orders` is what `reorder` asks of an order before it writes
positions, `Reordered` the rows in those positions. A reset is an ordinary change that raises the generation; a
change of status names the generation it was made in.

### PackingDevices

The devices around the same server. `Mutate` is `mutate` with `addPhoto`; a run of
`synchronizePacking` is `StartRun`, `Transmit`, `Answered` or `Lost` for each entry,
`FetchState` and `FetchRows` (two requests), and `Save`. `Retry` and `Dismiss` are
the two buttons of `resolvePackingFailure`, `ClosePage` a reload at any point,
`Elsewhere` the change of another device. `Overlay` replays the queue over a
snapshot with the app's own, more forgiving operations (`Shown`, and `Sorted` for its
stable sort). `queue` and the rest of a run
are sets read in the order of the entries' numbers, as the object store is read by
key. Being signed out is being out of reach. `MaxShown` bounds a list that grows on a device nobody lets online.

### Registration

`LockRow` is the SELECT FOR UPDATE of `Approve`, `Reject` and `Claim` with the
checks that follow; the three then write and commit. `LookUp` and `ExpireOne` are
the status page, which decides without a lock that a request is overdue and then
writes by id; `Expire` is the job. `handed` counts handovers of a code.

### Accounts

`Authenticate`, `CheckBand`, `PeekPending`, `ConsumePending` and `CreateSession`
are the statements of a sign-in; a session keeps the version of the row it read.
`BeginChange` reads the account, `EnsureAnotherBandAdmin` counts, `WriteChange`
writes the whole row back or updates columns in SQL, `RevokeUserSessions` and
`EraseAccount` follow. `DeactivateBand`, `RaiseVersions` and `RevokeBandSessions`
are the two statements of a band's deactivation. `changes` counts the changes of an
account that must sign out, and is what `version` is compared with. `Alone` keeps
a change that saves the whole row it read (`SavedWhole`) apart from every other of
that account and from a deactivation: it would undo one that came in between,
version included, and the code has nothing against it. The properties are about what holds otherwise.

### Sandbox

Every request reads its environment at the door (`LoadEnv`), marks it when it has
lapsed, or slides its expiry by id (`Touch`), and acts on the row it read. `FindOwn`,
`CountSlots` and `CreateEnvironment` are a start, or a reset, which counts without the slot it
replaces; the settings row is locked between counting and creating
(`SettingsLocked`). `Enter` answers with the cookie of the environment, `Leave` gives
up the one the browser came with, and `Abandon` the new one when a reset cannot go
through with that. `DiscardSandbox` is a visitor who leaves the practice mode. People sign
in and out on the browsers in `SharedBrowsers` (`SignInOrOut`): the cookie of the practice
mode stays, so an anonymous environment is left for the account's own, and that of
one account is refused at the door to the next. `FindDue`, `PurgeMark`, `PurgeFiles`, `PurgeRows`, `PurgeFails` are the
job, `Restart` a server that stops, with a newer template or without. `lapsed` and
`line` are observations: who revived an environment after its expiry, and which
start it traces back to.

### Catalogue and Purchases

One article; a key of a variant is a set of option values. `SaveOptions` is
`SaveConfiguration` with `SyncVariants` and `PreserveVariantsForNewOptionGroups`;
stock is read from the ledgers as `StockMap` does. Every operation is one
transaction and one step: nothing in it is decided before the transaction.
`Correct` is the tail that every correction and cancellation of purchases shares.
`StalePages` lets a page save options another page has dropped meanwhile, `Reassign`
lets a correction move a position to another variant; both are FALSE in the run, and
section 5 says what TRUE shows.

### Uploads and Backups

An upload puts the file under a fresh key, then writes the row, then removes what
the row superseded; a deletion reads, deletes the row and removes the file. A
backup records its run, dumps the rows, copies the files; a restore takes a safety
backup, replaces the rows in one transaction (`ReplaceRows`), puts the directory
aside, copies the backup's, forgets the old. Each of these is a step, any of them
can fail, and the process can stop between any two (`Stop`). `lost` and `replaced`
are observations: files a restore that broke off left its rows without, and what
the last restore replaced. A band that has stored nothing has no directory: `Folder`
stands for the directory in `disk` and in the files of a backup. Without one the
backup has no copy of the files, and its restore leaves the band's as they are
(`SetAside`).

### Finance

`ListDue` reads the rules that are due, `Materialize` catches one rule up under the
lock of its row and books the occurrences the run ledger does not know. `ReadRule`
and `SetRecurringActive` are a read without a lock and a write of
`next_run_on`. Months are left out: an occurrence is every `Interval` days. The job
runs in UTC and is a day late at most, so `through` of the scheduler may be today or
yesterday.

## 3. What is checked

States are distinct states.

| Configuration | Instance | Shows | States |
|---|---|---|---|
| `SalesBooking_concurrent` | 2 requests at a time, 2 events, 1 code, one day (`DaySpec`: every step but `Midnight`) | `EventBookedOnce`, `AnswersNameTheBasket`, `CodeRedeemedOnce`, `RedeemedStaysConsumed`, refinement of `BookedOnce` | 548,000 |
| `Booking_books` | booking: 1 request at a time, 1 event, 2 codes, 1 anonymous booking, 2 days, 2 units, no snapshot isolation. Reports: 3 operations on 3 days, 2 variants, 1 basket of two positions, 2 deliveries, 2 holders | `ReceiptsUnique`, `DisplayedCodeKept`, `ScannedCodeDecides`, `DepletedWithdrawn`; `BreakdownsAddUp`, `PeriodsAddUp` | 273,000 |
| `SalesBooking_receipts` | as `_concurrent` | `ReceiptsUnique` is violated | |
| `OfflineSales_practice` | 1 tab that visits the practice mode, 1 slot, 2 sales, 1 reload, 1 day | `QueueInOrder` | 956,000 |
| `OfflineSales_drains` | 1 tab, 2 sales, 2 units, 2 days, fairness | `QueueDrains` | 163,000 |
| `SupportAccess_window` | 2 requests at a time, 1 account, 2 grants, windows of 1 unit, fairness | `RevokedNotServed`, `ScopeByApproval`, `WindowCloses` | 205,000 |
| `Members_work` | life cycle: 2 requests at a time, a free basket and one of 2 and 1 cents, 1 repricing, 2 delivery statuses. Packing list: 2 requests at a time, 2 changes of all 13 kinds, 2 bags, a quota of 2 photos | `RowsBalance`, `PositionsAddUp`, `NeverHalfPaid`, `CancelledFrozen`; `AnswersAreRevisions`, `PackedMeansPacked`, `PhotosHaveFiles`, `AppliedOnce` (refinement of `BookedOnce`) | 1,386,000 |
| `Devices_queues` | sales: 2 tabs, 1 slot, 2 sales, 1 unit, 1 reload, 1 day. Packing list: 1 device beside others, 2 requests at a time, 2 changes of 2 kinds, a quota of 1 photo | `NeverLost`, `RejectedNotBooked`; `NoChangeLost`, `MadeInOrder` | 1,352,000 |
| `PackingDevices_settles` | 1 device beside others, 2 changes of 2 kinds, 1 reload, fairness | `Settles` | 193,000 |
| `Bands_life` | registration: 2 requests, 2 calls, 2 names. Accounts: 2, with 1 sign-in and 1 change at a time. Goods: 2 variants, 2 positions of 1 piece. Files: 2 rows, 2 uploads at a time, 2 backups. Practice mode: 2 browsers, 1 of them shared, 1 slot, 2 environments, 1 fault | `Handover`; `SignedOutEverywhere`; `DepletedNotOffered`, `StockKept`; `FilesPresent`, `SafetyPoint`; `WithinCapacity` | 1,925,000 |
| `Schedules_housekeeping` | practice mode: 1 shared browser, 2 slots, 2 environments, 1 fault. Finance: 1 rule, 1 page beside the job, 3 days, 1 stop; fairness | `MarkedIsRemoved`; `EnteredOnce`, `NothingPassedOver`, `DueIsBooked` | 154,000 |
| `Backups_packing` | 1 invoice and 1 photo of the packing list, 2 backups | `FilesPresent` is violated | |

The type invariants of `SalesBooking` and `SupportAccess` are theorems
(`TypeCorrect`) and in no run. For every property
`PROJECT.json` names a fault in a modelled definition that violates it in the
same configuration.

### Bounds

- *Requests*. Two at a time are the smallest number that overlap. The
  properties compare two baskets, two changes or one of them with its record, so a
  third request adds another party to a race two can already lose. Slots are
  reused without limit: any number of requests follow one another. Where one slot
  is used (`PackingDevices_settles`) the others are present as `Elsewhere`, and
  overlapping requests of the server are the matter of `Members_work`.
- *Days* (`MaxDay`, `MaxTime`, `MaxClock`) the smallest number in which every
  deadline can pass before, between and after the steps that read it: 1 where
  midnight is not the question, 2 where it is, 2 for a registration that lapses
  and is decided again, 3 days of a rule that may fall due on each.
- *Attempts* (`MaxAttempts`) 2 for the 4 of the code: the second already shows a
  retry after a lost race, and running out.
- *Events, codes, changes, anonymous bookings, units*: one or two each, so that a
  variant runs out while a booking or a reservation is under way, and one change of
  the list undoes what the other needs.
- *Tabs, reloads, stops, faults* 2, 1, 1, 1: two flushes over one outbox, one
  resurrected entry, one process that dies between any two steps.
- *The list* starts with a bag of two items, one packed and with a photo, and an
  empty packed bag: every one of the thirteen changes finds something to work on. On a
  device one empty bag is enough: what is deleted, refused or left over is the bag.
- *Statuses*: `Marks`, those people give to bags and items, are all three on the server
  and `packed` alone in `PackingDevices_settles`, where a reset makes it a conflict of
  generations. `DeliveryStatuses` are `shipped` and `received` after the `pending` of the
  booking; the guards tell `received` from the other two.
- *Accounts of support*: one in `SupportAccess_window`, whose question is whether a window
  closes; that a scope is of its own account's grant is proved for any number.
- *Amounts* 4 cents and the exact sum, with a shipping cost of 0 or 3: less than is
  due for some receipts and more for others, so discount, donation and neither.
- *Operations on the books* (`MaxBooked`) 3, on `BookDays` 1 to 3 with an `EventGap`
  of 1: enough for a receipt that is entered, corrected to another day and cancelled
  in part, and for an event with sales on days that are one occurrence or two,
  within any period. The two properties are proved for any number.
- *Windows* of length 1: a window opens at the first moment, ends at the second,
  and a late `Activate` may still write it back after its end.
- *Browsers and environments*: in `Bands_life` two browsers race for one
  slot, and the second environment is a reset's; in `Schedules_housekeeping` one
  browser and two slots, so that a sign-in may leave an anonymous environment for the
  account's own, which a purge has to remove.
- *Backups* two: the one restored and its safety backup, in three seconds, so that
  the older is pruned meanwhile or not. *Variants* two, with a third value that
  replaces one.
- *Reloads of the packing page*: one in `PackingDevices_settles`, none in
  `Devices_queues`, whose two slots already leave deliveries behind that nobody
  waits for; `NoChangeLost` and `MadeInOrder` are proved for any number.
- `Limit` (occurrences one catch-up makes, 1000 in the code) is above what three
  days can pile up; section 5 says what a smaller one shows.

### Fairness

- *Server* (`ServerFairness`): a received request makes progress and is answered;
  a step that is tried again and again does not fail every time, which is strong
  fairness of `Replay`, `Begin` and `Commit`. Nothing weaker lets a retry succeed:
  the code bounds neither its own failures nor the database's.
- *Device* (`DeviceFairness`): the browser runs the handlers of a page that waits
  and the loop of a flush that has begun.
- *Seller*: `Tap` is fair in `AttendedSpec` only. The header shows waiting sales
  next to the button. `UnattendedSpec` leaves it out, and that is a divergence.
- *Packing list* (`Fairness` of `PackingDevices`): a run goes on, the poller starts
  one every ten seconds while the page is open, and a server that is asked again
  and again does not fail every time (strong fairness, as for bookings). Whether a transmission reaches the server is up to
  the connection, which `Settles` supposes to stay.
- *Support*: time passes; the scheduler starts its pass every few minutes, from a
  single goroutine that never overlaps itself (`WF` of reading and detaching); not
  every pass dies before its update (`SF` of `MarkExpired`). Requests are not fair
  at all: a window closes whether or not anybody finishes what they began.
- *Schedules*: the housekeeping goes on (`WF` of `Purging`), days pass, the daily
  job starts and goes on (`WF` of `Materialize` by the scheduler). Restarts and
  failures of a purge are bounded by `MaxFaults`; no visitor and no page is fair.

`QueueDrains` and `Settles` are conditional on a connection that is up from some
time on. No run assumes that it ever is.

### Where a property needs its precondition

- `CodeRedeemedOnce`, `RedeemedStaysConsumed`, `AnswersAreRevisions`,
  `CancelledFrozen` and the sums of the life cycle rest on snapshot isolation. Without it two bookings
  that read one reservation both consume it, and a change of the packing list is
  computed from a list that is no longer there.
- `ReceiptsUnique`, `DisplayedCodeKept` and `DepletedWithdrawn` hold when one
  request is served at a time and fail with two. `SalesBooking_receipts` states
  the first as a finding. The other two share the cause, a snapshot taken before
  the other's commit.
- `RejectedNotBooked` needs one slot and one day. With two slots a retry can
  overtake the delivery it repeats, be refused for want of stock, and be followed
  by the booking it overtook; across midnight it fails as well (section 5).
- `MadeInOrder` leaves out what was refused, even if it is on the server after all: a
  photo's retry can be refused for the quota its own first delivery takes up, younger
  changes go on, and then the first delivery commits.
- `NeverLost` needs a device that stays out of the practice mode (section 5).
- `FilesPresent` and `SafetyPoint` are checked with `Quiet` (nobody uploads while a
  backup or restore is running), `Apart` (no two backups in one second), all tables
  in the backup, and without the rows in `lost`. Each of these is a limit of the
  code, not of the model; section 5 has them one by one.
- `SignedOutEverywhere` leaves out two changes of one account at a time (`Alone`).
- `WithinCapacity` does not count an environment that a request admitted before its
  expiry revived, nor the second of two resets at once: `Touch` and `CreateEnvironment` write
  what they do regardless, and the code counts at the start only.

## 4. What is proved

Eight modules prove theorems, for all values of the constants that satisfy the named assumptions of their modules. Those say what kind of
thing each constant is, and of `Sandbox` what `Config.Validate` insists on: at least
one slot and a positive lifetime.

| Theorem | States |
|---|---|
| `SalesBookingProofs!TypeCorrect` | `Spec => []TypeOK` |
| `BookedOnceForever` | `Spec => []EventBookedOnce` |
| `AnswersCorrect` | `Spec => []AnswersNameTheBasket` |
| `ImplementsBookedOnce` | `Spec => BookedOnceSpec`, the refinement |
| `SerialReceiptsUnique` | `OneAtATime` implies `Spec => []ReceiptsUnique` |
| `SerialCodesKept` | `OneAtATime` implies `Spec => []DisplayedCodeKept` |
| `SerialCodesDecide` | `OneAtATime` implies `Spec => []ScannedCodeDecides` |
| `SerialWithdrawn` | `OneAtATime` implies `Spec => []DepletedWithdrawn` |
| `CodesRedeemedOnce` | `SnapshotIsolation` implies `Spec => []CodeRedeemedOnce` |
| `RedeemedCodesStay` | `SnapshotIsolation` implies `Spec => []RedeemedStaysConsumed` |
| `OfflineProofs!SalesNeverLost` | `~Sandbox` implies `SystemSpec => []NeverLost` |
| `OldestFirst` | `OneTab` implies `SystemSpec => []QueueInOrder` |
| `RejectedForGood` | `OneAtATime`, `MaxDay = 1` and `~Sandbox` imply `SystemSpec => []RejectedNotBooked` |
| `MoneyProofs!DistributeAddsUp` | the shares of an amount in `Nat` by weights in `Seq(Nat)` are in `Nat` and add up to it |
| `ReceiptPaidAsAWhole` | `Spec => []NeverHalfPaid` |
| `CancelledStays` | `SnapshotIsolation` implies `Spec => CancelledFrozen` |
| `EveryRowBalances` | `SnapshotIsolation` implies `Spec => []RowsBalance` |
| `ReceiptAddsUp` | `SnapshotIsolation` implies `Spec => []PositionsAddUp` |
| `BreakdownsAlwaysAddUp` | `BalancesSpec => []BreakdownsAddUp` |
| `PeriodsAlwaysAddUp` | `BalancesSpec => []PeriodsAddUp` |
| `SupportAccessProofs!TypeCorrect` | `Spec => []TypeOK` |
| `RevocationIsFinal` | `Spec => []RevokedNotServed` |
| `ScopeIsApproved` | `Spec => []ScopeByApproval` |
| `BandsProofs!NobodySlipsIn` | `AccountsSpec => []SignedOutEverywhere` |
| `HandedOverOnce` | `RegistrationSpec => []Handover` |
| `DepletedWithdrawnFromSale` | `~Reassign` implies `PurchasesSpec => []DepletedNotOffered` |
| `StockStaysInCatalogue` | `~StalePages` implies `PurchasesSpec => StockKept` |
| `PackingProofs!AnswersTrue` | `PackingSpec => []AnswersAreRevisions` |
| `PackingProofs!ImplementsBookedOnce` | `PackingSpec => AppliedOnce`, the refinement |
| `FilesStay` | `PackingSpec => []PhotosHaveFiles` |
| `PackedStaysTrue` | `PackingSpec => []PackedMeansPacked` |
| `NothingDisappears` | `DevicesSpec => []NoChangeLost` |
| `NothingOvertakes` | `DevicesSpec => []MadeInOrder` |
| `SchedulesProofs!CapacityKept` | `SandboxSpec => []WithinCapacity` |
| `OccurrencesEnteredOnce` | `FinanceSpec => []EnteredOnce` |
| `NoneLost` | `FinanceSpec => []NothingPassedOver` |
| `BackupsProofs!RowsHaveTheirFiles` | `Careful` implies `BackupsSpec => []FilesPresent` |
| `RestoreCanBeUndone` | `Careful` implies `BackupsSpec => []SafetyPoint` |

A theorem carries a hypothesis where the claim is false without it. The two on
redeemed codes, `CancelledStays` and the sums of the life cycle need `SnapshotIsolation`. `OneAtATime` says that
there is one request slot: it does not bound how many requests follow one another,
or what expires, is cancelled or purged while one is under way. `SalesBooking_receipts`
is the counterexample with two. `OneTab`, `~Sandbox` and `MaxDay = 1` are what section
3 says of the outbox, `~Reassign` and `~StalePages` what section 5 says of the goods.
The two theorems on files carry `Careful`, which is `Quiet /\ Apart /\ Unbacked = {}`,
the preconditions named above; without any one of them section 5 has a counterexample.

### The argument for bookings

`TypeOK` is not inductive: `Next` is a receipt only if the numbers in use have a
largest one. `Typed` adds `Bounded`, which keeps the receipts of a day below some
number, and `Progress`: a request being served has a day and no answer yet, and a
receipt before it writes. `LargestExists` and `HighestIsLargest` give the maximum,
`NextIsFree` and `AllocateIsReceipt` what the allocation returns.

`Idempotent` adds to `Typed` that every row of `sync_events` names the receipt of
the one basket its event was booked as. A replay reads its answer from that row; a
commit writes basket and row together and is refused while a row exists. This
gives both booking theorems. The refinement follows with `Idempotent` at hand: a
commit that carries an event finds its set of baskets empty and adds one, every
other step leaves the ledger of every event alone.

`Redeeming` adds that a token has one row, that it was shown before, and that a
booking about to write carries the unconsumed row it read. If that row is still
in the table at the commit, nobody consumed it, so no basket has redeemed it; if
not, the write fails. That is where snapshot isolation enters.

`Serial` is the invariant of a server that takes one request at a time. `ReadsHold` says
that what a request about to write has read is still true: its receipt is free of
baskets and of every reservation that counts but its own (`FreeFor`), and it withdraws
the variant if it takes the last unit. With one slot nobody else writes in between but
what cancels, expires or purges a reservation, and that only frees receipts. `RowsAsShown`
and `CodesSpent` tie the reservations to what was displayed. No snapshot isolation is
needed; with two slots `ReadsHold` is what fails first.

### The argument for the outbox

`OfflineProofs` builds on the invariants of the server: `ServerStaysCorrect` carries
`Idempotent` over to a server that also receives the device's requests, `BookedForGood`
and `SuccessIsBooked` say that an event stays booked and that a success the device hears
of is a booking. `Connected` relates the two sides: a view or flush that waits has a
request of its own, which carries the event it waits for. `Delivering` adds `NeverLost`
itself: an entry leaves the outbox only after a success for it.

`Orderly` is about one tab. What a flush has still to do is its turn; the turn is
complete, so that every pending entry is in it or younger than all of it, and an entry
that failed ends the run before the next one is sent.

`Deciding` adds `Judgements` and `Verdicts`. The server may refuse an event only because
the variant is sold out, and then it stays so and the event is not booked; a verdict that a
tab is writing down, or has written, was given for an event of which that is true. Two
slots, a second day or the practice mode each break it: the first delivery may come in
after the retry was refused, the fingerprint changes at midnight, and the practice server
knows nothing of the real variants.

### The argument for the life cycle

`Remembered` says what a request that read the rows may rely
on: whatever is active now was active in its snapshot, and what was paid there is paid
now (`StillRemembered`, from `GoOn`: no row is dropped or revived, no payment taken back).
A payment settles what was outstanding in its snapshot, so nothing active is left unpaid,
with or without snapshot isolation. For `CancelledStays` the ids a transaction names were
active in its snapshot, and a row cancelled since differs from it. Neither opens a sum.

### The argument for sums

A sum of the community modules is a fold, defined by a CHOOSE among recursive
functions. `SumRecurs` shows, from the well-foundedness of strict subset inclusion,
that there is one and that all of them agree; `SubsetInduction` is the induction this
takes, over a set of subsets instead of over a predicate, which the provers
cannot instantiate. From it follow what every later proof cites: `SumWithout`,
`SumPlus`, `SumParts`, `SumSame` and `SumGroups` (what is grouped by a key comes to
the whole).

`DistributeAddsUp` has two cases without weights and one with. In the last the floors
leave a rest that is not negative; `TurnsHandOut` counts that handing it out in turns
over the positive positions, one cent each, gives exactly that rest (`SumCounts`,
`EveryTurnOnce`).

`Ledger` is the invariant behind `EveryRowBalances` and `ReceiptAddsUp`: every row
balances, positions are numbered without gaps, a request in flight has seen them all,
and the receipt adds up. A booking and a repricing add up because the shares
do (`AmountsAddUp`, `Repricing`). A payment gives a position the amount due it read, which
snapshot isolation makes the present one; it found one position open, so by
`NeverHalfPaid` all of them are, if none is cancelled, and it settles them all.

### The argument for reports

`SoundBooks` types the rows and says what the queries silently rely on: only
merchandise has a variant, what is no merchandise is paid when it is entered and has
no discount, an unpaid row has no donation, the rows of one goods receipt agree on
day, holder and shipping, and receipts are numbered in order, so that a new one is
not an old one. Each operation keeps it. Without the agreement of the rows a
correction of one row would split its receipt over two periods or two holders.

`PageByColumn` brings the headline figures to sums over columns of live rows: a
variant with a live row in the period is listed, parked or not (`SoldIsListed`,
`BoughtIsListed`), so summing by listed variant loses nothing. Every breakdown is a
grouping of the same columns by another key (`GroupsAddUp`); the holders are three
groupings that are added by holder. For `PeriodsAddUp` the live rows up to the last
day are parted in those before the first and those since (`PeriodsBetween`), receipts
as a whole (`ReceiptsParted`), and the key of an occurrence does not depend on the
period (`OccurrencesParted`).

### The argument for support access

`Typed` joins `TypeOK` with `Targeted`: a handler's grant and account exist.
`TableKept` says what no step does to the table: rows stay with their requester
and `revoked_at`, only a revocation revokes, only an approval approves. It is
proved once, from lemmas on each write. `Revocation` holds because `IsLive`
tests `revoked_at`, which outlives every overwriting of the status. `Approval`
strengthens `ScopeByApproval` by the requests on their way to a session: one that
activates or binds carries an approved grant of its own account.

### The argument for accounts

`SignedOutEverywhere` says that a session which is accepted saw the last change of
its account. It is not inductive: a change on its way writes back a row it read
earlier. `Inductive` joins `Typed` with four parts. `Versions`: the version of an
account that exists is the number of its changes, and a row that is not there lets
nobody in. `Copies`: what a session or a sign-in took over was true of the row when
it was read. `Overlaps`: a change that saves a whole row, or makes one, has its
account to itself. `Held`: such a change holds the present version when it writes,
so writing the row back loses none. One lemma says what a change that moves on
keeps, and the lemma of each action shows that its row is right (`RowWritten`,
`Counted`).

### The argument for registration

`Handover` relates bands, requests and handovers, which a decision under way could
break. `Locks` says that no two calls have one row locked, and that what a call
found under its lock still holds: nobody else writes a locked row, the lazy expiry
included, which waits for the lock although it decided before. `Slugged` is the
uniqueness of names and of bands per request, `Standing` where a single request can
stand: an approved one has its band, a pending or rejected one has none, a code
still kept was not handed out. `RowKept` says once what a step that writes one row
leaves alone, `RowClosed` what it must show of that row. The expiry proves last
that it may meet a request in any state.

### The argument for goods

`Derived` says that the active variants are combinations of the active options,
`Present` that there are none without an article. A save of options derives the grid
anew (`GridRows`: a row stays in its place and is active if its key is expected), and
`KeyGoesOn` shows that a key of the old grid, with one value of every new group added, is
a key of the new one; that is `StockKept`. `DepletedNotOffered` is inductive beside
these: `Withdrawal` says what a withdrawal changes, `GridWithdrawn` that a save of the
whole grid leaves nothing depleted on offer, `ShelfWithdrawn` that a correction looks at
every variant that can have lost pieces. `PiecesKept` and `StockGrows` are the facts
about stock, a cardinality: it stays where positions keep variant, quantity and
cancellation, and a delivery never lowers it.

### The argument for the packing list

For answers, events and queues nothing is assumed of what a change does to the list:
`Applied`, `Target` and `Offered` are never opened there, but for the fact that what
is offered is a change. The conjuncts of `AnswersAreRevisions` carry each other: a commit needs the revision of
its snapshot to be the present one, so the list it read is the list it changes. For
the refinement `Entering` adds that a request which found no event of its own finds
one only beyond the revision it looked at; then the lock fails.

What the list holds is the other half, and there every operation is opened.
`BagsOver(P)` are the bags whose photos, and those of their items, are in `P` and that
are packed only if no item is open; `ListChanges` shows of each of the thirteen
operations that it makes such bags of such bags, where the photo an upload adds joins
`P`. It rests on facts about rows: a row that is looked for is found (`RowFound`, the
least place, by the well-founded order of the numbers), and writing, deleting,
appending and ordering rows yields rows of the same kind. `PackedStaysTrue` follows at
once. `FilesStay` needs to know of which photos: `Filed` says that the list is over
photos that have a file and were issued (they are of the first list or their event is in
the log), and that what a request is about to remove was issued and is off the list. An
event is carried out once (`Entering`, from the refinement), so an upload never issues a
number again that a request is about to remove; an upload that commits has stored its
file. `FirstListAssumption` says that the first list was made like any other, by events
before `Changes`.

The devices need more, `Queueing`. `Numbered`, `Known` and `OneMaker` say that an
event which was asked for is numbered before any that will be, that only such events
are in the log, in a queue or in a request, and that each belongs to one device.
`OwnRequests` gives a device that waits a request of its own. `Truthful`, that what
is answered as applied or replayed is in the log, makes `NoChangeLost` inductive.
`MadeInOrder` rests on two more parts. `OlderFirst`: whatever is older than what a
run has still to send is in the log, refused, still to be sent by the same run, or
what it has just sent. `OlderRecorded`: whatever is older than the event of a request
that may still commit is in the log or refused - of every request, those nobody waits
for any more included. An error ends the run before a younger change goes out; with
`AfterErrorNext` it is `OlderFirst` that breaks.

### The argument for the practice mode

`WithinCapacity` is a count, and the start that counts creates its environment in a
later step. `Exclusive` says that at most one start is between the two, by the lock
of the settings row. `Counted` says that what it counted still bounds what is there:
every other step gives slots back or leaves them, but for the revivals that
`WithinCapacity` does not count. `Rows` and `Known` tie a cookie, a loaded row and a
replaced one to rows that exist. The count itself is the cardinality of a set shown
to be finite.

### The argument for recurring finance

`OnRecord` says that an occurrence which has an entry is in the run ledger while its
rule is there, so a catch-up that skips what is recorded enters nothing twice, and
`Backed` the converse. `RulesGoOn` says that `next_run_on` is on the schedule and that
all before it was booked or passed over; `ReadsGoOn` says the same of a value a page
read and has yet to write, which is why a change that overtakes a catch-up only moves
the rule back to days that are on record. The lemmas on schedules (`Ordered`,
`OccurrencesScheduled`, `Continued`, `Resumed`) are arithmetic on multiples of the
interval.

### The argument for files

`Inductive` of `BackupsProofs` adds to the types that rows never share a file
(`AllSound`, of the tables, of every copy and of a dump under way), that whoever
lists files lists the directory they lie in (`Directories`, among the types), that a file on
its way to a row or out of the store belongs to no other row and nobody works on a
backup meanwhile (`Serving`), that every run has a directory of its own (`Separate`)
which is complete once the run succeeded (`Complete`), what the step a backup or
restore has reached may rely on (`Working`), and that the safety backup of the last
restore still holds what was replaced, unless it was pruned (`Kept`).

### Only model-checked

- The liveness properties (`QueueDrains`, `Settles`, `WindowCloses`,
  `MarkedIsRemoved`, `DueIsBooked`): fairness and ENABLED are outside the prover's
  reach.
- What `PackingDevices` shows on a device beyond the queue: the app's own operations
  (`Shown`) order and filter with `SelectSeq`, which is recursive, and the property
  about them, `Settles`, is a liveness property.
- What holds of `OfflineSales` while the practice mode is visited (`QueueInOrder` apart,
  which is proved) or with several request slots.

## 5. Where the code and its words part

Two runs end in a counterexample, each against a sentence of the repository.

1. **Two sales with one receipt number** (`SalesBooking_receipts`).
   `receipt.go:43-44` says the transaction is "what makes the allocation and the
   insert of the rows atomic". Allocation is a plain select on a snapshot, and
   `sales.receipt_id` has no unique key: two overlapping bookings get one id.
2. **A restore leaves the packing list without its photos** (`Backups_packing`).
   `restore.go:33` says the restore "puts one band back to the state a per-band
   backup captured", and the README of the program that backups include the
   pictures. No packing table is backed up, while the band's whole directory is
   replaced: photos taken since keep their rows and lose their files. The band must
   have stored a file before the backup, or there is no copy to replace it with.

The others were met while modelling. Each is reachable in the named module with the
constants given, and has no run of its own:

3. **A booked sale is shown as rejected** (`OfflineSales` with `MaxDay = 2`,
   `RejectedNotBooked`). `service.go:265-267` says a device retrying the same sale
   must match. The day the server fills in is part of the fingerprint, so a retry
   after midnight conflicts with its own booking.
4. **A donation disappears into the practice mode** (`OfflineSales` with `Sandbox =
   TRUE`, `NeverLost`). `stores/offline.ts:20` says "a sale is never lost". A flush
   posts in the current mode of its tab; the sandbox accepts a basket without
   variants, and the entry is removed.
5. **The queue waits behind a returned server** (`UnattendedSpec`, `QueueDrains`).
   `stores/offline.ts:21-22` says it "is flushed the moment the connection
   returns". Only the browser's `online` event, a reload or the button start one.
6. **The rest of a receipt claims more than was received** (`SaleLifecycle` with
   lines of 2, 1 and 2 cents, `RestWithinReceived`). `money.go:20-22` says
   "cancelling one position never distorts the rest of the receipt". Shipping and
   discount are rounded one by one: with shipping 3 and 1 received a position is
   booked with -1, and without it the others sum to more than was paid.
7. **A band without an administrator** (`Accounts` with two changes at a time,
   `Administered`). `handlers_bandadmin.go:374-375` says a change that would leave
   nobody is refused. Count and change are two statements: two administrators who
   demote each other at once both find the other one.
8. **A correction that moves a position** (`Purchases` with `Reassign = TRUE`,
   `DepletedNotOffered`). `purchases.go:271-272` speaks of all entries that became
   unavailable; the variant that lost the pieces is not looked at.
9. **Options sent again by a stale page** (`Catalogue` with `StalePages = TRUE`,
   `StockKept`). `configure.go:72-73` says stock survives a new dimension; a group
   that is only reactivated does not count as new, and variants are parked with
   their stock.
10. **Three backups in one second** (`Backups` with `Apart = FALSE`, `MaxRuns = 3`,
    `SafetyPoint`). `restore.go:35-37` says "the state being replaced is never the
    only copy"; the third shares the directory of the safety backup, and its failure
    removes it.
11. **What is entered between the safety backup and the restore** (`Backups` with
    `Quiet = FALSE`, `SafetyPoint`), against the same sentence.
12. **A restore that fails among the files** (`Backups`, `FilesPresent` without
    `lost`). `restore.go:109-110` says a failure halfway leaves the old files; the
    backup's rows are committed by then.
13. **A rule that fell far behind** (`Finance` with `Limit = 1`, `DueIsBooked`).
    `recurring.go:133` says a pass catches the band up; a rule with more than 1000
    elapsed occurrences fails the whole transaction, each time.
14. **Days skipped though the rule was active** (`Finance`, `NothingPassedOver`
    without `skipped`). `recurring.go:91-92` says that dates which elapsed while
    paused are skipped; those that elapsed before the pause and were not booked yet
    are skipped as well.

Reachable as well, without a sentence against them: two open support requests at
once and two open windows of a band, of which `LiveGrantForBand` shows one; a
refusal overwritten by an approval read earlier; `ClearSupportScope` wiping a
binding made after it read the session; a session bound again after the
revocation's detach, which every later request then clears; an approved request
closed by a status check that read it while it was pending, its code with it; an
environment that a request revives while the purge is removing it.

## 6. What is not modelled

`PROJECT.json` has a row for each part. In short:

- *Left out for what they are*: exports only read; the
  importers convert data once; mail, telemetry, updates and QR images are input and
  output; the audit log and the support inbox append; roles, middleware and rate
  limits are decision tables over one request; hashing, one-time codes and the
  proof of work are cryptography; configuration and migrations run at start-up;
  pages other than the checkout and the packing list are user interface; `_old/`
  is the code the program replaced.
- *External programs*: the full backup is `mariadb-dump`; what its copy of the
  tables holds is not this program's doing.

Of the modelled parts, the following is left out: in bookings, baskets of several
variants, payment methods and event names; on the device, the 5xx of a proxy that
hides a commit (a hazard in the list) and the cached catalogue and photos; in the
life cycle, the list and report queries; in support access, the audit entries and
the second factor; of accounts, the profile's data and the mailed links; of
catalogue and purchases, names, prices, taxes and positions, and two corrections
at once; of balances and reports, writes in the middle of a page, names and labels,
the counts and warnings, and the cut of lists after five; profit and the value of
the inventory are no flows, because the cost basis is that of the period's last day; of uploads, types and the normalisation of pictures; of finances, amounts
and the calendar's months; of the packing list, the first read that makes the
state row.

## 7. What is left

Everything of the program that changes shared state in more than one step has a
module. What would add most next:

1. **Accounts with two changes of one account at a time**, as a property that says
   what a full-row save may undo.
2. **Composition** of the device's packing list with sign-in and sign-out, instead
   of being out of reach.
