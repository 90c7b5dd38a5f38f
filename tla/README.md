# MaintainPro: a TLA+ verification project

MaintainPro is a multi-tenant maintenance system: a NestJS API (`src/maintainpro/apps/api`)
on Prisma and SQL Server, a Next.js web application (`apps/web`), and timers inside the API
process. This project models the parts whose correctness depends on the order in which
statements of concurrent requests, retries, timers and crashes reach the database.

Nearly every service method is a sequence of awaited database statements. Node interleaves
requests at each `await`, several API processes may run, and most methods open no
transaction. Between two statements of one request any statement of another request, or a
crash, may come. Unit tests with mocked Prisma clients run one order; TLC runs all of them.

## Inventory

Paths are relative to `src/maintainpro/apps/api/src/` unless they start with `apps/`.

| Component | State | Operations | What is hard | What makes it correct |
|---|---|---|---|---|
| Stock engine (`modules/inventory/inventory-transaction.engine.ts`, `inventory-invariants.ts`, `owned-stock.ts`) | balance rows per warehouse, totals on the part, movement ledger, idempotency claims | receive, return, reserve, release, issue, adjust, transfer, reverse | no transaction of its own; retries with a key; races for the same units; calls cut off half way | balances never negative and consistent; one change per key; a replay answers for work that was done; no movement reversed beyond its quantity |
| Replication (`database/prisma.service.ts`, `replication-sync.service.ts`, `replication.utils.ts`) | primary and backup rows, outbox rows, batches of the workers | capture of a write, outbox insert, strict copy, fetch, claim, apply, record | events captured outside the write's transaction; several workers; crashes; redelivery | SYNCED means applied; nothing is given up early; every event settles; applying again is harmless |
| Part requests (`modules/work-orders/work-orders.service.ts`, `work-order-parts.service.ts`) | request, part line, verified stock, return events, job status | create, approve (two stages), reject, cancel, issue, use, return, confirm, close or cancel the job | read-then-write in separate statements; a row lock on the stock only; the line is synchronised after the commit | nothing handed out beyond the request or the stock; nothing restocked twice |
| Domain event outbox (`modules/enterprise-ops/domain-events.service.ts`) | events with status and payload | publish, drain, acknowledge | batch limit with skipped events; concurrent acknowledgement | every event that can be processed is; one acknowledgement wins |
| ERP stock synchronisation (`modules/inventory/erp-excel-import.service.ts`, `erp-stock-sync.service.ts`, `erp-stock-sync.mapper.ts`) | import run with its status, stored rows, the adjustments' keys, a lock per process | upload, validate, apply, take over, synchronise | a slow application looks like a dead one; locks do not reach other processes; rows are deleted and made again; stock moves meanwhile | a workbook changes a part at most once; COMPLETED means no row was passed over |
| Stock counts (`modules/inventory/stock-count.service.ts`) | sessions and lines | transitions, count, post | status read, then updated by id | a count is posted once |
| Sessions (`modules/auth/auth.service.ts`, `auth-refresh-replay.ts`, `session-version.ts`, `modules/settings/settings.service.ts`) | session version of the user, refresh tokens in families | login, refresh, logout, logoutAll, password change and reset, deactivation | a refresh is a row of separate statements; two tabs; a lost answer repeated; everything revoked while a rotation is under way | one live token per session; an ended session stays ended; a new version ends them all |
| Work order lifecycle (`modules/work-orders/work-orders.service.ts`, `common/utils/work-order-governance.ts`, `modules/approvals/approvals.service.ts`) | status, version, approval, reporter's answer, labour sessions | plan, assign, start, hold, complete, verify, send back, confirm, close, cancel, reject, reopen | version checks that are optional or missing; side effects before the conditional write | work sent back is done again before the job ends |
| Maintenance requests (`modules/maintenance-requests/maintenance-requests.service.ts`, `request-lifecycle.ts`, `request-work-order-exit.ts`) | status, link to the work order, version | review, triage, approve, query, reject, cancel, duplicate, convert, reopen | several reviewers at once; conversion against cancellation; the way back lost or repeated | linked exactly while converted; ended stays ended; one job per issue |
| Offline reports (`apps/web/lib/offline-queue.ts`, `apps/web/components/pwa/offline-request-replayer.tsx`, `create` of `modules/maintenance-requests/maintenance-requests.service.ts`) | queue in the browser's storage, one replay per tab, requests with key and number | save, replay, retry, create with a free number | tabs share the queue and not the replay; lost answers; closed tabs; retries counted from old readings; numbers taken in between | one request per report; shown as sent only when it is; given up only when refused; a replay that is due is never lost |
| Planning, numbering of other documents | occurrences, counters | generation, allocation | timers of several processes, duplicate numbers | one job per occurrence, unique numbers |
| Other domains (fleet, facilities, cleaning, farm, utilities, billing, reports, notifications, web UI) | their own records | single-row updates behind permission checks, read-only aggregation | little protocol between actors | not planned |

How they meet: an issue of parts (`issuePartRequest`) and `stockOut` call the stock engine
inside their transaction (`owned-stock.ts`) and write domain events; goods-in, ERP
synchronisation and returns call the engine too; every write of every service passes the
replication middleware; closing a job releases the reservations of its part lines; converting a request creates a
work order in one transaction, and cancelling or rejecting the work order sends the request
back; a decision in the approval inbox writes to the work order. The
complete list of components, modelled or not, and the list of hazards with their source
lines are in `PROJECT.json`.

## Modules

| Module | What it is |
|---|---|
| `StockEngine` | the engine, one action per database statement |
| `StockPromise` | what the engine promises, without its statements (abstract specification) |
| `SumLemmas` | laws of sums over finite sets (`MapThenSumSet`), proved for the accounts of the stock engine |
| `StockEngineProofs` | invariants and refinement, proved |
| `Replication` | capture, outbox, strict mode, workers |
| `ReplicationProofs` | invariants, proved |
| `PartRequest` | one part request with its line, its stock and its job |
| `PartRequestProofs` | invariants, proved |
| `RefreshTokens` | the sessions of one user |
| `RefreshTokensProofs` | invariants, proved |
| `JobLifecycle` | a maintenance request, the work orders made from it, and how each changes the other |
| `JobLifecycleProofs` | invariants and an action property, proved |
| `ErpImport` | the import of an ERP workbook, beside synchronisations and movements |
| `ErpImportProofs` | invariants, proved |
| `OfflineReports` | issues reported without a network, from the browser's queue to the request on the server |
| `OfflineReportsProofs` | invariants, proved |
| `MCStockEngine`, `MCReplication`, `MCPartRequest`, `MCRefreshTokens`, `MCJobLifecycle`, `MCErpImport`, `MCOfflineReports` | the instances TLC checks: inputs and symmetry |

Operators whose name has a suffix after an underscore (`WhereHolds_Unconditional`,
`LockBalance_Unlocked`) are faulty variants of the operator below them. No specification uses
them. Substituting one for the real operator must make TLC report the property it is paired
with in `PROJECT.json`, which shows that the property depends on that line of code.

### StockEngine

One part, one tenant. `rows`, `onHand`, `reserved`, `available` are the
`WarehouseItemBalance` rows, `part` the totals on `SparePart`, `ledger` and
`quantityReversed` the `StockMovement` rows, `claim` and `resultJson` the
`InventoryIdempotency` rows. A call goes through the stages of `runOp`, `transfer` or
`reverse`: `FindClaim`, `CreateClaim` (or `PollResult`/`PollTimeout` when another call has the
key), `ReadOriginal` for a reversal, `LoadPart`, `EnsureBalances`, `LoadBalance` (the preview
check), `UpdateBalance` (the UPDATE with its WHERE clause), `CreditDestination` for a
transfer, `MarkReversed` for a reversal, `ReadBalances` and `WritePart`, the movements, and
`CommitIdempotency`. `Abort` ends a call at any stage: a thrown error, a lost connection or
a dead process; what was written stays.

A call made inside its caller's transaction (`owned-stock.ts`) reads first
(`ReadInTransaction`) and takes effect as a whole (`RunInTransaction`), because other calls
see it only at its commit and the row it updates is locked until then. `stockOut` runs
SERIALIZABLE, which allows fewer interleavings than are modelled.

Left out: audit rows and the deactivated part (they guard nothing modelled), and the
realignment of an inconsistent existing row in `ensureBalances`, which never fires because
`BalancesSound` holds. The services' own `transferStock`, `adjustStock` and
`reverseMovement` are closed ("use the ERP"), so transfer, reverse, reserve and release are
reachable only through the engine's API and its tests; they are modelled because the engine
offers them. The callers today are goods-in, ERP synchronisation and owned stock.

`StockPromise` has five kinds of effect (in, out, hold, free, consume) on one warehouse at a
time, at most one effect per call and per key, with reservations always covered. The
refinement maps on-hand and reserved to themselves and the set of calls with an effect to
the calls past their UPDATE.

### Replication

Each request makes one write (`Write`, `WriteRefused`), preceded by `ReadBefore` for writes
with a where clause, followed by `BuildCandidate` (the payload is read back from the primary),
`Persist` (one outbox insert per row) and, in strict mode, `StrictApply`, `StrictUpdateUser`,
`StrictSynced` or `StrictFailed`. Which rows a write is captured for is `Captured`: a write names
its row by id or by another key (`byId`), returns the id or not (`returnsId`), and one whose id is found in
neither place (`IdIsFound`) has no candidate. A write inside an interactive `$transaction` stages its candidates; the
payload read runs outside that transaction, so it sees the old committed row, or waits for
the transaction's own lock until it times out (`TransactionTimesOut`); `Commit` queues them. Every
process runs a worker: `Fetch`, `Claim`, `Apply`, `UpdateUser`, `markSynced`, `MarkSyncedFails`,
`markFailed`. A `User` is looked up in the backup and then updated, in two statements, because payloads
never carry the password hash (`IsUser`, `FindsUser`). `TimePasses` stands for `nextRetryAt` and the stale time of PROCESSING rows.
`RequestDies` and `WorkerDies` are crashes.

The content of a row is the request that wrote it last. `createdAt` counts rows, so ties of
the millisecond clock are left out. A write the backup refuses for one of its own unique constraints is a
failed call like any other. Batch `$transaction([...])` is captured like plain writes.
The status snapshot and the admin controller only read.

### PartRequest

One request for one job. `ReadRequest` is `getPartRequest` with the checks of each operation
(`MayApprove`, `MayApproveFinance`, `MayReject`, `MayCancel`, `MayIssue`). What follows the
read is written by later actions: `Approve` and `Reserve`, or `Withdraw`, `Release` and
`CloseLine`. An issue is `ReadReservation`, then its transaction `ChooseWarehouse`,
`LockBalance` (waits for the row), `ReadFresh`, `CommitIssue`, then `ReadIssuedLine` and
`WriteIssuedLine` (`syncIssuedLine`). `ReadLine` is `getLine` with `assertQuantityBalance`;
`markUsed`, `requestReturn` and `confirmReturn` write what they computed from it.
`closeWorkOrder`, `remove`, `ExitJob` and `ReleaseJob` end the job. `Receive` and `StockOut`
are goods-in and the issue for another job, the other users of the stock. `Die` ends a call
between two statements and rolls an open transaction back.

Abstractions: stores are MaintainPro-owned, so available stock is a number per warehouse
(the ERP variant, snapshot minus unreconciled events, is not modelled); line status, costs and
the line's approved quantity are left out because no guard reads them; `"open"` stands for
every job status in which parts may be handled; role and maker-checker checks restrict who
makes a call and not what it does; a read followed by an update that does not depend on it is one
action (`CloseLine`, `Release`). Not modelled: `addPart`, `recordDirectIssueLine`, reopening a
job, and a second request for the same part (see the hazards).

`handedOut`, `goodIn` and `restocked` are history variables; no action's guard reads them.

### RefreshTokens

One user. `sessionVersion` and `isActive` are columns of `User`; `issued`, `live`, `familyId`,
`revokedAt` and `replacedByTokenHash` the `RefreshToken` rows. `refresh` has no transaction:
`FindToken`, then for a revoked token `ReadSuccessor` and `ReadRotatedUser` (a replay inside the
window) or `RevokeFamily` (reuse); for a live one `ExpireToken`, or `ReadUser`, `Claim` (the
conditional update), `CreateSuccessor` and `LinkSuccessor`; a call that loses the claim goes
through `ReadRaced` and `ReadRacedSuccessor`. `login` and `issueSessionTokens` are `OpenUser` and
`OpenSession`; `logoutAll` is `LogoutAll` and `RevokeAll`; `ChangePassword`, `ResetPassword`,
`Deactivate`, `Reactivate` and `ChangeRole` write the user, the first two with all tokens in one
transaction. `Crash` ends a call between two statements.

The payload of a refresh token is user, tenant, session version and the second it was signed
in, with no id of its own, so a token is modelled as version and second, and the unique
hash makes the insert of an equal token fail (`FailPersist`). The window and the lifetime are counted in
ticks. A client may present any token it was ever given, at any time, which covers browser tabs,
the BFF's own refresh and repeated requests. Left out: passwords and lockout, the access token,
deletion of the user, several tenants, and the account's `lastLogin`.

### JobLifecycle

One reported issue. `status`, `targetUnresolved` and `workOrderId` are columns of
`MaintenanceRequest`; `woStatus`, `approvalStatus`, `lastIdempotencyKey` and the reporter's
confirmation are columns of each `WorkOrder`; `labour` says where a labour session runs. Each
handler reads its row and checks it (`ReadRequest` with `startReview` to `markDuplicate`,
`ReadForConversion`, `ReadOrder` with `MayPlan` to `MayReopen`), and writes in later steps:
labour sessions and approval rules (`startLabourSession`, `closeActiveLabourSessions`,
`enforceConfigurableApproval`, `AutoClose`) and then the row (`guardedUpdate`,
`convertToWorkOrder`, `planWork`, `assign`, `updateStatus`, `verifySupervisor`, ...). After a
cancellation or rejection `reopenRequestAfterWorkOrderExit` sends the request back; `Fail` may
come before it, and `ReadCancelled` repeats it.

Versions only grow, so the model keeps for each call whether its reading is still current
(`fresh`) and not the number. `VersionMatches` is the WHERE clause; `remove`, `rejectWorkOrder`,
`rejectSupervisor`, `reopenWorkOrder` and the approvals do not have it. Left out: roles and maker-checker
checks (who calls), history, audit and notifications, hold history, downtime, permits, evidence,
costs, machine status and the mirrored extension rows (no guard of the model reads them), the parts of the job
(`PartRequest`), PM occurrences, and OVERDUE, which no code writes any more. Two reads that a
write follows at once are taken with it: the linked request in `verifySupervisor` and the open
session in `startLabourSession`. `exited` and `sentBack` are history variables.

### ErpImport

One workbook. `status` and `appliedAt` are columns of `InventoryImportRun`, `rows` counts the
CHANGE rows of each part, `onHand` is the balance of its store, `total` the part's
`quantityInStock`, `key` the engine's record for the key `ERP-EXCEL:<run>:<part>`, `applyLocks` the
promise chain of each process. A validation is `ReadParts`, `DeleteRows`, `CreateRows`,
`WriteValidated` (or `WAREHOUSE_SCOPE_REQUIRED`), and any number of them may overlap; an
application is `apply`, `waitForApplyTerminal` and `Reclaim` if another one is under way, `ReadReady`, `Claim`,
`withApplyLock`, `compareStockBalances` (or `MappingIncomplete`), and for each part `ReadPart`,
`beginIdempotency`, `adjust`, `ReadBalances`, `WritePart`, `commitIdempotency`, where any step may
fail (`RowFails`), then `EndOfRows` and `WriteResult`. `applyStockSnapshot` is the synchronisation
with the ERP: it has the same steps without run and with keys of its own each time. `Move` is any
other movement, `MoveReadsBalances` and `MoveWritesPart` its `syncPartFromBalances`; an issue of stock the
ERP owns stops after the first. `ProcessDies` ends all calls of a process.

Rows are compared with `onHand`, the adjustment is computed from `total`, which a movement
writes after the balance and perhaps never, so that the two may differ at any time. An item that no
balance of an active part matches is only reported, and a part that is gone or has the total of the
workbook is skipped; which items those are is left open, and `skipped` keeps them.

The workbook names one store and all stock is there; a part that has no balance yet counts
with the one it would be seeded with. `adjust` is one step because the engine implements
`StockPromise`: one call, at most one effect, at most one per key. The polling of
`waitForApplyTerminal` is one read, after which time may have run out. `moves`, `adjustments` and
`result` are history variables.

### OfflineReports

One device, one kind of action in its queue. `status`, `retryCount` and `owner` are fields of the
items in `localStorage`, which all tabs share; `"none"` is a report not saved yet and `"pruned"`
one that was dropped a day after it was sent. `tab` is the replayer of each tab: `Ready` when the
page is loaded, `ReadItems` after the await of `hydrateOfflineQueueFromIdb`, then for each item
`Send` and one of `Sent`, `isPermanentFailure` (any other 4xx), `isAwaitingSignIn` (401, 403),
`AnsweredTemporary` and `NetworkError`; `Retry` is its timer of 30 seconds, which a replay that breaks off (`Break`)
for want of a sign-in leaves as it is. `running.current`
is the step of the tab: `Replay` does nothing unless it rests. `call` is
`MaintenanceRequestsService.create`, a statement at a time: `FindExisting`,
`nextRequestNumber`, `createWithNumberRetry`, `FindRaced`; it goes on when nobody waits for it,
and `ServerFails` may end it anywhere, also after the row is there. `OtherRequest` takes
numbers.

`nextRequestNumber` orders numbers as strings. With five digits of padding, number 100000 comes
before 99999, so the latest number is the last one with five digits; `PadLimit` stands for 100000
and `Latest` is that maximum.

Abstractions: an update of the queue is one step, because it is synchronous and browsers lock the
storage of an origin between tabs for that time; the items of a replay are sent in any order, of
which the code's is one; the user and the session cookie change together; the tenant is the same
throughout; a call refused for what the report refers to may be refused from its first
statement on. The queue is durable, so its copy in IndexedDB is left out, as are the
queue of evidence drafts and `apps/web/lib/offline/conflict.ts`, which maps errors to texts. `refused`
is a history variable.

## Runs

All passing runs finish in less than three minutes with two workers.

| Run | Instance | Result |
|---|---|---|
| `stock_engine` | 3 calls out of 10 inputs: one key with several payloads, in and out of transactions, 2 units to compete for, a transfer, reversals of both its movements | types; balances sound; one change per key; replays honest; never over-reversed; the ledger explains the stock; refines `StockPromise` |
| `stock_ends` | 2 calls, most of them with one key, fair | every call ends |
| `repl_async` | 2 requests, 2 workers, 2 failures, 1 crash | types; SYNCED was applied; dead letters are earned; redelivery alone never fails |
| `repl_strict` | 2 requests, 16 kinds of writes, of one row or both, with and without the id, one ordinary row and one user, 1 failure, strict | a successful write has all it was captured for applied |
| `repl_settles` | 2 requests, 1 worker, batches of one, fair | every event settles; no retry after success; without failures the backup follows the outbox |
| `parts_issue` | 4 calls on a request of 2 units that needs finance approval, one store with 3 | no unit handed out twice; no balance below zero; the line is never ahead of the store |
| `parts_returns` | 5 calls: issue, good and damaged returns, confirmations | types; nothing restocked twice; an old returned quantity is spent |
| `sessions` | 3 calls, 2 versions, 4 seconds, replay window 1, lifetime 2 | types; one live token per family; a family keeps its version; an ended session stays ended; rotations form a chain |
| `jobs` | 2 calls at a time, 1 work order, every handler of it, the approval rules; all send the version they read | types; work sent back is completed before the job is verified or closed |
| `requests` | 2 calls at a time, 2 work orders, every handler of the request, all ways to give a work order up, both kinds of conversion key | linked exactly while converted; one job per issue; an ended request stays ended |
| `erp_import` | 4 calls on 2 processes, one part, one other movement | types; the import adjusts a part at most once; COMPLETED passed over no row |
| `offline` | 1 report, 2 tabs, 2 calls on the server, 2 retries, 2 attempts for a number, numbers of one digit up to 2, 1 loss of the network, 2 other faults, fair | types; one request per report; sent is true; given up means refused; a replay that is due is not forgotten |

### Known gaps

The models contain more behaviours of which a reader of the code should know. Eleven of them are
stated as properties at the end of the modules, each with a configuration for TLC, which ends with
a counterexample:

| Configuration and property | What the repository says, and what happens |
|---|---|
| `MCStockInProgress.cfg`, `InProgressIsTrue` | "already in progress. Retry shortly.": after a call died, its key gives this answer for ever |
| `MCReplCurrent.cfg`, `BackupIsCurrent` | "copy of **current** state": two events of one row are inserted in the opposite order of their contents, and the backup keeps the older one |
| `MCReplUncaptured.cfg`, `StrictSuccessIsCopied` | "the API writes the primary record, queues the outbox event, then applies the event to the backup before returning": a strict write that is captured for fewer rows than it changes reports success without them. These are `createMany` with ids the database assigns, a where clause that matches more rows than the prefetch limit, and a write that neither returns nor is given the id; the first two are open to callers of today, the last one none of them makes |
| `MCPartsUnapproved.cfg`, `IssueNeedsApproval` | "must be approved before stock issue": a request rejected during an issue is issued |
| `MCPartsStores.cfg`, `IssuedWithinRequested` | "already issued against the part request": two issues lock the rows of two stores and hand out the request twice |
| `MCPartsCondition.cfg`, `OnlyGoodPartsRestocked` | "gets the good parts back on its shelf": the condition of a second return overwrites that of the first, in a plain sequence of calls |
| `MCRace.cfg`, `RaceIsNotTheft` | "is a race, not theft": a refresh that presents the token just rotated, before the rotation has stored what replaces it, revokes the session |
| `MCErpSnapshot.cfg`, `SetsToSnapshot` | "Sets MaintainPro qty = snapshot qty (never +=).": two validations of one workbook that overlap both delete its rows and then both make them; the application adds up rows of one part and sets the stock to twice the quantity |
| `MCOfflineOwner.cfg`, `SentByOwner` | "Another person's items on a shared device are never sent under the current login.": a replay has read its items, another person signs in in another tab, and the rest of the items is sent in that person's name |
| `MCOfflineLeftover.cfg`, `LeftoverIsRetried` | "SYNCING left over from a closed tab is retried": not after another tab has given the report up; it is then counted as being sent for ever |
| `MCOfflineMissed.cfg`, `EveryReportSettles` | "it will be sent automatically when you are back online": a report that is saved during a replay, and an online event that comes before that replay has ended, leave it in the queue until a page is loaded again |

The others follow in a few steps from the actions named; no property states them.

- A transfer cut off between `UpdateBalance` and `CreditDestination` has taken stock that
  arrives nowhere; `LedgerExplainsStock` therefore sets cut-off calls apart.
- Of two racing reversals, the one that `MarkReversed` refuses has moved the stock too.
- `WritePart` can overwrite the part's totals with an older sum.
- A default row created after other rows hold stock is seeded from the part's totals
  (`EnsuredOnHand`) and counts that stock twice. The runs and the proofs start with a default row.
- `RequestDies` before `Persist` leaves a write that no event copies.
- In strict mode one failed copy (`StrictFailed`) leaves the other rows of the write without
  events; the request reports the error, and nothing copies those rows later.
- With two workers a slow one sets a SYNCED event back to FAILED (`markFailed`).
- A user the backup lacks is skipped and its event becomes SYNCED (`Applied`).
- Two `Approve` steps from the same reading: the second may lower the approved quantity below
  what was issued in between.
- `markUsed` and `requestReturn` from the same reading account for the same unit.
- `Reserve` may run after `Withdraw` or `ReleaseJob`, and its reservation stays.
- `requestReturn` between `closeWorkOrder` and `ExitJob` leaves a closed job with a return that
  nobody can confirm.
- Two sign-ins or rotations of one user in one second make the same token (`FailPersist`). The
  rotation that comes second has revoked its old token by then, and its device is signed out.
- `closeWorkOrder` without a version (`SendsVersion` FALSE) closes a job over the reporter's answer
  that it is not fixed; `ReworkIsDone` is stated for clients that send it.
- `remove`, `rejectWorkOrder` and `reopenWorkOrder` leave the version alone: a plan, an assignment or
  a start read before them puts the cancelled job back to work. `rejectSupervisor` writes over
  whatever came in between, a close included.
- `startLabourSession` runs before the write that may conflict, so a start that loses against a
  cancellation leaves a session running on the cancelled job.
- A conversion repeated with a client's own key after its work order was cancelled gets the
  cancelled work order back, and the request is linked to it.
- A cancelled work order that is reopened is not linked to its request again; by then the request
  may have another one. `OneJobPerIssue` sets work orders that were once given up apart.
- `DecideByRule` rejects a work order without cancelling it or sending its request back.
- Conversion does not check the version it read, so a triage in between changes the target and
  the work order keeps the old one.
- A validation that dies after `DeleteRows` leaves an import without rows and VALIDATED from before; applying
  it does nothing and is COMPLETED. `CompletedDidItsRows` has nothing to say of rows that are not there.
- `WriteValidated` is unconditional and may turn an import that is being applied, or was, back
  to VALIDATED; the keys of the adjustments keep a second application from changing anything.
- An import whose adjustment died after its effect and before `commitIdempotency` can never be more than
  PARTIAL: the key stays claimed.
- A report saved while nobody is signed in has no owner and is never sent.
- From the request after number 99999 of a year on, `nextRequestNumber` gives a number that is
  taken, all attempts conflict, and every new request is refused with 409; an offline report is
  then given up (`FindRaced`).
- Outside the model: when the browser has evicted `localStorage` but not IndexedDB, the next
  `enqueueOfflineAction` writes the mirror anew from a queue of one item, and the older reports
  are lost unless a replay has hydrated them before.
- The difference is computed from the part's total, which may lag behind the balance that is compared and
  changed (`ReadPart`): a workbook is then COMPLETED with a part at another quantity than its own,
  also when validations do not overlap and nothing has moved since. An item that no balance
  matches leaves its part alone and does not keep the import from being COMPLETED
  (`compareStockBalances`).
- With several stores the rows are compared per store and the total is that of all of them, so
  the difference is wrong without any race; this is outside the model.

### Bounds

- Two or three calls (four or five in `PartRequest`, where a request must first be created,
  approved and issued): each race listed needs two calls in the same window and at most one
  that prepares it.
- `JobLifecycle` has two calls at a time, and a call that has ended may be made again, so that
  histories of any length are reached with two in flight. One work order is enough for `jobs`,
  whose property is about one; `requests` needs the given-up one and its successor.
- `RefreshTokens`: two versions (before and after everything is revoked) and three calls, so
  that two refreshes race with a third call that ends the session; the clock passes the window
  and the lifetime.
- `ErpImport`: two calls on each of two processes, so that one process queues and the other
  overtakes, and validations overlap; the workbook raises the stock and the ERP's answer lowers it.
  `MaxMoves` is the number of changes by anything but the import after which no more movements begin.
- `repl_strict`: two requests and two rows, so that a write of several rows has one applied and one left when
  it fails; the prefetch limit covers both rows there, and only one in `MCReplUncaptured.cfg`.
- `OfflineReports`: one report, because reports meet only in the numbers, which `OtherRequest`
  takes as well; two tabs and two calls for every race of a report with itself; two retries, so
  that a count from an old reading differs from the limit; `Earlier`, `PadLimit` and `MaxOthers`
  let the numbers run past the padding; `MaxOutages` and `MaxFaults` bound what goes wrong,
  without which nothing would have to settle. The configurations of the known gaps have two
  reports where one is sent while the other waits.
- Two warehouses where a second one matters (transfers, two stores), quantities up to
  two so that partial and whole amounts differ, one key, one or two rows.
- `adjust` has the deltas of `receive` and `issue`, and `returnStock` those of `receive`: they
  are in `stock_ends` and not among the ten inputs of `stock_engine`.
- `MaxFailures` and `MaxCrashes` bound failed database calls and dead processes in
  `Replication`; the theorems hold for every value of them. In the other modules every call
  may die at every statement.
- Symmetry is used over calls that are interchangeable: not over the call whose movement is
  reversed or the one that makes the request, and in no run with a liveness property.
- Deadlock is checked in `StockEngine` and `PartRequest`, where a system in which all calls
  have ended stutters explicitly, and in `OfflineReports`, where a page can always be loaded
  again. It is not in the other modules: when the requests are over
  and the outbox is settled, `Replication` rests, and so do sessions, jobs and imports nobody calls.

### Fairness

`stock_ends` (and `MCStockInProgress.cfg`, `MCPartsUnapproved.cfg`) assume weak fairness of the steps of each call: a database
call returns, with a result or an error, and Node goes on with the method; the poll of a
claim has a limit. `repl_settles` assumes weak fairness of each worker (the interval timer
restarts `processPendingBatch` for as long as the process lives) and of the clock. Nothing is
assumed of requests there: one may stop anywhere. `offline` assumes that a page and the server go
on with what they have begun (JavaScript runs its callbacks and timers, a call is answered or times
out) and that the network comes back. It assumes nothing of people: no page need be opened or
loaded again and nobody need sign in, so `ReplayIsNotForgotten` is about the time in which a page
is open with the owner signed in, and about reports that its replay has in hand, or is about to read the queue
for. That every report is settled in the end (`EveryReportSettles`) is false under
this fairness (`MCOfflineMissed.cfg`), as nothing in the code starts a replay in a page at rest.

## Proofs

TLAPS checks the following for every value of the constants that satisfies the named
assumptions of the modules.

**Stock engine** (`StockEngineProofs`), assuming that the default warehouse has a balance row
at the start. The assumption is needed: a default row created later is seeded from the
part's totals, which may be stale or held by other rows (known gaps). The invariant has four parts, each
needing the ones before: *control* (a keyed call past the claim owns it; a stored result
belongs to a call that has ended), *movements* (a reversal between its read and its
compare-and-set works on a recorded movement and on a quantity that fits what it read),
*balances* (every row sound, missing rows hold nothing) and *replays* (a replayed call has
the payload of the claim's owner). `BalancesSound` alone is not inductive, because a row that
does not exist yet could hold anything when it is created. Results: `EngineTypes`,
`BalancesAlwaysSound`, `OneChangePerKey`, `ReplaysAreHonest`, `ReversalsBounded` and the
refinement `EngineImplementsPromise`, where each statement is shown to be one effect of the
promise or a stutter.

`LedgerComplete` says that the ledger explains the stock once all calls have ended and none was
cut off. The property says nothing while calls run, so its invariant keeps *accounts* (`AccountInv`): at
every moment on hand is what it was at the start, plus the sum, over the calls that have changed a balance
and have a movement to record, of what each has changed so far. A call opens its account
with its first UPDATE, a transfer changes its entry when the destination is credited, and no
other statement touches the sum. `RecordInv` says which movements are on the ledger, so that at
the end the accounts and the ledger are the same set. `AccountsHold` states
the accounts by themselves, which also cover calls that were cut off. `SumLemmas` supplies the sums: the sum exists,
the order in which elements are taken does not matter, and it grows or changes by one summand.
The library's induction theorems cannot be used (see below), so these are proved from a
least counterexample: a nonempty set of natural numbers, here of sizes of subsets, has a least member.

**Replication** (`ReplicationProofs`). The invariant says of every worker and strict request
between claim and record that it holds an event and has applied it before it records success
(`WorkInv`), of every attempt count, also the copies workers hold, that it is at most the
outcomes recorded (`CountInv`), that an event not yet inserted is in nobody's hands, so that no content changes
under an application (`FreshInv`), and of every row a strict write was captured for that it is still to be
read, to be inserted, being applied or applied (`CopyInv`). `CaptureFacts` says that a candidate is
made for each captured row, and `CaptureStays` that what a write is captured for does not change
afterwards, although it is computed from what was read before. Results:
`ReplicationTypes`, `SyncedEventsWereApplied`, `DeadLettersAreEarned`,
`StrictWritesAreApplied`; for one worker in asynchronous mode `OneWorkerNeverRetries` (false
for two, see the known gaps); and `HealthyRedelivery`, for any number of workers and crashes.

`BackupInOrder` is about one worker, asynchronous replication and the time before the first
failure or crash, as `BackupFollowsOutbox` is. `OrderInv`: every row of the outbox is inserted once and is
then the newest. `BatchInv`: nothing is left behind in PROCESSING, and what is in the batch is
older than what is not. `TurnInv`: what was applied is older than what is being applied, that is
older than what waits, and the backup has the content of the newest event applied to each
row. Events without a payload leave this order when they fail and are retried, so `TurnInv` is
about the others; they never reach the backup. Users are left out too: one the backup lacks is skipped.

**Part requests** (`PartRequestProofs`). `LockInv` says that who is past the stock check holds
the row it checked, which still covers the quantity; `SpentInv` extends the property about
returned quantities to every copy of the line a call holds; `ConfirmInv` keeps pending returns
natural numbers. Results: `PartRequestTypes`, `StockNeverOverIssued` and
`StaleReturnsAreSpent` for any number of stores, and `RequestNeverOverIssued` for one store:
there two issues cannot both be past the lock, so the second read of the request is still
true at the commit (`IssueInv`). With two stores it is false (`MCPartsStores.cfg`).

`LineStaysBehind` and `RestockedOnce` hold for any number of stores. The line is written after the
commit, from a reading that may be old, by several issues at once; what they have handed out and
not yet written is a sum over the calls in flight. `AheadInv` counts it as the cardinality of a set of
units (`Owed`), one for each unit of each such call, which makes the sum a matter of adding
and removing finitely many elements: the line, and every copy of it that such a call
holds, is at least that many units below what was handed out.

**Sessions** (`RefreshTokensProofs`). `OneLiveTokenPerFamily` alone is not inductive: a refresh
about to insert a successor would spoil it. `HolderInv` says that such a call has the family to itself, as
all its tokens were rotated; this follows at the claim from `OneLiveTokenPerFamily` and
`EndedSessionStaysEnded` together, because the claimed token was live. `VersionInv` says that no
token is ahead of the user, so that a call which finds its token current has read just that
version. `LinkInv` says that a successor about to be linked is not linked yet. Results:
`SessionTypes`, `OneLiveToken`, `FamilyVersions`, `EndedSessions`, `RotationChains`, for any number of
calls and any window and lifetime.

**Jobs** (`JobLifecycleProofs`), for any number of calls and work orders. A call that has read
its row carries what it checked (`CallInv`: its move is one of the handler's). `FreshInv` says
that as long as its version is current the request still permits the move it is about to write, which is what makes
`ConvertedIffLinked` inductive; together they are `LinkInv`. `JobInv` says that whoever is about to
send a request back does so for a work order that was given up, that what is CANCELLED was given up,
and that only work orders that were made have a conversion key. Results: `TypeCorrect`, `LinkedWhileConverted`,
`OneJob`, and the action property `EndedStays`. `ReworkDone` assumes `SendsVersion`, that is
clients which send the version they read: without it `closeWorkOrder` closes a job sent
back in between (known gaps). Its invariant `ReworkInv` is about the status of work sent back and about every
call whose reading is current.

**ERP import** (`ErpImportProofs`), for any number of parts, processes and calls (finitely many). `OwnerInv` says that
of the calls for one part at most one is between its claim of the adjustment's key and the
end, and that nothing was adjusted while the key is free or its owner is about to adjust; this is
`AdjustsOnce`, with applications taken over and validations made again at any time.
`CompletedRowsAreDone` rests on `DidInv`: each row of an application that nothing
went wrong in is skipped, adjusted, still to be done, or the one about to be adjusted. A row that is replayed
is adjusted because a key with a result has an adjustment behind it (`OwnerInv`), and *at most
once* makes it exactly once. Neither needs anything of validations, which may overlap and
change the rows under an application: it keeps the rows it has read.

**Offline reports** (`OfflineReportsProofs`). `KeyInv` is the unique index, `AnswerInv` says that an answer
given is true and stays so, and `CountInv` that a retry count at the limit, also one that a
replay read a while ago, belongs to a report that was refused; `AttemptInv` bounds the attempts. That
the next number is a natural number needs the maximum of a bounded set (`BoundedMax`), which
follows from the well-foundedness of the naturals. Results: `ReportTypes`, `OneRequest`,
`SentReports`, `GivenUpReports`, for any number of tabs (at least one), reports, users and faults.

**Only model-checked.** Liveness (`EveryCallEnds`, `EveryEventSettles`, `ReplayIsNotForgotten`) needs
fairness and enabledness, which are outside the prover; every other property of the passing runs is stated by
a theorem. Out of the prover's reach is also induction by the library's theorems, whose parameter is an
operator; where a proof needs induction over a finite set, it takes a least counterexample
instead (`LeastNatural`, `SubsetInduction` in `SumLemmas`). The assumptions the
theorems make are those the known gaps show to be needed: a default row at the start, one
store, one worker without failures, clients that send the version.

## Plan

Done: all modules above, model-checked, and the safety of each proved.

Next, in this order:

1. Lemmas about what a cut-off call leaves behind in the stock engine: `LedgerExplainsStock` sets these calls
   apart, and the accounts of `StockEngineProofs` say by how much the ledger is wrong.
2. Hazards that no property covers yet (`PROJECT.json`), first the two validations of issues from
   different readings and the labour session of a start that loses.
3. Planning occurrences and the numbering of other documents.

Not modelled, and why: the domain event outbox's drain only marks events; stock counts post
nothing but such events; planning and the numbering of other documents are small and separate, and the next to add; the
other domains are record keeping with single-row updates; parsing, mapping, reports and the web
interface keep no state of the protocols above.
