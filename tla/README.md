# Printing & stationery: verification of the stock workflows

TLA+ models of the printing-stationery application, the TLC configurations that
check them on small instances, and TLAPS proofs about them. File and line
references are to the repository. Backend services are under
`src/backend/src/services/`, rules shared with the frontend under
`src/packages/shared/src/`.

The application is an Express backend over one PostgreSQL database, and a
browser frontend. The backend keeps no state of its own: every HTTP call is a
handful of SQL statements, some of them before the transaction that writes, some
of them on another pooled connection while the transaction is open. So what is
difficult here is what overlapping calls do to each other's reads, which locks
order them, and what long sequences of legal calls lead to; and, since work
passes from one person to the next through lists and pages, whether the next
person is shown it at all. Those are the questions the models ask.

## 1. Inventory

### Components that are modelled

| component | state | operations | interacts with | hard parts | what makes it correct |
|---|---|---|---|---|---|
| Item requests (`item-requests.service.ts`, `item-request-workflow.ts`) | request row (status, version, stores, stored reviewers), lines, action rows | create, edit, submit, resubmit, cancel, recommend, forward, return, approve, reject, delete | reads the store assignments; its approved rows are what item issues start from | edits validated on an unlocked read; reviewers read on another connection under the row lock; re-routing of a returned request | the audit trail is one path of the workflow; content is frozen in review; approval went through the stored reviewers; a version names one content |
| Lists and pages of requests and issues (the same services, `queues.ts` of the frontend, `item-issue-workflow.ts`) | none: computed from rows and assignments | visibility, queues, allowed actions, buttons, recipients of notifications | every workflow step | reviewers are stored on the row, roles and pages follow the present assignments, buttons are a third table | whoever must act finds the request and its button, and is told |
| Item issues (`item-issues.service.ts`, `item-issue-workflow.ts`) | issue row and lines, ledger rows, fulfilment status of the request | draft from request, draft for a department, edit, submit, dispatch (verify and post), consume, return, reject | locks request and store rows, advisory lock on the store's stock; writes the ledger; creates the shipment | remainder and balance are checked and then used; four kinds of lock in two orders; several drafts and edits at once | no over-issue, goods leave only once, one open issue per request, fulfilment status agrees with the lines, concluded issues are final, no call hangs |
| Stock ledger and its cost, purchases (`purchases.service.ts`, `stock-ledger.ts`, `stock-balances.service.ts`) | purchases, ledger rows | create, update and delete a purchase; lock, balance and FIFO cost of a dispatch or consumption | one item's rows are shared by all of them | updating or deleting a purchase whose goods were issued; opposite order of header and rows; the unit of an item may change | the ledger says what the documents say; cost adds up and takes the oldest goods |
| Shipments and receipts (`item-issue-receipts.service.ts`, `item-issue-receipt-posting.ts`) | shipment and its lines, receipts, ledger of the destination, delivery status in two rows | record and post a receipt, confirm a receipt saved open (return is retired) | starts from a dispatch; writes the ledger | several partial receipts, damaged and missing goods, FIFO slices over several receipts | dispatched = received + in transit + lost, in lines and ledger; status says what the lines say; no receipt posted twice; no cost applied twice |
| Opening stock batches (`opening-stocks.service.ts`) | batch, lines, persisted name mappings, ledger rows | enter or import, map, rematch, validate, post, cancel | writes the ledger | only posting takes locks; the rest checks and then writes without a guard | a posting writes what it checked; posted is final; no duplicate opening balance |
| Accounts and sessions (`application-users.service.ts`, `auth.service.ts`, `middleware/auth.ts`) | account row with its failure counter and lock, sessions | sign in, lockout, logout, cleanup, change and reset of the password, (de)activation | decides who may call | nothing is locked: sign-ins overlap revocations and each other; the server may stop between two statements | the lockout bounds the guesses; no session survives the credentials it was given for |
| Store assignments, transfers (`store-users*.ts`, `employees.service.ts`) | maker and checker of each store, role and branch of each person, transfers | create, update, (de)activate, delete, new role, transfer | read by every workflow step | everything is read before it is written; a transfer rewrites slots it read before | maker and checker have the role and the branch; transfers join up |
| Stores under stores (`stores.service.ts`) | store rows with branch and parent | create, update, switch | parents of requests and imports | the walk up the tree and the write are apart | the tree has no circle |
| Excel imports of stores and items (`stores-import.service.ts`, `items-import.service.ts`) | the database tables, the preview in the browser | preview, confirm | the forms of the same tables | the preview is confirmed later, against another database | what the preview calls ready can be imported |
| Set-up lists (`items/item-setup-page.tsx`) | search, calls under way, the list shown | type, load, toggle | the list calls of the server | answers arrive in any order | a settled list answers the search and shows the user's saves |
| Entry forms (`item-request-form-page.tsx`, `item-issue-form-page.tsx`, `department-issue-form-page.tsx`) | the entry, the version the page works on, the call under way | open, type, save, save and submit | two calls of the services | either call may be refused or lose its answer; the answer is re-read after the commit | a form overwrites and hands in what its user has seen |

### Components left out

Delivery backfill (one-time migration), the text and list of notifications and
the notifications of issues (rows that decide nothing), the other master data
(single rows under unique indexes), the HTTP layer (validation and routing), the
pool of database connections, the rest of the frontend (layout, tables, API
clients), scripts and migrations. `PROJECT.json` lists them with their files and
reasons, and lists the hazards of the code line by line.

### How the parts interact

    EntryForm --save, submit--> ItemRequest --approved--> ItemIssue --shipment--> Receipt
                                    |                      |   |  ^                  |
                              RequestQueues       IssueQueues  |  |              ledger of
                              (pages, notices)       (pages)   |  |              the destination
                                    ^                          v  |
                        Assignments (maker, checker)       AVAILABLE of the supplier
                                                           (Supply, StockLedger)
                                                                  ^
                                                      OpeningStock, purchases

Each module starts where the one before it ends: `ItemIssue` has the request in
status APPROVED, `Receipt` has the shipment IN_TRANSIT. The ledger is shared,
but a dispatch touches only the supplier's AVAILABLE balance and the
destination's IN_TRANSIT balance, and a receipt only the destination's.
`ItemIssue` has several items, several requests, the locks of whole transactions,
and of the ledger the sums of each rate; `StockLedger` has one item, its rows with
rates, dates and units, and no requests.

## 2. Plan

| order | module | what it settles | status |
|---|---|---|---|
| 1 | `ItemIssue`, `ItemIssue_proofs` | check-then-write of remainder and stock, locks, fulfilment; every safety property proved | done |
| 2 | `ItemRequest`, `ItemRequest_proofs` | workflow, reviewers, edits; every property proved | done |
| 3 | `Receipt`, `Receipt_proofs` | partial receipts, discrepancies, layers | done |
| 4 | `OpeningStock`, `OpeningStock_proofs` | batches whose calls overlap | done |
| 5 | `Supply` | abstract specification of a supplying store; `ItemIssue` checked and proved to implement it | done |
| 6 | `StockLedger`, `StockLedger_proofs` | purchases next to issues, rates, FIFO; every property proved | done |
| 7 | `RequestQueues`, `IssueQueues` (proofs in those of `ItemRequest` and `ItemIssue`) | who finds, may do and is told what | done |
| 8 | `Accounts` | lockout and sessions | done |
| 9 | `Assignments`, `Assignments_proofs`, `StoreTree`, `StoreImport`, `ItemImport`, `ListPage` | administration | done |
| 10 | `EntryForm`; `Office` and `Office_proofs` for 8 to 10 | save and submit from the browser; the administration together; every property proved | done |
| 11 | `Fulfilment` | composition of `ItemRequest` and `ItemIssue`: deletion of a request against creation of an issue | open |
| 12 | `Delivery` | abstract specification of a delivery, in which a receipt sent again after a lost answer shows as a second delivery; the receipt form | open |
| 13 | `ConnectionPool` | transactions that wait for a second connection | open |
| 14 | notifications of issues | who is told of a dispatch, a return, a receipt | open |

## 3. The modules

### Common form

In the modules of the backend a call is served by a worker or request: `call[w]`
(or `req[r]`, `login[l]`, `save[r]`) records what the call is, how far it got and
what it read. A call is split exactly where another call can come in between:
after reads made before the transaction, at each wait for a lock, and at the
commit; where there is no transaction, between any two statements. Between two
such points nothing else can be observed, so those statements are one action.
Row locks and the advisory lock are held until the transaction ends; who holds
what therefore follows from the `pc` of the calls, and needs no variable of its
own. A guarded `UPDATE ... WHERE version = ...` that waited for a row lock sees
the row as it is then (READ COMMITTED), so its guard is evaluated at the commit
step. A refusal, an error and a crash of the backend look alike: the transaction
is rolled back and the call is gone (`Refuse`, `Refused`, `Abort`).

Definitions named `X_Variant` are plausible mistakes in the code behind `X`:
a dropped lock, a missing guard, the wrong one of two sums. No specification
uses them. They document, for each property, a mistake that it notices;
`PROJECT.json` pairs them.

### ItemIssue

State: `request` (status of the requests), `issue` (rows with their lines),
`issued` (the sum over POSTED issues that the code computes in SQL), `quantityIn`
and `quantityOut` (the sums over the supplying store's AVAILABLE rows for each
item and rate), `taken` (history: of the goods that came in, what purchases have
taken back), `maker` and `checker` (the store's assignment), `call`.

| action | code in `item-issues.service.ts` |
|---|---|
| `CreateCheck`, `CreateCommit` | `createItemIssueFromRequest`, `createDepartmentIssue`, `createDraftWithRetry` |
| `UpdateRead`, `UpdateCommit` | `updateItemIssue`, `updateDepartmentIssue` |
| `LockIssue`, `Submit` | `submitItemIssue` |
| `LockIssue`, `Conclude` | `concludePendingIssue` (return and reject) |
| `LockIssue`, `LockRequest`, `LockStock`, `CheckStock`, `Post` | `verifyAndPostItemIssue`, `confirmDepartmentConsumption`, with `lockStoreStockForUpdate`, `getOperationalAvailableQuantities`, `allocateFifoCost` and `applyRequestFulfilmentStatus` |
| `BreakDeadlock` | PostgreSQL's deadlock detector |
| `Assign` | store assignment |
| `StockIn`, `TakeBack` | the ledger rows of a purchase or an opening stock batch; `deletePurchaseLedger` |

All requests of the module name one supplying store, hence the store lock is
one lock. A department issue does not lock the store row explicitly, but the
foreign key of its ledger rows does at insert; that is why `Post` waits for
`StoreFree` then, and why a consumption and a dispatch can block each other.
Quantities are the scaled integers of the code. `FulfilmentAgreesWithLines`
also says that `issued` is that sum over posted issues (`IssuedIsPostedSum`).

In `CheckStock` a dispatch compares its lines with the remainder and with the
balance, which counts layers that are short (`DispatchFits`); a consumption
compares with neither. Both then take their goods from the layers that have some
left (`Allotments`; which layer comes first is `StockLedger`'s). A purchase that is
saved again or deleted takes its goods back whether or not they are still there;
it waits for the rows that a call has locked, not for rows that came in after that
(`TakeBack`, `rows`). So a balance can become negative, and no property says
otherwise. What the locks do give is `GoodsLeaveOnce`: of an item at a rate no
more leaves than ever came in.

### Supply

What a supplying store promises, whatever calls are under way: goods come in at
some rate (`Receive`), and leave in one step, for a request, which then has
received them (`Deliver`), or for a department (`Consume`); never does more leave
than came in, nor does a request get more than it asks for. It does not promise
that a balance is never negative. `ItemIssue` implements it (`KeepsPromise`,
`INSTANCE Supply`) with `issued` as it is, `quantityOut` for what left, and for
what came in `quantityIn` with the goods `taken` back: of all its actions only
`Post` and `StockIn` take a step of `Supply`, the others stutter, `TakeBack`
among them.

### IssueQueues

No state of its own; it extends `ItemIssue` by the pages of requests to issue
(`RequestListed`, from the conditions of `item-requests.service.ts`), the pages
of issues (`IssueListed`, `IssuePages`), and their buttons (`IssueAction`,
`CanEdit`, `CanVerify`). What never changes during an issue, whether the store
is the head office's, the corporate maker stored on the request and who else
sees it, is a parameter (`at`) over which the property quantifies.

### ItemRequest

State: the `request` row, its `audit` rows, the store assignments `assigned`,
`call`. `WorkflowTransitions` is the table of `item-request-workflow.ts`. An
edit is `UpdateRead` (`updateItemRequest` before its transaction) and
`UpdateCommit`; an action is `ActionLock` (`performItemRequestAction` under the
row lock) and `ActionCommit`, with the `WHERE` clause of its UPDATE
(`SameRequest`) and the audit row (`Recorded`). Assignments may change between the two, because
they are read on another connection, and a store may be without maker or checker
(`Staffed`). `DeleteRead` and `DeleteCommit` are `deleteItemRequest`. Lines and
remarks are one value, the content. Checks on whether items, stores and people
are active appear as `Abort`.

### RequestQueues

No state of its own; it extends `ItemRequest` by `Roles`, `Visible`, `Listed`
(`buildListFilters`), `NavQueues` and `QueueActions` (the pages and buttons of
the frontend), `Allowed` (`computeAllowedActions`) and `Recipients` of
notifications.

### StockLedger

State: `itemUnit` (the unit of the item), `purchase`, the committed `ledger`
rows, `verified` (the unit in which an issue was posted), `edited` (history: the
rates of rows a purchase took back), `call`.

| action | code |
|---|---|
| `CreateRead`, `CreateCommit` | `createPurchase` |
| `UpdateRead`, `UpdateHeader`, `DeleteRows`, `UpdateCommit` | `updatePurchase` with `deletePurchaseLedger` |
| `DeleteStart`, `DeleteRows`, `DeleteCommit` | `deletePurchase` |
| `VerifyStart`, `LockRows`, `CheckBalance`, `AllocateFifo`, `VerifyCommit` | `verifyAndPostItemIssue` and `confirmDepartmentConsumption`, with the lock, `buildAvailability` and `allocateFifoCost` |
| `Receive` | the rows that a dispatch to this store and its receipt leave |
| `ChangeUnit` | `updateItem` |

`Net`, `Stock` and `Balance` are the sums of `stock-balances.service.ts`. A
`DELETE` and a `SELECT ... FOR UPDATE` work on the rows that were visible when
the statement began, also when they then wait; rows are written and deleted in
`call` until the commit. Only a dispatch compares with the balance
(`CheckBalance`); a consumption does not.

### Receipt

State: `shipment` and `delivery` (the delivery status is stored in two rows),
`line` (confirmed, remaining, discrepancy), `receipt` rows, `ledger` (balances
of the destination by category), `landed` (the AVAILABLE balance by FIFO layer),
`call`. `Posting` is `postDestinationReceiptConfirmation`; `Submit` is
`submitItemIssueReceipt`, one transaction under the shipment lock; `ConfirmRead`
and `ConfirmPost` are `confirmItemIssueReceipt`, which reads before its
transaction. `Init` has the state after a dispatch, and, as the code still
handles it, possibly one receipt saved open by an earlier release. The two
results of the consistency check in the code, refuse or go on, are the
conjunct on the sum in `Posting`. The layers are read without ORDER BY, so each
posting picks one order out of `ReadOrders`; `orders` (history) remembers those
picked, because what goes wrong with the slices is said in terms of them
(`ReusedOnlyOutOfOrder`).

### OpeningStock

State: `batch` (status and mapped store), `named` (persisted mappings),
`ledger` (rows written), `call`. `MapRead`/`MapCommit` are
`updateOpeningStockMappings`; `ValidateRead`, `RematchCommit`, `Preview` and
`ValidateCommit` are `validateOpeningStockBatch` with
`rematchOpeningStockBatchLines` and `buildPreview`; `PostLock`/`PostCommit` are
`postOpeningStockBatch`, `CancelRead`/`CancelCommit` are
`cancelOpeningStockBatch`. A batch has one line, and the store a line is mapped
to is what tells ledger rows apart.

### Accounts

State: the `account` row, `session` rows, `login` (sign-ins under way), `change`
(a change of the initial password under way), `admin` (the statement an
administrator's call has still to run), and the history `guesses` (failures
judged since the account was last unlocked). A sign-in is `LoginRead`, then
`LoginRejected`, `LoginFailed` or `LoginAccepted` after the password was
verified, `LoginRoles`, `ResetLoginFailures` and `LoginInsert`; every one is a
statement that commits on its own. `ResetPassword` and `Deactivate` are followed
by `RevokeAllSessions`; `ActivateRead` by `Activate`. `ChangeCommit` is one
transaction. `EmployeeStatus` and `RolesChange` stand for the services that
switch an employee or his roles. `ServerStops` drops every call under way. A
live session remembers whether its credentials were withdrawn (`old`) and whether
it could escape the revocation (`spared`).

### Assignments

State: `user` (branch, role, active), `store`, `slot` (the row of `store_users`),
`transfers`, `req` (what a request has read and is going to write), and the
history `loose` (people and stores touched by an overlap or a moved store). A
request makes its checks in `CreateStoreUser`, `UpdateStoreUser`,
`ActivateStoreUser`, `DeactivateStoreUser`, `SetRole`, or `TransferRead` and
`TransferLocked` (the employee's row is locked), and writes in `Commit` a patch of
the columns it sets (`RowsAfter` and `UsersAfter` are the rows and people then).
A commit marks as `stale` every other request that is about one of the same
people or rows (`Touches`, `Overtaken`). `RemoveFrom` and `TakeSlot` are
`removeUserFromStoreAssignments` and `upsertStoreAssignmentSlot`; `RowsAllowed`
are the constraints of the table. `UserStatus`, `StoreStatus` and `MoveStore`
change people and stores and leave the slots.

### StoreTree, StoreImport, ItemImport

`StoreTree`: `CreateStore` and `UpdateStore` are the queries up to the walk,
`WalkUp` is one query of `assertNoUnderStoreCycle` (`at` and `visited` of a save are
its `currentId` and `visited`), so that other saves are written in the middle of a
walk; `SaveStore` and `SaveRefused` are the write under the unique index on the
branch (`BranchTaken`); `crossed` remembers stores whose save overlapped another.
`Above`, all that is above a store, is not the code's walk but what that walk is
compared with.
`StoreImport`: `PreviewStoreImport` sorts the rows of the workbook (`Ready`, which
also gives for each row the store it was found to stand under),
`ConfirmStoreImport` checks and inserts them in one transaction (`Importable`),
parents first (`Before`), while `SwitchStore` and `SwitchBranch` happen in
between. Rows are named by their place in the workbook.
`ItemImport` has the same two calls for items, with the confirmation split
before its insert (`ConfirmRead`, `ConfirmInsert`), next to a form that creates an
item (`CreateItem`, `SaveItem`) and to units and groups that are switched
(`SwitchRef`).

### ListPage

State: the search box, the applied search, the list calls under way, what the
list shows, and a save under way. `ApplySearch` and `ReloadAfterSave` start a
call, `ServerReads` is the moment the server reads, `Answered` and `CallFails` its
end, in any order; `latest` is `loadRequestIdRef`. `ToggleStatus` keeps the
`loadItems` of the rendering it was clicked in; `ServerSaves` is the save,
`ReloadAfterSave` its answer, and `SaveFails` a refusal or a lost answer, after which
the page does not reload, even if the server has made the save.

### EntryForm

State: `kind` (which of the three forms), `row` (the documents on the server),
`page` (mode, document, version and the content the page takes to be stored),
`entry`, `sent` (the call under way), and the histories `created`, `failed`,
`overtaken`. `Save` starts the first call; `Created`, `SentToOpenIssue` or
`Updated` is what the server does; `Saved` is its answer, which is the document
as re-read after the commit, and starts the second call if the user confirmed the
submission; `Submitted` and `Done` end it. `Failed` is a refusal or a lost
answer at any of these points. The actions `Other...` are another tab, another
maker, or the checker.

### Office

The seven small components above, from `Accounts` to `EntryForm`, share no
state, so one module has them next to each other: `area` says which one a
behaviour is about, and the variables of the others stay `None`. `Assignments`
is there twice, with other constants. The branches of `StoreTree` are called
`Seats` here. `MCOffice` gives the small instances.

### SumTheorems

No model: facts about sums over finite sets, about `FoldLeft`, and about claims
on all numbers up to a bound (`UpTo`), for the proofs.

## 4. Model checking

Every run is a `.cfg` for an `MC` module. Workers, issues, receipts and other
identifiers are interchangeable model values and are declared symmetric where
no constant tells them apart; `issue_locks`, which checks liveness, uses none.

| run | shows | bounds |
|---|---|---|
| `issue_parts` | no over-issue; totals, remainders and fulfilment status agree; what is pending still fits; a version names one content, pending lines are frozen, concluded issues are final; what a request still needs is on somebody's page | a request for one of each of two items, 2 issues, 2 calls at once, version 4: create, submit, return, submit again or edit; goods of one rate, 1 unit of each item at a time, none taken back; the two users may swap offices (2.3 million states) |
| `issue_locks` | goods leave once; the whole implements `Supply`; one open issue per request; every call ends, with fairness as below | a request and departments for one unit each of one item, 2 issues, 2 calls, version 3; 2 rates, 1 unit of each at a time, 1 unit of each taken back (363 thousand states) |
| `request_review` | complete audit trail; approval by the stored reviewers; checker of the right store; content frozen in review; a version names one content; whoever must act finds the request with a button, and is told | the whole path with returns (version 7), two contents, 2 calls, 3 stores, head access and an administrator; maker and checker of one store may swap, one store may lose its checker and the head office its maker (1.1 million states) |
| `receipt_posting` | conservation in lines and ledger; each receipt posted once; status; all goods priced, and a layer twice only if it was read at two places; confirmed is final | 4 units in two layers and 2 units in one, 3 receipts, 2 confirmations at once; each posting reads the layers in either order (494 thousand states) |
| `opening_races` | types; a posting writes what the batch shows | 2 batches with the same legacy name, so that mapping one rematches the other, 2 stores, 3 calls |
| `ledger_costs` | ledger and balance say what the documents say; FIFO adds up and takes the oldest; a rate is short only after a purchase took goods back | 2 purchases of 2 units at rate 2 (early) or 1 unit at rate 1 (late), up to version 2; a dispatch of 2 and a consumption of 1; 1 unit arriving; 2 calls; the unit of the item changes once |
| `office` | lockout; sessions end with their credentials; people are where they work; circles only from crossed saves; previews keep their word; a settled list is right; a form does what it shows | see below (3.5 million states) |

The instances of `office`: `Accounts` with 2 sign-ins, 1 administrator, 2
sessions, a limit of 2 failures and at most 4 recorded. `Assignments` twice, with
2 people, 1 store and 2 branches: two overlapping requests and one transfer while
nobody is switched, and one request at a time with two transfers, a third role,
and a person and the store that are switched. `StoreTree` with 3 stores, 3
branches, of which one is switched and the other two are interchangeable, and 2
saves at once. `StoreImport` with workbooks of three rows, the
database empty or with one store; `ItemImport` with workbooks of two rows.
`ListPage` with 2 searches, 4 list calls, and 4 inputs and clicks. `EntryForm` with each of
the three forms, 2 documents, 2 contents and versions up to 5.

Why these bounds are enough for the interesting cases: a race in this code
needs two calls, because a lock or a guarded write has one winner; a third call
appears only where the loser must be overtaken (`opening_races`: mapping,
validation and posting of one batch). A stale check needs the object to change
once between check and use, and an "ABA" change needs it to change and come
back, which takes three versions; `issue_parts`, `request_review` and the form
allow four or more. Sums go wrong with two summands (two lines, two issues, two
receipts, two layers, two purchases), and 1 and 2 units tell part, whole and too
much apart. In the three-receipt run the third receipt meets a shipment with
received, damaged and remaining goods. A rate goes
short when goods are taken back after they left, for which one unit of it is
enough, and a consumption passes then only because another rate has goods, hence
two rates. A circle of stores needs two, and a third store makes the walk up the
tree longer than one query; a workbook of three rows
has a parent, its child and a row that spoils one of them.

`MaxVersion`, `MaxStock`, `MaxTaken`, `MaxRecorded`, `MaxTransfers`, `MaxCalls` and
`MaxInputs` are guards of the actions that would pass them; an issue at
`MaxVersion` can still be refused or finished by calls under way, so no state is
cut off in the middle of a call. Deadlock is checked in every run except the two
ledger runs and `office`, where purchases, issues, workbooks, list calls and
versions are used up in the end and the exploration stops for that reason alone.

### Fairness

Only `CallsFinish` needs fairness (`FairSpec` of `ItemIssue`). Strong fairness of
the steps of a call that has begun is justified by PostgreSQL's lock queues: a
waiting transaction is granted the lock in turn, so a step that is enabled again
and again is taken. Strong fairness of `BreakDeadlock` is the deadlock detector,
which runs after `deadlock_timeout` in every waiting backend. Nothing is
assumed of users: they need not start a call, and assignments and stock need
not change. `Abort` is not fair either, so calls do not finish just because
they may crash. The model has no limit on connections; waiting for the pool is
not modelled.

### What the code does not keep

The following runs end in a violation. Each quotes a text of the repository.

| run | property | behaviour |
|---|---|---|
| `issue_draft` | `DraftOnlyFromApproved` | "An item issue can be created only from an approved request." The request status is checked before the transaction and not again under its lock. A draft whose check ran before the last dispatch is inserted for a request that is ISSUED by then; it can neither be submitted nor withdrawn. |
| `receipt_order` | `LayersNotReused` | "a later partial receipt does not reuse cost already applied" holds only if every receipt reads the layers in the same order; the query has no ORDER BY. That this is the only way is `ReusedOnlyOutOfOrder`. |
| `opening_duplicate` | `NoDuplicateOpening` | The duplicate check reads committed rows without a lock: two batches posted at the same time both pass. |
| `opening_again` | `PostedOnce` | Validation sets the status of a posted batch back to VALIDATED; mapped to another store, it is posted a second time. No overlap is needed. |
| `ledger_overdraw` | `ConsumptionWithinBalance` | "Insufficient Corporate Store stock." A purchase whose goods were issued is saved with another rate: the old rate is negative, the new one full. `allocateFifoCost` adds up the full rates only, so a consumption, which has no other check, takes goods the store does not have. A dispatch is refused by its balance check. |

Other behaviours of this kind follow from the actions and have no run of their
own. Where a property would be false because of one of them, the property names
the case and says that it is the only one.

Documents and stock:

- Cancellation of an opening stock batch (`CancelCommit`) writes without a guard,
  so a batch posted after the read is cancelled and its ledger rows stay,
  although `opening-stocks.service.ts:1570` says "Posted opening-stock batches
  cannot be cancelled."
- `item-issue-quantities.ts:25` says that a discrepancy is finalized only when the
  shipment is completed with discrepancy, while a posting (`Lost`) finalizes
  damaged goods under either resolution.

Pages (`WaitingRequestIsOffered`, `IssueWorkIsOffered`):

- A request whose store has lost its maker or checker is in nobody's list
  (`item-requests.service.ts:1241`), although `queues.ts` of the frontend calls
  the list "Complete history of item requests".
- A request waits for the reviewer stored on it even if he has been replaced; he
  has the list, but no longer the page with the button.
- "Ready to issue" follows the corporate maker stored on the request
  (`item-requests.service.ts:1169`), while only the present maker may create the
  issue. The drafts of someone with head access have no page.
- At a supplying store other than the head office, pending and returned issues
  and the ready-to-issue page do not exist for its maker and checker: the
  `BRANCH_*` roles have only the posted issues (`item-issue-workflow.ts:55`).
- A pending issue whose creator has become the checker can be verified by nobody
  until the offices change again. Rejected issues are on no page of unfinished
  work, and drafts for a department on none at all.

Administration:

- A sign-in that verified the password before a reset or deactivation inserts its
  session after the revocation, and a server that stops between the UPDATE and
  the revocation leaves all sessions (`SessionsEndWithTheirCredentials`). A change
  of the initial password overwrites a reset made after its check.
- Assignment saves that overlap, and a store moved to another branch, can leave
  people in slots of a branch they do not work in (`loose`).
- Two saves of stores that cross can close a circle (`crossed`).
- The preview of stores accepts any row of the workbook as a parent, and the
  preview of items compares names with the database only: a workbook with such
  rows fails as a whole when it is confirmed.

Browser:

- A toggle clicked before the search changed reloads the list for the old search
  (`former`).
- The answer to a save is read after its commit and may be another's version; the
  form then overwrites or hands in what its user has not seen (`overtaken`).
- The forms of requests and of department issues create a second document when
  the user tries again after an error, because they stay in create mode. The form
  of an issue keeps its old version after a refused submission, so a second try
  is refused as well.

## 5. Proofs

The theorems hold for every value of the constants that satisfies the
assumptions of the module: any number of items, requests, issues, users and
calls at once. Bounds such as `MaxVersion`, `MaxStock` and `MaxTaken` are arbitrary. TLC
evaluates the assumptions in every run. Those that go beyond the kind of a
constant are:

- `FiniteAssumption` (in `ItemIssue`, `Receipt` and `StockLedger`): the tables
  over which the code sums have finitely many rows.
- `RequestsAskAssumption` of `ItemIssue`: a request asks for something. It has at
  least one line, each with a quantity above zero
  (`src/packages/shared/src/schemas/item-request.ts`).
- `ConstantsAssumption` of `Receipt`: the quantity of each layer that a dispatch
  recorded is positive, and together they are what it dispatched, which is what
  `StockLedger` shows of an allocation (`FifoTakesOldestFirst`); the orders in
  which layers can be read are orders (`Injection`).
- `OfficeAssumption`: the people and stores that `Assignments` starts from have a
  branch and a role there is, and workbooks are sequences of rows.
- None is neither an identifier nor, where the proofs need it, a row.

The library's induction theorems cannot be used (see the end of this section).
What a sum or a fold computes is proved in `SumTheorems` without them: a sum over
a finite set is determined by its recursion because a smallest set on which it
failed would be contained in no smaller one (`MinimalSubset`), a fold by the list
of its intermediate results, and a claim on the numbers up to n holds because a
least counterexample has a predecessor (`UpTo`).

### ItemIssue_proofs

- `TypeCorrect`: every variable has its type. The invariant is `Typed`, which
  adds that a call past its first step has an issue (or a request) to work on.
- `NeverOverIssued`: no request line is issued beyond its quantity.
- `GoodsLeaveOnlyOnce`: of no item at no rate does more leave than ever came in.
- `PromiseKept`: `ItemIssue` implements `Supply`.
- `OneOpenIssueHolds`, `PendingAlwaysFits`, `VersionsNameContents`,
  `PendingIsFrozen`, `ConcludedStays`: the life of an issue.
- `StatusAgreesWithLines`: the fulfilment status of a request and the totals the
  code computes agree with the lines of its posted issues.
- `IssueWorkAlwaysOffered`: who can take the next step on an issue has it on a
  page with a button.

The second to the fourth share one inductive invariant `Inv`. Neither property is
inductive: `Post` adds to `issued` and `quantityOut` without looking. What makes it
safe is that the checks made at `CheckStock` still hold, `CheckedStillFits`: for
each call that has passed them, the remainder covers the lines of a dispatch, the
allotment adds up to the lines, and what it takes of each layer has come in and
not left. That in turn needs that nobody else issues goods or changes remainder or
lines in the meantime, hence `LocksExclusive` (no two calls hold the same lock)
and `LockedStatus` (an issue under a dispatch is still pending, so that no guarded
edit matches it). Purchases may take goods back in the meantime: `TakeBack` moves
them from `quantityIn` to `taken`, and the sum of the two only grows
(`CameOnlyGrows`). The invariant is the conjunction of these with the two
properties and the types. `AdvanceInv` has one case for each step of a call;
`WriteIssueInv` covers the steps that write one issue and nothing else.

For the refinement, `PostPromised` shows from `Inv` that a `Post` is a `Deliver`
for the request of its issue or a `Consume`; `StockIn` is a `Receive`, `TakeBack`
leaves what came in as it was (`PurchasePromised`), and every other action leaves
`issued` and both sums alone (`NextPromised`).

The life of an issue rests on `OneRowWritten`: a step writes at most one issue,
and then creates, edits, submits or decides it in the way the status allows. From
it, final and frozen issues follow at once. `OneOpenIssue` is kept because a
creation looks under the request lock; a version names a content because an edit
writes a higher version than the row has (`Versions`: the version a call expects
is never above the one it read). A pending issue still fits its request because
the only dispatch that could take its remainder would be of a second open issue
of that request (`PendingAdvance`).

`StatusAgreesWithLines` compares a running total with a sum over all issues. A
dispatch changes one summand, from nothing to the lines of its issue
(`PostAgrees`); every other step leaves what is posted (`OnlyPostPosts`). The
status then follows because a total is between zero and what is requested:
`TotalsTellLines` takes the step from the sums over all lines, which
`applyRequestFulfilmentStatus` compares, to the single lines, for which nothing
may be issued beyond its quantity (`NeverOverIssued`). `IssueWorkAlwaysOffered`
uses all of it: what `RequestListed` computes from totals is what `CreateCheck`
accepts line by line (`OfferedIsAccepted`).

### ItemRequest_proofs

- `TypeCorrect`, `VersionsNameContents`, `ReviewedIsFrozen`,
  `CheckerIsOfTheStore`, `TrailIsComplete`, `ApprovalWasReviewed`: every property
  that `request_review` checks of `ItemRequest`.

`Core` is the types, `RowComplete` (a row that exists has stores and a version),
`UpdatesInOrder` (an edit expects no version above the one it read), `LockedRow`
(an action that holds the row lock still finds the status and version it checked)
and `OneHolder` (one action at a time). `StepEffect` says that a step creates,
edits, acts on or deletes the row, or leaves it; the properties are then shown
for each of these. `TrailIsComplete` adds that an absent request has no trail.
`ApprovalWasReviewed` is not inductive; `Reviewed` strengthens it to the statuses
on the way: from PENDING_CORPORATE_MAKER on, the stored branch checker has
recommended since the last submission, and after that the stored corporate maker
has forwarded (`Done` looks for both in the trail).

For `RequestQueues`, in the same module:

- `NextActorIsTold`: whoever can act after an action of somebody else is among its
  recipients. An action leaves a status in which only stored people may act
  (`AllowedArePending`), and recipients are computed from the row as written.
- `WaitingIsOffered`: whoever the server would let act finds the request with its
  button. `PagesOfRoles` and `PageHasTheButton` give for each step of the workflow
  the page of its actor; `InTheQueueOfThePage` shows that the filter of that page
  lets the request through, for which `PendingApprovalWasForwarded` needs the audit
  trail and its invariant from `ItemRequest_proofs`.

### Receipt_proofs

- `LedgerFollowsLines`: dispatched = received + in transit + lost, for each
  item after any receipts, and the destination's ledger says the same.
- `StatusFollowsLines`: the two delivery statuses say what the lines say.
- `TypeCorrect`: types; with `Nat` for the balances it says in particular that
  a posting takes no more out of transit than is there.
- `ConfirmedReceiptsStay`: a confirmed receipt never changes.
- `PostedExactlyOnce`: what a line counts as received, damaged and missing is the
  sum over the confirmed receipts.
- `LayersPricedOnce`: in whatever orders the postings read the layers, all goods
  received are priced, and more goods are priced at a layer than were dispatched
  from it only if two postings read it at different places. `receipt_order` shows
  that this does happen.

Conservation is nearly inductive: `LineAfterPosting` shows that the clipping of
the remainder at zero never applies, because a receipt is refused unless it
fits. The status needs more: a posting with no quantities would leave a
shipment with status PARTIALLY_RECEIVED and nothing received, so
`ReceiptsHaveLines` (each open receipt receives something) is part of the
invariant, and `CallsAreComplete` says that a confirmation under way names a
receipt. `PostedExactlyOnce` follows one summand, that of the receipt being
posted. For the layers the invariant is `Priced`: of
a layer that every posting so far has found at one place (`Place`), no more has
landed than lies in it before the goods consumed, counted along the order
(`Start` is where a layer begins). A posting prices the next stretch; and when it
finds the layer at another place than before, nothing is claimed of that layer.

### OpeningStock_proofs

- `TypeCorrect`, and `PostingWritesItsBatch`: what a posting writes is what its
  batch shows at the commit, with any calls overlapping. `PostingIsCurrent`
  says that between lock and commit the batch still shows what was checked,
  `PostingIsAlone` that no second posting has the same batch. It is the one
  promise of the component that its lock keeps; compare the violations above.

### StockLedger_proofs

- `TypeCorrect`: every variable has its type.
- `LedgerIsTheDocuments`: the ledger shows each purchase as it was last saved, and
  its balance is what was bought and arrived less what was issued.
- `OldestGoodsFirst`: a verification takes from a layer only when the older ones
  are used up, from none more than it holds, and in all what it issues.
- `ShortOnlyAfterAnEdit`: a rate is short only if a purchase took goods back.

All four come from one invariant `Inv`: `RowsHaveDocuments` (the rows are finitely
many and each belongs to a document), `RowsShowPurchases` and `Balanced` (the
second theorem, with its sums over all purchases and issues), `NoneShort` (the
fourth), and for each call under way `CallOK`, for each two of them `Apart`. The
last two say what the locks and guards give: from its header on an update owns
the purchase and the rows it deletes are those of the purchase; a deletion has
the rows of the version it was asked for, so that it refuses if the version has
changed; a verification is alone, and the rows it is going to write are covered
by the layers they come from, unless a purchase took goods back from one
(`Covered`). For the allocation itself `AllocateIsRounds` unfolds the fold of
`allocateFifoCost` into a list of steps, and `TookNext` shows of one step that
what is taken so far is the oldest (`Took`). `PricedLayers` is the set of layers,
and `Layers` orders it by date and rate; that such an order exists is
`OldestFirstExists`.

### Assignments_proofs

- `PeopleFit`: the types and table constraints, makers and checkers fit their
  store, and transfers are a journey, for any people, stores and requests at once.

None of it is inductive, since a commit writes what was computed from rows and
people that may have changed. `AssignmentsInv` says what is left of it: a write
under way that nothing has overtaken is `Prepared`. It knows whom the rows it
leaves active will name (`KnowsThem`), they will fit once it has written
(`FitThem`), and every slot of the person whose role or branch it sets is among
its patches (`EmptiesSlots`). `PreparedKept` is the heart: a commit that shares
neither a person nor a row with a write leaves it prepared, and one that does
share marks it `stale`, so that what it then leaves behind is `loose`. `SyncPrepared`
shows that the slots which follow a new role or a transfer are such a write.
For the journeys, `TransfersLocked` says what the row lock gives: at most one
transfer of an employee is past it, and it starts where he is (`OneMoreLeg`).

### Office_proofs

About `Office`, and before that about each component by itself:

- `LockoutIsNotOutrun`, `SessionsEndInTheOffice` (`Accounts`; also
  `AccountsTyped`), `PeopleWhereTheyWork` (`Assignments`),
  `NoCircleWithoutACrossedSave` (`StoreTree`), `PreviewsHold` (`StoreImport` and
  `ItemImport`), `ListsSettle` (`ListPage`), `FormsDoWhatTheyShow` (`EntryForm`;
  also `FormTyped`), and `EverythingTyped` for all of them.

`AreaSteps` says that a step of the office is a step of the component of its
area; `OfficeInv` has the invariant of each. `OverlapProofs` and `SequelProofs`
are `Assignments_proofs` with the constants of the two instances of `Assignments`;
`OverlapSteps` and `SequelSteps` expand both sides to see that they are the same.

*Accounts.* The sessions are inductive with the types. The lockout is not:
`Lockout` adds `CounterSeesGuesses` (while the account is unlocked, the counter
has seen every guess, and a counter at the limit is left over from a lock that
has ended) and `LockLeavesUnjudged` (once it is locked, the guesses made and the
sign-ins that had read the row before together stay within the bound).

*StoreTree.* `AboveIsLeast`: walking up as many steps as there are stores comes
to every store above its start and to no other, whether or not there are circles
on the way: a step that finds no new store is the last, and there are not more of
the others than stores. From that, what is above a store does not change unless a
store in it moves (`SameWalk`), and all that is above a store in a circle is in
the circle (`CirclesAre`). The invariant `TreeInv` adds that parents exist
(`ParentsExist`: hence a new store is above no other, and `createStore` may skip
the walk) and that what a save has checked is true until another save crosses it
(`SavesChecked`). The code's own walk is a loop over queries: `Walking` says what
it has found out so far, and when it ends, the stores it has visited are closed
under "stands under", so all that is above the chosen store is among them, and
the store that is saved is not (`WalkKept`). A save that no other crossed then
closes no circle: if it did, its store would be above its new parent, and nothing
above the new parent has moved.

*StoreImport.* As long as nobody changed the stores, the rows that the preview
called ready still are (`StillReady`: distinct active branches without a store,
unused codes, parents where they were found). What then can make the confirmation
fail is a row whose parent it does not find in the workbook
(`ReadyIsImportable`), which is the exception the property names.

*ItemImport.* `Untaken`: without a change in between no ready row's code or name is
in use, and no two of them have one code. So the confirmation drops none
(`NothingSkipped`), and only two equal names can make the insert fail.

*ListPage.* `CallsNumbered` and `SavesInOrder` are about the counter and the saves;
`LastIsRight` says that the last call, or the list once that call is over,
answers the search and contains the saves the page was told of.

*EntryForm.* Versions only grow, so that an equal version means an unchanged
content: `PageIsKnown` says so of the page, `SavedIsThere` of a save whose answer
is on its way, `SubmittingIsThere` of a submission under way. `overtaken` is
exactly the case in which the version in the answer is not the one the save
wrote. `CreatedStay` and `ErrorsAreShown` give the last part.

### Only model-checked

- Liveness (`CallsFinish`): the prover has no ENABLED. Every other property of a
  passing run is proved.
- The five properties that the code does not keep.

The prover has no induction over data: the library's induction theorems take an
operator as a parameter, which none of the installed provers can instantiate.

## 6. Abstractions, and what is not modelled

- Names, remarks, numbering and dates other than those of FIFO; audit rows except
  those of requests; previews other than those of imports.
- Inactive master data: a failed check of that kind ends a call without any
  write, which `Abort` or `Refuse` covers at every point.
- Decimal conversion: `item-issue-quantities.ts` and the services compute with
  scaled integers (BigInt), which have no width; the models use integers.
- `ItemIssue` leaves open which layer an allotment takes first, and an item keeps
  its unit there; both are in `StockLedger`.
- `Receipt` starts from the layers that a dispatch recorded; which rates those
  are is the business of `StockLedger`. A purchase of `StockLedger` has one line,
  and an issue is verified by one call: what two calls on one issue do is
  `ItemIssue`'s.
- The foreign key between an issue and a request that is deleted: each side sees
  it as an `Abort`; their composition is open (`Fulfilment`).
- The pool of connections (`db/client.ts`): a transaction that awaits reads on
  another connection can wait for itself when the pool is used up. Its size is a
  matter of deployment, and the models have no limit.
- Batches of opening stock with several lines, and the parsing of files. A
  posting of opening stock refused by the source key counts as an `Abort`.
- In `EntryForm`, documents that the checker has dealt with for good, and remarks.
- In `IssueQueues`, requests of a store without maker or checker, and the pages of
  what is done.

The models stand for about 13 percent of the lines of the repository. The
larger part of the rest decides nothing that a model could get wrong: pages,
tables and dialogs of the frontend, its API clients, request validation and
routing, list queries with their filters and formatting, the schema and its
generated migrations, and the edits of master data that are one row under a
unique index. What remains and has state is in the plan above, and in the
hazards of `PROJECT.json` that no property covers, each with its reason.
