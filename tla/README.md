# Verification of mfg-platform

TLA+ specifications of the MFG-Platform backend (`src/backend/src`: NestJS with
TypeORM over MySQL), model-checked with TLC and, for the core, proved with
TLAPS. Definitions are translated from the TypeScript source; `PROJECT.json`
maps each of them to the lines it stands for, names the runs, the theorems, a
mutant for each property, the disagreements found between documents and code,
and the hazards of the code with the properties that watch them.

## 1. The system

One Node process serves the HTTP API of some fifteen modules over one MySQL
database, for several tenants. Modules talk to each other in two ways: direct
calls of injected services, and domain events on an in-process bus whose
history is the table `sys_event_store`.

| Component | State | Operations | Talks to |
|---|---|---|---|
| Event bus (`shared/message`, `event`) | rows of `sys_event_store`; ids seen by this process; subscribers | `publish`, cron `processPendingEvents`, manual retry, raw insert of alerts | every module |
| Inventory (`wms/inventory.service`) | `wms_inventory` (total, available, locked), `wms_stock_transaction` (ledger) | `receipt`, `issue`, `lock`, `unlock`, `adjust`, `transfer` | called by issues, takes, receipts, event handlers |
| Issues, stock takes (`wms`) | take and its lines; nothing for issues | `issue` of a demand; `create`, `start`, `count`, `approve` | inventory, bus |
| MES work orders (`mes`) | `mes_work_order`, reports | creation, release from the APS, `transition`, `report`, `split`, `merge`, cascade cancel | bus, HR, conversion |
| MES operations, WIP, order tree | `mes_work_order_operation`, `mes_wip`, parent links | `startCheck`, `complete`, `autoAdvance`, `updateParent` | work orders |
| Outsourcing | order with issued, received, inspected, settled quantities; issue, receipt, settlement documents | confirm, cancel, create and confirm of each document | WMS and QMS through the bus |
| SCM | requests, inquiries, orders, ASNs, receipts, reconciliations | a status machine each; received quantity of a line | QMS, ERP through the bus |
| QMS | inspections, nonconformances | create (by event), `submit`, disposition | WMS, outsourcing through the bus |
| ERP | sales orders, shipments, vouchers, payables, receivables, periods | confirm, ship, post, reverse, closing transfer, lock of a period | APS, WMS through the bus |
| PLM | BOMs, routings, ECRs, ECNs, execution plans | versions, execution of a plan item by item, cron | MES, APS |
| APS | schedules, MRP runs | forward and backward scheduling, release, replanning | MES, ERP, EAM |
| EAM, HR, base, conversion, traceability | equipment, spare parts; work hours; serials; instances; batches and links | tasks, faults, summaries, numbering, recall | bus |
| auth, file, report, frontend | users, tokens; files | administration, input and output | - |

What makes it hard:

- **Interleaving at awaits.** Each `await` lets other requests, event handlers
  and cron ticks run. Most services read a row, compute, and write it back with
  no lock and no version column; many check a status outside the transaction
  that relies on it.
- **Events run inside the request that publishes them**, errors are caught and
  recorded, and a cron poller retries later, outside any request, running every
  subscriber again. Most handlers are not idempotent.
- **Cron ticks do not wait for each other.**
- **The process may die** between any two database statements, and many
  operations are several transactions.
- **Documents feed each other**: a receipt, an inspection, a stock movement and
  a payable are four documents of four modules joined by events.

## 2. Modules

| Module | Stands for |
|---|---|
| `EventDelivery` | abstract: what the event table promises for each event |
| `EventBus` | the bus, its table, its poller, crashes and failing updates |
| `EventBusProofs` | theorems about `EventBus`, and that it implements `EventDelivery` |
| `Inventory` | the stock rows, their ledger and the six operations on them, as transactions |
| `Warehouse` | issues over several rows and stock takes, on top of `Inventory` |
| `WarehouseProofs` | theorems about both |
| `WorkOrders` | MES work orders and the requests that change them |
| `WorkOrdersProofs` | theorems about `WorkOrders` |
| `Requests` | requests in flight, shared by the component services below |
| `EcnExecution` | execution of engineering changes over versions and work orders |
| `Operations`, `WorkOrderTree` | operations and work in progress of one order; parents of orders |
| `CriticalPath` | the passes of the critical path over a tree, used by `WorkOrderTree` |
| `BillOfMaterial` | lines of bills of material and the rollup of a cost over them |
| `Sales`, `Payables`, `Vouchers` | shipments, accounts, ledger and closing of ERP |
| `Purchasing`, `Outsourcing` | orders and their receipts, credited through the bus |
| `Documents` | the steps of nine kinds of documents that are passed on and decided |
| `Scheduling`, `Equipment`, `SpareParts` | slots of the APS, machines and parts of EAM |
| `WorkHours` | records and sums of hours of HR |
| `Recalls` | traces of batches, recalls over them and the freeze of stock |
| `Numbering` | serial numbers |
| `SumProofs` | lemmas about sums, folds, sorted lists and recursion, used by the next four |
| `ProductionProofs` | theorems about `EcnExecution`, `Operations` and `WorkOrderTree` |
| `SupplyProofs` | theorems about `Documents`, `Purchasing`, `Outsourcing` and `Scheduling` |
| `FinanceProofs` | theorems about `Sales`, `Vouchers`, `Payables` and `BillOfMaterial` |
| `ResourceProofs` | theorems about `Equipment`, `SpareParts`, `WorkHours`, `Numbering` and `Recalls` |
| `MCEventBus`, `MCWarehouse`, `MCWorkOrders`, `MCServices` | small instances for TLC |

### 2.1 EventBus

`store` is the table: one row per event id with status, retry count and
creation time. `processedIds` is the in-process set of ids seen (it forgets the
oldest beyond `Cap`, and everything at a crash). `pub[p]` and `tick[t]` are the
program counters of the calls of `publish` and of the poller's ticks in
progress: what lies between two awaits of the code is one action.

| Action | Code (`database-message.service.ts`) |
|---|---|
| `PublishStart` | check of the id, list of subscribers |
| `PublishHandle` | one subscriber: completes, or throws, and the message of its error takes the place of an earlier one; the next one runs in either case |
| `PublishSave` | `saveToStore`: FAILED if there is a message, which is not empty, and COMPLETED otherwise; its error is dropped |
| `PublishMark` | the id becomes known; the oldest is forgotten |
| `TickStart`, `TickEmpty`, `TickPick` | the window of `Take` rows, then the filter on the retry count, then PROCESSING |
| `TickHandle`, `TickComplete`, `TickFail` | subscribers of the row in order, COMPLETED, or the retry count and FAILED or DEAD_LETTER |
| `InsertPending` | raw insert of a safety stock alert |
| `Requeue` | `POST /events/:id/retry` |
| `Crash` | the process starts again with nothing but the table |

A handler is its outcome: it completes, throws for a transient reason, or, if
it needs the tenant of a request (`TenantBound`), throws whenever the poller
runs it. A thrown handler leaves no effect. Payloads are not modelled. An error
has a message or, like the `AggregateError` of a refused connection, an empty
one; `publish` keeps the last message only and takes an empty one for no error,
so that an event can be stored COMPLETED although a subscriber failed.
`unheard` is history and names these rows; `attempts`, `ran`, `published`,
`requeued` and `failures` are history and bounds.

`EventDelivery` says the same without saying how: an event is accepted, as
delivered or waiting; a waiting event is delivered or a try fails; the last
try allowed kills it. `DeliverySpec` is the refinement.

### 2.2 Inventory and Warehouse

`stock` holds for each key (material, batch, location) the three quantities of
its row, or no row. `ledger` is the sum of the stock transactions of the key:
all the properties tell apart of them. A transaction (`txn`) reads from the snapshot of its
first read, keeps what it wrote, and locks what it writes until it commits,
rolls back, or dies in a wait that closes a circle: that is what InnoDB does at
REPEATABLE READ, and TypeORM's `findOne` takes no lock. `upsertInventory`
computes from the row read and writes absolute quantities; the model does the
same, so an update can be lost. Three history variables let the properties say
exactly what remains true: `lost`, the keys on which a transaction wrote over a
change it had not read; `counted`, those a stock take corrected; `clamped`,
those whose available quantity an adjustment cut off at zero.

| Action | Code (`inventory.service.ts`) |
|---|---|
| `Receipt`, `Issue`, `Lock`, `Unlock`, `Adjust`, `Transfer` | the operations, each a transaction of one or two writes |
| `Update`, `Insert` | `upsertInventory` after its checks, and the ledger row of `writeTx` |
| `PassOver` | `stock-take.service.ts`: a correction that cannot be made |
| `Reject`, `GiveUp` | a failed check or the unique key; the end of a lock wait |
| `Commit` | rows and ledger together |

`Warehouse` adds the jobs that use these operations: an issue lists its
candidates, then runs one transaction for each, and announces `MATERIAL_ISSUED`
after the last; a stock take reads the book quantities, is counted line by line
in any order, and is approved in one transaction that adds the differences and
passes over corrections that would make a row negative. Its start reads the
status (`StartRead`) and writes it by id later (`StartTake`), perhaps after the
take was closed.

### 2.3 WorkOrders

`order` is the table: status, planned and completed quantity, parent, and the
order it was split from; `merges` and `announced` are the mergers made and the
quantities of `PRODUCTION_COMPLETED`. `job` is the request of each client in
progress with what it has read; `op` names the handler it is in. The orders are
those of `WorkOrderTree` too; here are the effects that a change of parent has
on the other columns of the rows it saves.

| Actions | Code |
|---|---|
| `Release`, `ReleaseRoot`, `RootWrite` | `WorkOrderService.create`; `onWorkOrderReleased`, which saves an order whose root was not found a second time, whether or not it has a parent, to enter its own id as root, and writes back what it inserted |
| `StartRead`, `StatusWrite`; `TransitionRead`, `StatusWrite` | report START and `transition`: check the row read, write by id |
| `CompleteRead`, `CompleteWrite`, `CompleteCheck`, `CompleteClose`, `CompleteAnnounce` | report COMPLETE: quantity in a transaction, a new read, the status, `PRODUCTION_COMPLETED` |
| `SplitRead`, `SplitCommit` | `split`: checks outside, parts and closing inside the transaction; the number of a part is unique |
| `MergeRead`, `MergeCommit` | `merge` |
| `CancelRead`, `CancelCommit` | `executeCascadeCancel`: descendants listed first, rows locked and checked after |
| `MoveRead`, `TreeSave`, `TreeFind` | `updateParent` and `_propagateRootAndLevel`: the order, then its children level by level, each read and later saved as a whole row |
| `Abort` | a request dies anywhere and leaves what it has committed |

`reported`, `overwritten`, `reverted` and `contended` are history: what reports
said, which orders had their quantity written over one not read, which were
given back a status they had left by the save of a whole row, and which two
requests worked on at the same time.

### 2.4 The component services

These modules have one shape. `Requests` keeps for each client the request it
is in (`job`): what it does, at which statement it is, and what it has read and
not yet written. A component declares its tables as variables and one action
for each statement or transaction of a service method: a first one that reads
and checks (`Accept`), further ones (`Continue`), and a last one that writes
(`Reply`); what the code does in one statement is one action (`Once`). A
request may die between any two of its statements (`...Die`), and what it has
committed stays. Where the code saves a row it has read, the model writes the
columns as they were read, so that a change in between is lost.

A service that reads, checks and saves without a lock cannot keep its sums in
every interleaving, and nothing in the documents says it does. The properties
say exactly where it does: history variables name the rows two requests worked
on (`lateLines`, `contended`, `mixed`, ...) or a request that died left half
done (`poTorn`, `treeTorn`, ...), and the property speaks of the others. So a
change that moves the fault elsewhere is found.

| Module | Code | Actions that stand for several statements, and what is particular |
|---|---|---|
| `EcnExecution` | `ecn-execution`, `wip-impact`, `bom`, `mes-event` | a plan in steps: `Check`, `Begin`, then for each item `StartItem`, `Clone`, `CompleteItem` or `FailItem`, then `Finish`, `Announce`; a failure before or after the committed clone (`ItemFails`) leaves the item FAILED; started by cron or by hand; versions created (`Create`, `CreateWrite`), edited (`Edit`, then `EditStatus` or `EditNumber`) with the status and the number of the request body, and deleted; activation in two statements (`RetireOthers`, `MakeActive`). History: `handWritten`, `renumbered` |
| `Operations` | `operation`, parts of `production-report` | completion computes before its transaction and commits the operation, the next ones and the work in progress together |
| `WorkOrderTree` | `work-order-tree`, `critical-path` | the walk up reads one order at a time (`Walk`); the children are saved one by one (`SaveChild`), with the times they were read with |
| `CriticalPath` | `critical-path` | functions, no state: the two passes as folds over the orders by their stored level, with the times stored before where a level is out of date |
| `BillOfMaterial` | `bom` | `CalcCost` is one reading of lines and the sums up to the next; the recursion is a list of bills still to look at, with the pieces they count for |
| `Sales` | `sales-order`, `shipment` | `ShipBegin` ... `ShipCommit` is a transaction with its snapshot; credits inside it commit at once; numbers of receivables are unique and start again each day; `UpdateLogistics` reads the shipment and `UpdateLogisticsWrite` saves the whole row outside a transaction, so that SHIPPED can become PENDING again. History: `reopened` |
| `Purchasing` | `purchase-order`, `receipt`, `scm-event`, `qms-event` | the event of a receipt credits item by item, may fail midway, and is delivered again as a whole |
| `Outsourcing` | the services of `outsourcing`, `inspection` | check, insert, count and status are four statements; the order is saved whole |
| `Vouchers` | `voucher`, `ledger`, `period-end` | a voucher is what it adds to each account; the ledger is computed from the posted ones |
| `Payables` | `reconciliation`, `payable`, `receivable` | each delivery of `PAYABLE_CREATED` inserts |
| `Documents` | `purchase-request`, `inquiry`, `price-agreement`, `asn`, `supplier-onboarding`, `quotation`, `sales-return`, `nonconformance`, `change` | a table of steps for each kind of document; an instance is one document of one kind |
| `Scheduling` | `scheduler`, `urgent-order`, `replan`, `aps-event` | a slot is searched in one action and saved in the next, row by row, each order of a run on a resource of its own; an order may change its hours (`ReplanChange`) or only its date (`ReplanDate`) |
| `Equipment` | `fault`, `maintenance`, `equipment`, `aps-eam`, `aps-event`, `aps-resource` | two subscribers, each of which finds its row (`FindRow`) and saves it later, and of which one reads a resource the payload does not have; the other writers of a resource: its status by hand (`GiveStatus`), and saves of the whole row with the status read before (`ReadRow`, `ReadOther`, `SaveRows`). History: `astray`, `eqLate` |
| `SpareParts` | `spare-part` | stock saved, then booked |
| `WorkHours` | `work-hour`, `hr-event`, `shift` | look, insert, sum, split by the shift, write |
| `Recalls` | the services of `traceability`, the freeze of `wms-event` | a batch is looked for, counted and inserted in three statements; both searches of a recall go on at once, one trace at a time; the warehouse freezes batch by batch |
| `Numbering` | `numbering` | compare and set, at most `MaxRetries` times |

The components share no tables with each other in these models; where one
feeds another (a report, an inspection, a status), the event is an input of the
module, delivered as `EventBus` delivers it: at least once and possibly without
a tenant, or at most once where the subscriber drops its errors.

## 3. Runs

All runs finish within five minutes with two workers.

| Run | Question | Bounds |
|---|---|---|
| `bus_single` | Without crashes, and with a tick that does not overlap itself, is any row given up early, tried too often, stranded in PROCESSING or lost, or an outcome undone? | 2 events and an alert, 2 calls of publish (of one id too), a window of 2, ids forgotten beyond 1, 2 tries, 2 failures |
| `bus_live` | Is every waiting row settled, with overlapping ticks and a manual retry, and every failed event delivered when its failures are transient? | an event and an alert, a window of 1, 2 tries, 2 failures in all |
| `bus_delivery` | With crashes and failing updates, does the bus implement `EventDelivery`, does COMPLETED keep its meaning, is the window never blocked? | 2 events, 2 calls of publish, one tick |
| `bus_repeats` (violated) | Does a subscriber act once for one id? | no faults |
| `bus_tenant` (violated) | Is a failed event recovered when a subscriber needs the tenant? | no faults |
| `stock_serial` | One request at a time: do the parts of a row add up, is what is held covered, is a counted difference applied once, after any sequence? | 2 rows, 4 operations of 1 or 2, issues of 3, a take |
| `stock_concurrent` | Two at a time: where do rows and ledger part, and does an issue that is announced have all it asked for, although the stock changes between the listing and the deductions? | 2 rows, 2 requests in every interleaving, issues of 2 over rows of 1 |
| `stock_lost_update` (violated) | Do concurrent operations on a row keep it consistent with the ledger? | 1 row |
| `take_pass_over` (violated) | Is a line marked ADJUSTED only when it was? | 1 row |
| `wo_race` | Two requests at a time, each dying anywhere: cancellation, reports, announcements, the fate of an order | 3 orders of 2, reports of 1 and 2, 5 requests, by hand and from the APS, changes of parent down to three levels, which only orders on a cycle go beyond |
| `wo_reopened` (violated) | Does a closed order stay closed? | 1 order of 2, a report, 3 requests |
| `services` | Two requests at a time in each component of 2.4: which sums, statuses and numbers stay right? | next table |

`services` is one run over all component services: a behaviour is one of the
component its `scene` names, and the others do not move. The instances:

| Scene | Requests in all | Instance |
|---|---|---|
| ecn | 3 | a bill of material and a routing, versions 1 and 2, one plan, one work order; bodies that name ACTIVE or no status |
| operations | 4 | three operations, the last two of one sequence |
| sales, purchasing | 4 | two lines of 1 or 2, two shipments or receipts, of which one names both lines; two days |
| outsourcing | 6 | an order of 2, two issues, two receipts |
| vouchers | 4 | at most one posted voucher to begin with |
| numbering | 4 | three tries, an edit of the serial to 1 |
| tree | 2 | every tree of three orders with the one of two hours at a root, the others of one, one of them planned later |
| boms | 2 | eight structures of three bills, with shared parts and with a cycle; quantities 1 and 2 |
| equipment | 3 | two machines, a fault that is new, reported or in repair to begin with, a maintenance task; a resource may be given BREAKDOWN by hand |
| parts | 4 | two applications, quantities 1 and 2 |
| scheduling | 3 | two rows of two hours and of one, two resources |
| hours | 4 | three reports on two days, a shift of two hours |
| documents | 6 | each of the nine kinds, two suppliers |
| payables | 4 | an amount of 2, payments of 1 and 2, with and without a difference |
| recalls | 3 | two productions that follow each other, searches one level deep; `MaxNodes` is not reached |

Why the bounds are enough to be worth the run: a lost update, a double
approval or a check made stale needs two actors and one row; an issue in two
transactions and a circle of locks need two rows; a split, and a cancellation
of a tree, need an order and two children; giving up a row at the limit and
trying it too often need two tries and two ticks; a window that blocks needs
one row more than it takes. Each mutant of `PROJECT.json`, a plausible bug in a
mapped definition, is found by the run of its property at these bounds.
In `services` two requests that overlap and a third before them reach every
exception the properties name; where there are three or more, the first is
served alone (`FirstAlone`), which leaves a first request that dies at once and
then the pair. An issue, a receipt and an order cancelled between them need the
six of outsourcing. Three requests at once add nothing a
property tells apart, since what a request does to the rows another has read is
seen by one of them.
Deadlock is checked on the bus, whose poller never stops; the other runs stop
when the requests are used up (`MaxRequests`), and there
`CHECK_DEADLOCK FALSE` says so. Symmetry is used in safety runs only, over
keys, orders and clients, which the code treats alike.

Violated runs are disagreements of the code with a sentence of its documents,
quoted in `findings`.

## 4. Fairness

`EventBus.FairSpec`: weak fairness of each tick (cron fires every five seconds,
and each await of a tick returns) and of a call of `publish` that has begun.
Nothing obliges anybody to publish or to press retry. The warehouse, the work
orders and the component services state safety only: that every request ends
is what the database sees to, by a limit on each wait for a lock, whatever the
code does.

## 5. What is proved

TLAPS proves the following for every value of the constants that satisfies the
named assumptions of each module. They say that quantities and durations are
natural numbers or positive, that bounds are natural numbers, that functions
among the constants have their domains, that the sets that are summed over or
served at once are finite (`ClientsAssumption`, `ReceiptsAssumption` and the
like: a process holds finitely many requests), and that the markers for "none"
are not rows. `ProductionsAssumption` says that a production does not consume
the batch it makes; `BomOfAssumption` that a part has one bill in force or none;
`TreeOrdersAssumption` that there are no more orders than levels the model
bounds (`MaxLevel`), without which a save could not be made; and
`FirstResourceAssumption` that the resource of the first row of `aps_resource`
is a resource. TLC evaluates all of them in its runs. Each component has
its invariant (`...Inv`), proved of the initial states and of each action;
type correctness is part of it everywhere.

Four ways of reasoning return:

- *Requests in flight.* A property of the rows is seldom inductive, because a
  request writes what it computed from an earlier read. The invariant says of
  each request between two statements what it may still rely on, and under
  which exception (a history variable such as `partLate`, `lateOps`, `mixed`)
  it may not.
- *Sums.* `SumProofs` has what the sum of the community modules adds up to:
  nothing over the empty set, one element more or less, one summand changed,
  whatever the order of the fold.
- *Loops over lists.* A loop of the code is a fold, and what a fold computes is
  a run over the places of its sequence (`RunExists`, `RunFollows`), from which
  a loop invariant follows by induction over the places. A sort is the choice
  of one list of a set in an order that may leave some elements equal;
  `ListExists` says that there is one and `ListHasAll` that it leaves nothing
  out, and no proof knows which of the equal ones comes first.
- *Induction.* Over numbers and finite sets it goes by a smallest
  counterexample (`NatSetInduction` and well-founded sets of the library), since the
  induction theorems of the library take an operator. Recursive functions are
  shown to be there (`NatRecursion`) and then unfolded one step at a time.

**EventBus.** `TypeCorrect`; `AtLeastOnce` (`CompletedMeansAllRan`) with every
fault allowed, of all rows but the `unheard` ones; `WindowNotBlocked`
(`WaitingIsEligible`). A row alone does not
say why COMPLETED is justified, since the decision is taken in a task that may
be several awaits away from its first handler. The strengthening
`TasksProgress` says of each call and each tick that the handlers before its
position have completed; it is preserved by a step of that task because it runs
the next one, and by the steps of others because `ran` only grows.
`BusImplementsDelivery` is the refinement, under the condition that ticks do
not overlap and nobody requeues: with them it is false, and TLC shows why the
condition is there (two ticks count one try twice or write over each other).
Three theorems state in their hypotheses what the runs fix in their constants:
`GivenUpAfterMaxRetries` (`GivenUpInTime`: one tick, no failing update, no
retry by hand), `OutcomesAreFinal` (`OutcomeIsFinal`: one tick) and
`EffectsAreStored` (`EveryEventStored`: no crash, no failing update).

**Inventory.** `InvTypeCorrect`, and `StockIsExplained` (`LedgerExplains`,
`Balanced`): for any number of rows and transactions, the total of a
row is the sum of its ledger and its parts add up, except for keys that are
`lost`, `counted` or `clamped`. The invariant ties a transaction to the row
while it is open: `OneHolder` (of two open transactions at most one has written
a key, because the write locks it), `Accounts` (the version a transaction has
in hand agrees with the ledger plus the entries it has made, as long as the row
is still the one of its snapshot; if it is not, the commit puts the key in
`lost`), `NoDelete` (a row once there stays).

**Warehouse.** `WhTypeCorrect`; `IssuesAnnouncedAreIssued`
(`AnnouncedIsIssued`): what the ledger has of an announced issue is its demand,
with any number of requests at the same time. A job counts what it asked a row
for, and the ledger gets what the row was deducted; `IssueTakes` says of an open
transaction that the two are equal, and `JobsAddUp` that moved plus missing is
the demand at every point of a job. `PlanHasLines` keeps the types of an
approval. `WarehouseUsesInventory`: every
step of `Warehouse` is a step of `Inventory` or leaves it alone, and
`WarehouseIsExplained` carries `StockIsExplained` over; `RowsAreCovered` is
`Covered`. `DifferencesAreAppliedOnce` states `AppliedAtMostOnce` for approvals
that do not overlap, whatever else does.

**WorkOrders.** `TypeCorrect`, `CancelledUntouched` (`CancelledHasNoWork`),
`QuantitiesAreReported` (`CompletedIsReported`), `AnnouncementsAreMade`
(`AnnouncedWasMade`). `IInv` is their conjunction with: `OnExisting` (a request
works on orders that exist), `FreshUntouched` (an order that does not exist, or
is RELEASED or CANCELLED and not `reverted`, has no reports), `RowsAreOfOrders`
(a row a request holds in memory has the quantity and the origin of its order,
and no more completed than was reported: so a save of a whole row can undo a
status or a report, and nothing else), `UnusedSilent` and `SeenWasReported` (the
quantity a request will announce was reported at the time it was read).
Cancelled orders keep free of work because the locked row is checked again;
where a save of a whole row gave a started order its RELEASED back, they do
not, and `reverted` says which. `QuantityHasOneFate` (`OneFate`) counts over sets
of orders; `FateInv` keeps the sums over the parts of a split and the merges of
an order together with what requests in flight hold of them.

**EcnExecution.** `CompletedIsApplied` (`CompletedMeansApplied`),
`ActiveVersionIsOne` (`OneActiveVersion`) and the action property
`EndedPlansAreAtRest` (`EndedPlansRest`). `EcnInv` adds that the plan of a
request has the status its stage began from unless it is contended
(`PlanIsHeld`), that what it is about to complete has been cloned
(`CloneIsBehind`), that the version it is about to clone or activate is the
only active one left unless the object is excepted (`VersionIsHeld`), and
that what it has behind it is completed or failed (`BehindIsDone`). A version
is cloned once because its clone takes the next number, which is unique
(`NumbersAreTaken`), unless that number was changed or given free by hand
(`renumbered`). One active version is proved but for objects two requests
overlapped at and those a request body gave a status (`handWritten`).

**Operations.** `ProgressIsNotLost` (`ProgressIsKept`), from `NextIsLater` (a
completion knows only later operations), `TotalIsFresh` (what a report read is
what there is, until another writes) and `WipIsStarted`.

**Documents.** `DocumentIsDecidedOnce` (`OneVerdict`), from `StepIsLegal` (the
step a request saves is one the document can still take), `UndecidedYet` and
`SnapshotIsFresh`.

**Purchasing.** `ReceivedIsCredited` (`ReceiptsAreBooked`). A receipt credits
its items one by one and reads the order again for each: `CreditedInOrder` says
how far the one request at it has come, and the sum over receipts and items of
what was credited is the received quantity of each line.

**Outsourcing.** `OrderIsSumOfDocuments` (`OrderAddsUp`). A document confirmed
and not yet counted has exactly one request that will count it (`CountedOnce`),
and what a request is about to insert still fits (`RoomIsLeft`).

**Sales.** `ShippedIsBooked` (`ShipmentsAreBooked`). `LinesCover` bounds what
shipments brought to a line, with what requests under way have credited, by the
quantity of the line, a sum over shipments and over clients; `NumbersRun` says
that the numbers of receivables of a day have no gap, which is why a second
receivable of a shipment on the same day fails (`ChargedOnceADay`). That takes
a shipment that stays shipped once it is charged (`ShippedIsCharged`); those
that a save of the whole row made PENDING again (`reopened`) may be charged
again, and are credited for both.

**Vouchers.** `ClosingTransfersAll` (`ClosingLeavesNothing`). The sum over the
ledger is taken apart into trade and closing; `OneClosing` and
`ClosingIsCurrent` say that a period closed once has one closing, in flight or
as a voucher, and that it carries the sum of the trade.

**Payables.** `PayablesAreTyped` and `PaymentsStayKept` (`PaymentsAreKept`). A
request saves an account it computed from an earlier read, so `PayInv` says of
the computed account what the property says of the row (`AccountsShow`), and
that nobody else works on an account that is not `mixed`. One payable for a
reconciliation confirmed once needs two more parts: how far it has come while
one request is at work on it (`OneConfirmation`), and that payables and
deliveries under way carry different events unless one was repeated
(`EventsDiffer`); from one event at most and no two payables of one event
follows one payable at most.

**Numbering.** `SerialsStayUnique` (`SerialsAreUnique`). `NumInv` adds that the
serial has not fallen behind the one an administrator wrote last, and that what
a request compares with is a number: a stale read then either fails the
comparison or is not stale.

**Equipment.** `ResourcesFollow` (`ResourceFollows`). `EqInv` says what is true
while events are on their way: an event carries the status its machine has,
unless a change overtook another (`EventIsNews`), and the resource is right
once the first of the two subscribers has had the event, whatever the second
still does (`Mirrored`). A resource given another status by hand, or by the
save of a row read earlier, is `astray` until the next event of its machine is
delivered.

**SpareParts.** `PartStockIsBooked` (`StockIsBooked`): a row against two sums,
what applications took and what requests have saved and not booked yet; with
`OneApprover` and `StockIsFresh`.

**WorkHours.** `DaysAndWeekAddUp` (`HoursAreSummed`). The property speaks of
days at which nobody is at work; `DayIsSettled` follows the one request that
is, and the nightly run and that of the week do not overlap (`OneNightly`).

**Recalls.** `RecallFindsAll` (`RecallIsComplete`), for any productions and any
limits `MaxDepth` and `MaxNodes`. Two walks of `MaxDepth` steps are compared:
the one of the search over numbers of traces, and the one of the property over
batches (`ReachIn`; `BatchesReached` says when they reach the same). The loop
over the queue is followed by `AtLevel`: at depth h it has been at everything
within h - 1 steps and has the rest of h steps in its queue. `DroppingKeeps`
and `VisitingKeeps` say that a turn keeps this, `SearchIsOver` what it means
when the queue is empty. `RecallInv` ties each request to the tables: what is left
of a production was consumed for its output (`TraceKnows`), a search is right
so far unless it was cut or disturbed (`DirectionKnows`), and what an
assessment lists is locked, skipped or still to be frozen (`FreezeKnows`).

**WorkOrderTree.** `TreeIsTyped`, `CyclesStayLate` and `TreeStaysSound`
(`TreeIsSound`), for any number of orders. The proof has three parts.
A cycle is a set of orders that has the parent of each of its members
(`ClosedIn`), which spares the proof all paths. `CycleInv` says that every one
has an order written while requests overlapped; a save keeps this because the
walk before it is still inside every other cycle its change would close
(`WalkFits`), so that a walk that has come to the root leaves none
(`JoinFits`). `LevelInv` says, as long as nothing overlapped or was torn, that
an order whose level and root do not follow its parent is owed by the request
under way: it is a child of the order whose children are read next, or on the
list of rows still to save (`Owes`, `LevelsOwed`). The list is worked off depth
first, and the level a row is saved with is that of its parent by then
(`MoveFits`). The third part is about `CriticalPath` alone: if levels count
from the root, the forward pass gives each order its earliest finish after
that of its parent, the backward pass its latest start before those of its
children, and an order has no slack exactly when it lies on a longest path
(`NoSlackIsLongest`). `PathFits` carries this from the calculation to the last
of the saves.

**BillOfMaterial.** `BillsAreTyped` and `RollupSavesCost` (`RollupIsCost`), for
any bills, shared parts and cycles included. The list of bills a rollup still
has to look at stands for the recursion of the code. `RollsUp` says, while no
line was written under it and if the bill is not made of itself, that what is
counted and what the list is worth come to no more than the full cost, and to
exactly that if no two lines below name parts with one bill (`CountsUp`); there
each bill comes once (`ComeOnce`) and the set of bills looked at never drops
one. The full cost is a function computed in rounds; `FullCostIsFixed` says
that a bill that is not made of itself costs what its lines cost, by induction
over the number of bills it is made of.

**Scheduling.** `SlotsAreTyped` and `SlotsStayApart` (`SlotsAreApart`), for any
number of rows, resources and requests. The search goes over the live rows of a
resource by their start; what it returns is apart from each of them, since a
row it has passed ends before the cursor and a row it stops at begins after the
new end. `SlotInv` says of a request about to save that its place is free until
then (`PlacesAreFree`): whoever writes in between makes one of the two rows
loose. Rows that are put off together are the hard case, because in the middle
of the loop a row that has moved may overlap the next one, which has not:
`FirmAreApart` excepts just those pairs (`Between`), and `WillBeApart` says that
each row still to be moved will, once it is, be apart from all that are not on
the list. This rests on the rows being what the request read, unless they were
saved by others since (`RowsAreFresh`).

Only model-checked:

- liveness (`WaitingIsSettled`, `FailureIsRecovered`), since the provers do not
  treat fairness and ENABLED;
- `ServicesTypeOK` as one formula of the run `services`, whose behaviours are
  those of one component each: the type invariants of all sixteen are proved
  one by one.

## 6. Abstractions

- Decimal quantities are small naturals; amounts come from the sets of the
  configuration. Rounding is not modelled.
- One tenant, one material per order; keys of stock with a batch (rows without
  one can be doubled, see the hazards).
- A read or a write of one statement is atomic; a transaction at REPEATABLE
  READ sees a snapshot for plain reads and the latest rows for writes.
- Columns, queries, logs and events that no property is about are left out;
  `note` of each component says which.
- The component services leave out prices, names, dates and the text of numbers;
  a document of `Documents` is its status, and what its lines decide is a
  choice. Its steps assume that the body of an update does not carry `status`,
  which the controllers do not filter out. `EcnExecution` takes a body at its
  word, with a status or a number in it; one that names both at once, or moves
  a version to another object, is left out.
- Times of `Scheduling` are whole hours; breaks of a calendar do not occur,
  since the scheduler holds the calendar service and never asks it.
- `MaxPublishes`, `MaxRequeues`, `MaxFailures`, `MaxRequests`, `MaxCount` bound
  the runs. They are guards of the arrival of requests or faults, never of a
  step of the code, and the proofs hold for every value of them.

## 7. Disagreements known from reading

Beyond the violated runs, these were met while modelling. They are not in
`findings`, since no run shows them yet.

- Bus: an insert that fails is dropped (`saveToStore`), so a failed event can
  leave no row; a crash between handlers and insert leaves no record; a row in
  PROCESSING after a crash is read by nobody, against EX-INT-007 of the test
  matrix; two ticks may try a row more than `maxRetries` times. A failed handler
  whose error has an empty message is stored COMPLETED and never retried,
  against the comment at `database-message.service.ts:46`.
- Issues: the deductions of one issue are one transaction each, so that an issue
  that fails at the end (`issue.service.ts:93`) has already taken stock
  (EX-VAL-011).
- Stock take: lines of a closed take can be counted again (EX-STM-010); the
  comment at `stock-take.service.ts:125` speaks of frozen locations, and
  nothing freezes them.
- Work orders: plain cancellation is always refused (`WO_TRANSITIONS` has no
  CANCELLED); a cascade cancels the children and never the order itself
  (FLOW-WO003); nothing completes a parent with its children (SM-MES-WO010); a
  repeated report counts again (EX-BIZ-013); parts of a split have level 0 and
  no root. A report may bring the completed quantity over the planned one
  (EX-VAL-003), and the reports of operations that SM-MES-OP004, SM-MES-OP005
  and EX-CON-002 want refused are not. Saves of whole rows
  (`work-order-tree.service.ts:203-255`, `mes-event.service.ts:144`) write back
  a status and a quantity read earlier: a started order can be RELEASED again,
  and be cancelled with work on it.
- Engineering changes: a plan with several bills of material gives every assessed
  order the last of them (`ecn-execution.service.ts:311`, against the comment at
  `mes-event.service.ts:245`); a plan may be executed before its items and its
  assessment are saved; a change request that was rejected cannot return to
  DRAFT as the comment at `change.service.ts:29` has it. A status in a request
  body is saved as it is (`routing.service.ts:139,175`, `bom.service.ts:175-185,235`),
  and two activations at the same time leave two active versions, against
  SM-PLM-B005. An item whose assessment cannot be read after its clone was
  committed (`ecn-execution.service.ts:312,352`) is FAILED though cloned, and a
  retry fails on it for ever, since its version is OBSOLETE by then.
- Tree of orders: detaching an order assigns `undefined`, which is not written,
  against the comment at `work-order-tree.service.ts:222`.
- Releases of the APS carry `{schedules: [...]}` (`scheduler.service.ts:164`) and
  MES reads `woId` and `bomLevel` beside it (`mes-event.service.ts:75`), so that
  no order is made of a real release.
- Automatic receipt waits for events nobody publishes (WORK_ORDER_ALL_COMPLETED,
  OPERATION_COMPLETED; `docs/业务流程图-事件链路.md:27,51,194`); SALES_RETURN_*
  and NC_CREATED have no subscriber.
- Outsourcing: INSPECTION_COMPLETED names neither its source nor quantity and
  place (`inspection.service.ts:169`), so that goods that pass are not stocked,
  nothing raises the inspected quantity, and no settlement can be created; after
  the first confirmed receipt no other can be created.
- Equipment: a fault report publishes nothing (`fault.service.ts:117`, against
  `docs/业务流程图-事件链路.md:287`); a change to MAINTENANCE replans the rows of
  every resource, since the payload has no `resourceId` (`aps-event.service.ts:178`).
  A resource can be given any status by hand (`aps.controller.ts:100-108`), and
  its updates, its alternatives (`aps-resource.service.ts:94-170`) and its
  efficiency (`aps-eam.service.ts:231-259`) save the status read before, so that
  a machine that broke down in between is AVAILABLE again.
- Shipments: `updateLogistics` (`shipment.service.ts:249-281`) saves the whole
  row outside the transaction of the shipping, so that a SHIPPED shipment is
  PENDING again, and is shipped, credited and charged a second time.
- Vouchers: a reversed voucher drops out of the ledger while its reversal stays
  (comment `voucher.service.ts:246`); locking a period posts vouchers by id,
  whatever has become of them; a second closing transfers again.
- Accounts: a mark on the plan of payments, and the mark of a reconciliation
  pushed by hand, save a row read earlier, so that a payment is lost or a
  confirmed reconciliation is a draft again; `scm_payable`, into which
  `scm-event.service.ts:101` inserts, has no entity, and the error is dropped.
- Inquiries: two selections at the same time leave two suppliers selected; a
  quotation that read SENT opens a closed inquiry again.
- Recalls: the request to freeze carries the numbers of traces
  (`recall.service.ts:114`), and the warehouse takes them for numbers of its
  batches (comment `wms-event.service.ts:390`), so that other stock than the
  recalled is locked; `RecallIsComplete` says what the numbers do. A search that
  was cut at the limit is not told from a whole one, and a recall that fails at
  its last update is FAILED with goods frozen.
- Bills of material: the search for cycles starts at lines without a parent and
  so finds none (`bom.service.ts:656`). The set that guards the rollup of a cost
  against cycles (comment `bom.service.ts:483`) is never taken back, so that a
  part made here counts nothing where it comes a second time; `RollupIsCost`
  bounds what is left.
- Critical path: the comment at `critical-path.service.ts:32` has parents first,
  and the pass goes by stored levels, which overlapping changes leave wrong; an
  order of the APS is made with no parent by a real release, so that its
  recalculation is of that order alone, and no change of parent recalculates.
- Production: the warehouse receives a named batch without place or warehouse
  (`wms-event.service.ts:98`), which `receipt.service.ts:62` always refuses.
- Numbers that fall back to counting rows (`purchase-order.service.ts:86`,
  `voucher.service.ts:53`, `work-order.service.ts:113`, `employee.service.ts:82`)
  repeat after a deletion or for two requests at once.

## 8. Not modelled

`components` in `PROJECT.json` lists, for each part, what is left out and why.
In short:

- *Unreachable in the running program*: automatic receipt and readiness of
  material (their events are not published), settlements of outsourcing (nothing
  raises the inspected quantity), parents of orders made of a
  release of the APS (`WorkOrderTree` recalculates the trees that the handler
  of MES makes of a payload that names parent and root, which no publisher
  sends so far).
- *Calculations*: MRP, analysis of cost, capacity, effectiveness, control charts,
  expansion of bills of material. They read tables and return or save a result
  in one request.
- *Rows edited by one request*: customers, suppliers, materials, calendars,
  skills, certificates, units and the like.
- *Parts of modelled components*: the effective date of an ECN; startProduction,
  void and close of a sales order; backward scheduling and simulation; months of
  work hours; generation of maintenance tasks; lots of stock without a batch.
- *Access control, input and output, the frontend*: outside the subject.

## 9. Plan

Done: `EventBus` with `EventDelivery`; `Inventory` and `Warehouse`;
`WorkOrders`; the sixteen component services; and a proof of every safety
property of a run. What is left, in order of what it would add:

| Step | Properties worth having | Worth proving |
|---|---|---|
| WMS receipts: receipt, then hold of uninspected goods | nothing uninspected can be issued | - |
| Stock without a batch in `Inventory` | one row for each material and place | - |
| BOM expansion, MRP as functions | against reference definitions | - |
| `Outsourcing` and `Purchasing` on `EventDelivery` | their events refine its promise | - |

## 10. Hazards no property watches yet

`hazards` in `PROJECT.json` holds those that properties watch. The others found
while reading, each at the line where it bites (paths under
`src/backend/src/modules`):

- `wms/services/stock-take.service.ts:221` (stale state): The difference from a
  book quantity read at creation is added to a quantity that has moved since.
- `wms/services/stock-take.service.ts:233` (interleaving): A count entered while
  an approval is running is marked ADJUSTED by it, although the approval applied
  the earlier count.
- `wms/services/inventory.service.ts:367` (stale state): The check of the safety
  stock reads the total over another connection than the receipt that called
  it, and can raise an alert for stock that has just been refilled.
- `wms/services/inventory.service.ts:435` (interleaving): Two first receipts of a
  material without a batch both insert a row, since a unique key admits several
  NULLs.
- `wms/services/receipt.service.ts:77` (partial failure): Uninspected goods are
  received in one transaction and locked in the next; between them, and after a
  crash, they can be issued, and the retry receives them again.
- `wms/services/wms-event.service.ts:319` (partial failure): A failing stock
  movement for an outsourcing issue is logged and dropped: the issue counts as
  made and the stock has not moved.
- `mes/services/work-order.service.ts:283` (numeric edge): A merge that names one
  order twice counts its quantity twice: the ids are not compared.
- `mes/services/operation.service.ts:174` (atomicity): Two starts of an operation
  insert two rows of work in progress; a crash leaves an operation without one.
  `Operations` has both, and no document says otherwise.
- `qms/services/inspection.service.ts:126` (interleaving): An inspection is
  submitted without a look at its status: a second submission decides again.
- `qms/services/qms-event.service.ts:53` (timeout retry): RECEIPT_CONFIRMED
  creates the inspections one by one; what a failure leaves uncreated is lost,
  since the retry has no tenant and creates none.
- `qms/services/inspection.service.ts:98` (interleaving): Numbers made from a
  count of the rows repeat when two requests count at the same time or a row
  was deleted.
- `outsourcing/services/outsourcing-issue.service.ts:63` (interleaving): The sum
  of the issues is compared with the plan before an issue is inserted: two
  issues at the same time exceed it.
- `outsourcing/services/outsourcing-event.service.ts:128` (liveness): An
  outsourced receipt waits for an inspection result that names its source, and
  INSPECTION_COMPLETED does not.
- `erp/services/shipment.service.ts:234` (protocol sequence): Each shipment of an
  order opens a receivable over the amount of the whole order.
- `erp/services/voucher.service.ts:254` (interleaving): Two reversals of one
  voucher both read POSTED, and make two red vouchers.
- `plm/services/ecn-execution.service.ts:243` (crash recovery): A plan that dies
  while IN_PROGRESS is never executed again: the cron looks for PENDING and the
  retry for FAILED.
- `plm/services/bom.service.ts:656` (other): The search for cycles of a bill of
  material never finds one.
- `eam/services/maintenance.service.ts:395` (protocol sequence): Completing a
  task sets the machine to IDLE, also while a fault on it is open.
- `hr/services/work-hour.service.ts:117` (interleaving): A report is looked for
  and then inserted; for two deliveries at the same time only the unique key of
  the report stops the second, and its error is dropped.
