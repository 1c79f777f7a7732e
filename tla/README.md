# Specifications of ims-backend

TLA+ models of the Inventory Management System API, the TLC runs that check
them on small instances, and TLAPS proofs of what holds for every instance.
Line references are to the repository's files; `ledger.go` is
`internal/stock/ledger.go`, and `service.go` the service of the package at hand.

    tlc -config MCStockLedger.cfg MCStockLedger         # one run
    tlapm StockLedgerProofs.tla                         # one component's proofs

`PROJECT.json` lists the components, the runs, the source lines each definition
stands for, the mutants that show a property can fail, the hazards of the code,
the findings and the theorems.

## 1. The system

A Go API over PostgreSQL, with Redis beside it. Any number of replicas serve
requests; every request is a goroutine of its own, and nothing but the database
coordinates two of them. So the concurrency of this system is that of its SQL
statements: READ COMMITTED, a transaction where the code opens one and a
statement of its own where it does not (`SkipDefaultTransaction`,
`platform/database.go:28`), row locks where the code asks for them or writes,
unique indexes, no savepoints (an SQL error aborts the whole transaction), and
no retry of a transaction that failed.

| Component | State | Operations | Talks to | What is hard | What makes it correct |
|---|---|---|---|---|---|
| Ledger (`stock/ledger.go`) | stock_items, stock_movements, cost_layers | Apply, Issue | called in the transaction of every document | two writers of one row, two creators of a row, retried scans, deadlocks, a late line that fails | books and balances agree; a key is applied once; a request is whole or nothing; layers are not overdrawn; everyone is answered |
| Stock service | reservations, batches | Adjust, Sync, Reserve, Release, IssueInTx | ledger, alerts | reservations written from reads without a lock | reserved = what open orders wait for, never beyond what is there |
| Transfers, cycle counts (`stock/service.go`) | documents with lines and status | create, dispatch, receive, cancel; count, complete | ledger, sequences | two handlers of one document; stock moving under a count | what moved is what the status says |
| Sales orders (`sales/`) | orders, lines | create, confirm, pick, pack, ship, deliver, cancel | reservations, ledger | overlapping transitions, release on every way out | goods leave once; no reservation is leaked or promised twice |
| Invoices and returns (`sales/`) | invoices, returns | issue, pay; request, decide, receive | ledger | overlapping payments, rounding, double receipt | billed once, all payments counted, restocked once |
| Purchasing (`purchasing/`) | orders, lines, receipts | create, submit, approve, reject, cancel, receive | ledger, sequences, alerts | receipts that wait for one another's codes with outdated reads | nothing unapproved is received; no over-receipt; order and stock agree |
| Sequences (`shared/sequence.go`) | one counter per type and year | Next | every document | numbers lost or used twice; everyone queues | 1, 2, 3, ... without a gap, and nobody waits for ever |
| Accounts (`auth/`) | users, refresh tokens, resets | register, login, refresh, logout, passwords, user administration | mail queue | several statements with no transaction; overlapping rotation; the last admin | an admin remains; sessions end with what they were opened under |
| Notifications, worker (`notification/`, `platform/queue.go`) | notifications, device tokens, tasks | Raise, MarkRead, scans; mails and pushes; registering devices | called after commits; Redis | dropped tasks, retries, several schedulers, readers between two scans; a device handed over while a push or a sign-out is on its way | one open alert per cause; what stays low is alerted and mailed in the end; a task ends; a device stays its user's |
| Warehouses (`warehouse/`) | warehouses, locations | create, update, delete | stock_items | deletion against arriving stock; rows written from what was read | one default; no stock in a deleted warehouse |
| Catalogue (`product/`) | products, variants, categories, units | create, update, delete | stock_items, ledger | batch tracking turned on against arriving stock | goods of a tracked product have a batch; none of a deleted one |
| Rate limiter (`middleware/ratelimit.go`) | a counter with an expiry | INCR, EXPIRE | Redis | the second call lost | a window ends |
| Customers, suppliers, reporting, audit, HTTP, platform | rows others refer to | CRUD, SQL aggregates, encoding | | | |

## 2. The modules

`StockLedger` describes one SQL statement per step. It implements `StockBook`,
in which a whole transaction is one step, and `StockIssue`, down to single rows
and cost layers, implements `IssueBook` in the same way. That is what lets the
other modules take the movements of a transaction as a single step: between its
first movement and its COMMIT nobody sees any of them, and if it fails nothing
is left. What those modules keep apart is every *read before* the transaction's
writes, because a plain SELECT locks nothing.

    StockBook  <-- implements --  StockLedger  -- one row after another, layer by layer -->  StockIssue
                                      |                                       -- implements -->  IssueBook
                                      |  movements of a transaction are one step in
         +--------------+-------------+--------------+---------------+
     SalesOrders   StockDocuments   Purchasing     Billing       MasterData
                                      |
                                   Sequencer (EXTENDS)

     Accounts      Alerts  -- mails and pushes queued -->  Delivery

| Module | Models | State and actions against the code |
|---|---|---|
| `StockBook` | what the ledger promises (`ledger.go:18-21`) | `book`, `balance`; `Post` is any committed transaction |
| `IssueBook` | what an issue, a draw or a receipt promises (`ledger.go:64-66`): answered once, and all of it happens at once or none | `quantity`, `posted`, `layers`, `cogs`, `short`, `used`, `outcome` are those of `StockIssue` without what is uncommitted; `Ask` is a request being sent, `Apply` a COMMIT answered applied, `Repeat` one answered duplicate, `Decline` every other end |
| `StockLedger` | `Ledger.Apply` statement by statement | A request is a sequence of lines. `Lookup` is the idempotency SELECT, `Select` the FOR UPDATE, `Insert`/`InsertConflict` the creation of a row and its unique violation, `Update`, `Record`/`RecordConflict`, `CreateLayer`, `ConsumeLayers`, `Commit`. `dirty`, `pend`, `layerDelta` are the uncommitted versions, `rowLock`, `keyOwner`, `poolLock` who holds them; `Fail` is every error path and rolls back, `DeadlockVictim` is PostgreSQL's choice among requests that wait in a circle, `Rollback` a dying connection |
| `SalesOrders` | order fulfilment with `Reserve` and `Release` | `Load` is `loadForUpdate` (which takes no lock), `Peek` the SELECT of the rows, and `Confirm`, `Advance`, `Cancel`, `Ship` write what they decided; `stale` remembers that a reservation was written from an outdated read; the rows are visited oldest first, rows of one `created_at` in any order |
| `Sequencer` | `Sequencer.Next` | the counter row is locked until the document's transaction ends |
| `Purchasing` | purchase orders and receipts | `Load` reads the order, `Number` waits for the counter, `BookLine` checks and books one line, `CommitReceipt` writes; `Transition` is `transition` |
| `StockDocuments` | transfers and cycle counts | `Load` reads and checks the status, `ReadLines` the sheet, and the operation later posts and writes without looking again; `raced` remembers the documents two handlers worked on at once |
| `Billing` | invoices, payments, returns | as `StockDocuments`; money is a number of stored units (four decimals), a payment a number of finer units, `Round` is `money.Round` |
| `Accounts` | users, sessions, password resets, administration | each statement of an operation without a transaction is a step; `cut` remembers the accounts whose change was made but whose sign-out was not, `raced` those that requests overlapped on |
| `StockIssue` | `Ledger.Issue`, `consumeCostLayers`, `createCostLayer` | `Candidates` takes the snapshot of the rows, `LockRow` locks them one by one and drops what no longer qualifies, `Check` sums up; then per row `Lookup` (or `Skip`), `Write`, `ChooseLayers`, `LockLayer`, `Consume`; `Commit` publishes. The rows a request still has to serve and the layers it chose are sets. Rows are served as the request's query ordered them (`Rank`): by expiry and age (`Place`), and where these are equal as it happens, for each request anew. Layers are served by age; of layers of one age either may be drawn first. A draw from a named row and a receipt go through the same steps without a snapshot |
| `Alerts` | `notification.go`, `events.go`, the scans of `worker.go`, `cmd/worker/main.go` | `open` is the unread row of a key of the partial unique index. `Moved`/`CheckLowStock`, `Announce` and `Scan` lead to `Insert` or `Suppressed`, `Resolve`, one `QueueTask` per recipient and channel, `RaiseForUser`; each has its failure, `Dropped` is an enqueue that fails, `Die` the end of a process, whose scan asynq hands out again |
| `Delivery` | `worker.go`'s mails and pushes, `RegisterDevice`, `UnregisterDevice` | `Start` reads the devices, `Sent`/`Rejected` serve one. `Retried` counts an attempt: a failure (`Unavailable`), or a worker that loses its task (`CutOff`: time limit, lease, death). `HandBack` is a shutdown that returns the task without counting one. A worker that loses its task may have a DELETE under way (`late`), which PostgreSQL may still do (`DeletedLate`); a mail or push it still sends changes nothing here. `LookUpToken`, `Repoint`, `CreateToken` are the statements of a registration |
| `MasterData` | `warehouse.go` and `product/service.go` against the ledger | A request reads (`GetFor...`, `GetProduct`), counts the stock (`CountForDelete`, `AssertNoStock`) and writes, in three statements; a movement looks at the warehouse (`Adjust`, not `Deliver`), then at the batch policy (`CheckPolicy`), then commits (`Move`) |

`stale`, `raced`, `cut`, `handed`, `payments`, `closed`, `uses`, `mailed`,
`told`, `starts`, `returned`, `supplied` and `unticked` are history variables:
the code has no such state, no guard reads them (but the bound `MaxReturns`, of
`returned`), and they let a property say "as long as no two requests overlapped
on it" or "what clients were told". (`mailed` also forgets a cause that is over,
so that its next occurrence counts anew.) `MaxRequests`, `MaxPayments`,
`MaxReceipts`, `MaxOnHand`, `Others`, `MaxDrift`, `MaxStock`, `MaxScans`,
`MaxFaults` and `MaxReturns` are bounds of the exploration and are guards of the
models; the theorems hold for every value of them. `MaxRetry` is a constant of
the code (5, `platform/queue.go:53`).

Left out on purpose, in all modules: the organization id (every query is scoped
by it; one organization is modelled), audit rows, dates, notes and codes other
than `Sequencer`'s, notifications sent after a commit.

- `StockLedger`: cost layers are the open quantity of a pool; the order they are
  drawn in and their cost are left out. The batch policy is the set of
  coordinates it accepts.
- `StockIssue`: one product and one warehouse, rows that exist, whole costs (so
  that the two roundings of `ledger.go` do nothing), one line per request.
- `SalesOrders`: one product, one warehouse, one line per order. In the passing
  run each handler serves the requests of its own order, so that what the code
  promises per order can be stated; see section 5 for what happens when two
  serve the same one.
- `StockDocuments`: the reserved quantities are fixed, since sales orders alone
  change them.
- `Billing`: an order ships and stays shipped; codes and voided invoices are
  left out (no operation voids an invoice). Every client amount is a whole
  number of `1/Fine` of a stored unit, for any `Fine`.
- `Accounts`: refresh tokens and resets do not expire. Expiry only turns a
  request away, so every behaviour with it is one without it. `badges` are
  access tokens with the role they state; they stay usable until they run out.
  `LookUp` with the status "deleted" is `DeleteUser`. An account that was raced
  is settled again by a sign-out of all its sessions that meets no other
  request.
- `Alerts`: reading an own copy on behalf of its raiser is reading the key; who
  has read a row for everyone is not told apart, as in the code. Retries of a
  scan whose query fails are one step (`ScanFails` is the last).
- `Delivery`: one token per device. A device whose push was refused with an
  answer that is not looked at counts as served, as in the code.
- `MasterData`: a coordinate holds goods or not; reservations, quantities, the
  flag `is_active`, locations, categories, units and variants are left out.

## 3. The runs

Two or three concurrent requests are enough for every race named in the
hazards: each is between a request that read and one that wrote in between, and
a third is what a circle of waiting requests, or a loser of a loser, needs.

| Run | Instance | States | What it shows |
|---|---|---|---|
| `ledger` | 3 requests over 4 coordinates: two-line documents that lock rows in opposite orders, one that touches a row twice, scans that share a key, two refused adjustments; two draw from a pool with one layer left | 185,640 | `AllOrNothing`, `LayersNotOverdrawn`, the refinement of `StockBook` (`ImplementsBook`: no lost update, no key twice), and `EveryRequestAnswered` |
| `stock_issue` | 3 requests over 3 rows, 2 layers: issues of several rows (two may share a key), two of the rows tied and handed to one request in the other order, draws from a named row, a receipt that is back-dated | 43,229 | each issue is whole (`IssueWhole`); rows add up, and no unit is costed twice or never (`CostConserved`); where requests wait in a circle, one waits for a row tied with one it holds, or two for cost layers (`OnlyTiesOrLayersDeadlock`; both happen in the instance); the refinement of `IssueBook` (`ImplementsIssueBook`) |
| `sales_orders` | 2 orders of 1 and 2 units, a warehouse row and a bin of one age, balances to 2 | 848,906 | goods leave once; reservations covered and equal to what open orders wait for, unless one was written from an outdated read |
| `purchasing` | 1 order of two lines (2 and 1 units), 3 receipts, 2 handlers, a manager and an admin | 130,803 | gapless codes, nothing unapproved, lines within stock, no approval lost to a status write that comes late (`ApprovalLasts`), everyone is answered |
| `stock_documents` | 1 transfer and 1 count over 4 coordinates, 2 handlers, other movements of one unit | 93,705 | what moved is what the status says; nothing arrives that did not leave |
| `billing` | 1 order, 2 invoices, 1 return, payments of -4/3, 1/3, 4/3 and 5/3 stored units | 906,795 | billed once, paid never beyond the total, no payment lost, restocked once |
| `accounts` | 2 users, 3 tokens, 1 reset, 3 requests of several steps | 145,464 | an admin remains, one session per login, sessions end with password, role and status, and whatever overlaps, nothing that was revoked, used or deleted comes back (`WhatEndedStays`). It also holds with 4 requests (1.4 million states) |
| `alerts` | a product, a batch and the decision on an order, one request, one worker, one fault, one waiting copy of each scan | 99,360 | what stays low or about to expire has an unread alert in the end (`LowIsAlerted`), and its recipients are mailed in the end if alerts are read again and again (`LowIsMailed`) |
| `delivery` | a mail and a push, a worker, one retry, one shutdown that hands a task back; 2 users, 2 devices, 2 overlapping registrations | 416,109 | a task ends (`TaskEnds`), and is started as often as its attempts and the shutdowns allow (`RunsBounded`); it also holds with two workers (782,731 states); a device that was told it is registered stays so (`RegistrationHolds`) |
| `master_data` | 2 warehouses, a product, 2 requests of any kind | 2,168,288 | one default warehouse; nothing deleted holds goods; tracked goods have a batch; each unless requests overlapped, or nobody looked |
| `sales_bin_stock`, `issue_retry` | as above | | violations, section 5 |

The bounds are chosen so that each case happens: three payments let rounding
errors add up and push an invoice to its total; three tokens are a login and two
rotations; a receipt can be split in three; two units in a row can be promised
to two orders and leave one unserved; a job that meets a coordinate without a
row races its creation; an issue of three units takes two rows and two layers;
one fault is enough to drop a mail, lose a scan or kill a worker in the middle,
and what the scans make up for does not depend on how many there were. `alerts`
holds as well with two faults (160,920 states), and with two workers whose scans
overlap and no request (32,688). Every action and every disjunct of every
next-state relation is taken in some passing run, and each property fails on a
mutant of a modelled definition (`PROJECT.json`, "mutants"): a dropped lock, an
unchecked sign, a truncation for a rounding, an early status, a scan that is not
scheduled.

Deadlock is checked except in `ledger` and `stock_issue`, where the system stops
when all requests are answered, and `stock_documents`, where it stops when both
documents are closed and the bound on other movements is met. Symmetry is
declared only in runs without liveness properties.

### Fairness

Four runs check liveness, all under fairness of the server and none of the
client. A request goes on with its next statement (a goroutine is scheduled):
weak fairness of `Step` in the ledger and of `Work` in purchasing. Requests that
wait in a circle are broken up by PostgreSQL's deadlock detector, which always
runs after `deadlock_timeout`: weak fairness of `DeadlockVictim`. Taking a code
number needs strong fairness (`SF` of `Number`), because the counter is free and
taken again and again while a request waits: PostgreSQL queues lock waiters, so
none is passed over for ever. In `Alerts` the schedulers tick and the workers
work (weak fairness of `Schedule` and of a worker's `Work`), and a scan that
waits is served although other scans and deaths keep the worker busy (`SF` of
`Scan`: asynq takes its queue in order of arrival). In `Delivery` waiting tasks
are handed to idle workers, and a worker goes on, since the calls it makes have
time limits (weak fairness of `Start` and `Deliver`). `TaskEnds` is about
finitely many shutdowns (`MaxReturns` of them): a task that every worker is shut
down with is handed back for ever, and asynq does not give it up. Nothing is
assumed of failures, deaths, new requests, stock or readers; that someone reads
alerts is a hypothesis inside `LowIsMailed`, not an assumption.

## 4. The proofs

Theorems are of each module's specification (`Spec`, `BillingSpec`,
`AlertsSpec`, `IssueSpec`), with no bound: any set of requests, coordinates,
jobs, documents, lines, users and amounts that satisfies the `ASSUME`s of the
module. Those say that openings are natural numbers, quantities of order lines
and jobs positive, identifiers of different kinds disjoint and the scale of
money positive; where sums are taken, that orders, requests, rows and layers are
finitely many; that the order in which a request's query hands it the rows
respects their expiry and `created_at` (`ledger.go:486`; rows equal in both are
tied, and each request may be handed them in another order); and that a request
with a key has one line (only an adjustment brings a key, `service.go:99`). Each
`*Proofs` module proves `Init => Inv`, `Inv /\ [Next]_vars => Inv'` with one
case per action, and takes its theorems from `[]Inv`. TLC checks the properties
themselves in the runs; the strengthenings below were checked the same way
before they were proved.

- **`StockLedgerProofs`**: type, `BookAgrees`, `KeyAppliedOnce`,
  `LayersNotOverdrawn` and the refinement `Spec => Book!Spec`. Agreement of
  committed rows and books is not inductive: a COMMIT publishes what a
  transaction did before. `IndInv` adds that uncommitted work on a row belongs
  to a running owner of its lock, and that what it read is still there
  (`LockInv`); that committed and pending movements follow on from one another
  up to the owner's uncommitted row, except between its UPDATE and the INSERT of
  the movement (`ChainInv`); that the unique index knows each pending key and
  its owner (`KeyInv`); and that only the owner of a pool's layers has drawn
  from it (`LayerInv`). `AllOrNothing` needs to know how far a request is:
  it works through its job from the front, and its uncommitted movements are
  those of the lines behind it and nothing else (`Progress`), on rows and under
  keys that are its own (`OwnInv`); so COMMIT publishes the whole job, and an
  end without COMMIT nothing.
- **`SumLemmas`**: what a sum over a finite set does when one term changes, when
  a term is added and over a part of the set. They rest on an induction over the
  subsets of a finite set (`FiniteInduction`): a smallest subset without the
  property, which exists because "strict subset of" is well founded, is none.
  What holds of the subsets is given as a set of them, not as an operator.
- **`SalesProofs`**, sales orders: type, where the content is that no balance
  and no reservation becomes negative however outdated the reads;
  `ReservedCovered`; and, for handlers with orders of their own, `ShippedOnce`,
  `StatusSteps` and `ReservedMatchesOrders`. The invariant adds that a handler
  works for one of its own orders (`Working`), that what it decided on is still
  the order's state (`Decided`), and that an open order has been confirmed and a
  draft has not (`Flagged`), so each step changes the sum over the orders by its
  own order's line, and the rows by as much, until a reservation is written from
  an outdated read. `ShipmentsRecorded` is what is left where handlers do share
  an order, and is proved without a word about who serves what: whatever a
  handler has seen shipped has been shipped (`SeenBacked`), so an outdated write
  takes no shipment off the record. Billing: type, `InvoicedOnce`, `PaidTells`,
  `PaymentsCounted`, `RestockedOnce`, `DocumentSteps`. `Read` says what survives
  overlap (the total and the kind of a document), `Turns` what does not. Three
  lemmas on rounding (`Quotient`, `Rounded`, `ErrorGrows`) bound the error of
  one more payment by half a unit for every scale.
- **`PurchasingProofs`**: type, `CodesGapless`, `GoodsWereApproved`,
  `LineWithinStock`, `OrderKnowsStock`, `ApprovalLasts`. The invariant says who
  holds which counter and what number it took (`Holding`, `Fresh`), that an
  approval once seen is never taken away by a racing write (`ApprovalSeen`), and
  that lines only grow, so what a receipt read is a lower bound (`LinesSeen`).
  That an order and the stock agree needs that a transition was permitted by the
  status it read (`SeenPermitted`), and is kept, order by order (`Agrees`),
  until something is written from an outdated read. So long an order moves along
  `poTransitions` (`StatusSteps`). Whatever is written later, no order is lost
  or changes its author, and none loses a valid approval (`ApprovalLasts`): a
  handler that writes an approval back late read it, or writes its own.
- **`StockServiceProofs`**, transfers and counts: type, `TransferBooked`,
  `CountBooked`, `StatusSteps`, `ArrivedOnlyIfLeft`. `Turns` says that a
  document nobody else works on is as its handler read it. That nothing arrives
  which did not leave holds even where handlers race: goods of a transfer left
  if its status was ever past draft (`Journey`), a handler that read such a
  status follows one that shipped (`Followed`), and no write takes that away.
  Issues: `IssueTypeOK`, `IssueWhole`, `CostConserved`,
  `OnlyTiesOrLayersDeadlock`. `IssueInv` describes each request by itself
  (`Own`): where it is (`PlaceOK`), what it has taken and what it still owes
  (`QtyOK`), its rows and key (`RowsOK`, `KeyOK`), the layers it chose, locked
  and drew from (`LayersOK`), what it will publish (`BooksOK`) and which locks
  it holds (`LocksOK`). A step of one request leaves `Own` of the others alone,
  because the rows and layers they rely on are locked; COMMIT moves the totals
  by what the request took, no more and no less. In a circle of waiting requests
  those that wait for a row or a key hold no layer and no pending key. If nobody
  in it waits for a layer, all wait for rows while they hold others, and none of
  theirs comes after the one they wait for: whoever holds the last of these rows
  waits for one that is tied with it. The same invariant gives the refinement
  `IssueSpec => Book!Spec` (`ImplementsIssueBook`): the start of a request is
  `Ask`, a COMMIT is `Apply` or `Repeat` with exactly what the request took, the
  other ends are `Decline`, and every step in between leaves the book alone.
- **`AccountsProofs`**: type, `KeepsAdmin`, `OneSessionPerLogin`, `SignedOut`,
  `ResetOnce`. The invariant says that two handlers on one subject are known to
  have met (`Together`), that an update follows a count that still holds
  (`Counted`), that a rotation holds the only live token of its login
  (`Rotating`), and what a login or a password change has read (`Reading`,
  `Resetting`). That what has ended stays ended (`WhatEndedStays`: revoked
  sessions, used resets, deleted accounts) needs no such condition, although
  rows are written back as they were read.
- **`NotificationsProofs`**, delivery: type (a running task is in the hands of
  one worker, and tries stay within `MaxRetry`), `RegistrationHolds`, and
  `RunsBounded`, which is what `TaskEnds` needs besides fairness: a task that is
  running was started once for each retry, each hand-back and itself, one that
  is not once less or as often as it was allowed (`Counted`). For the rest the
  invariant is the properties themselves: the registry and the queue meet only
  in a rejected device. Alerts: `AlertsTypeOK`, whose content is that a scan's
  queue is bounded by the scheduled copies and the workers that may still hand
  one back (`ScansBounded`) and that only the decision on an order leaves a row
  for its raiser alone (`OwnIsCopied`); and `OnlyToldAreMailed`: a mail of a
  cause that lasts went to somebody it is for, since what a request, a scan or a
  retry still has to send is aimed so (`Aimed`).
- **`MasterDataProofs`**: type, `OneDefault`, `DeletedIsEmpty`,
  `TrackedHasBatch`. The invariant says that two requests on one row know to
  have met, movements apart (`Together`), that what a request read is what the
  row says (`Current`), and that what it checked holds still when it writes
  (`Checked`), each unless the row was raced.

Some properties no run repeats; TLC checked them on the instances of the runs
before they were proved (`ShipmentsRecorded` on one whose handlers share an
order), and now only the theorems state them: the types of the ledger,
purchasing, accounts, issues and delivery, `StatusSteps` of sales orders, stock
documents and purchasing, `ShipmentsRecorded`, `OrderKnowsStock`, `ResetOnce`,
`DocumentSteps` of billing and `OnlyToldAreMailed`.

Every invariant of a passing run has its theorem. Left to TLC is liveness, which
is out of the prover's reach: `EveryRequestAnswered` of the ledger and of
purchasing, `LowIsAlerted`, `LowIsMailed` and `TaskEnds`; and the two violations
of section 5. Also out of reach is what a recursive definition computes for
every input; no module that is proved about has one.

## 5. What the models say of the code

Holds in every behaviour: everything in the table of section 3, with these
conditions stated in the properties themselves. Where a property says "unless
requests overlapped", the code takes no lock between its read and its write, so
no stronger statement is true of it.

Disagreements with the repository's own words that a run finds:

| Run | The code | The text |
|---|---|---|
| `sales_bin_stock` | `Ship` uses `ApplyInTx` without a location and sees only the row that has none | `stock/service.go:854-857`, `workflow_integration_test.go:142` |
| `issue_retry` | `Issue` picks its rows before it looks for the key, and gives the key to the first row only: a retry whose first row does not cover the request draws the rest once more and is answered Duplicate | `ledger.go:525-526`, `ledger.go:58-60`: recognised, nothing changed |

Others met while modelling. The models describe them as the code behaves, and
their properties state what remains true:

- Ledger. After a unique violation the transaction is aborted, so the re-read of
  the winner fails and the client gets an error (`ledger.go:246`, `172` say the
  loser takes the winner's row). `ledger.go:383-386` and `455-457` exclude
  deadlocks: so it is for keys and for rows that differ in expiry or
  `created_at` (`OnlyTiesOrLayersDeadlock`). Rows that are equal in both, which
  nothing in the schema excludes, come in no order (`ledger.go:486` stops at
  `created_at`), and two issues may lock them in opposite ones. Nor is it so for
  cost layers. An issue of several rows takes its layers row by row, so an issue
  and a draw from a named row can wait for each other's layers. So can two
  issues, where one's snapshot misses rows that were empty, the other's one that
  was drained, and a receipt then enters an older layer: one holds the older
  layer and waits for the batch's, the other the reverse. (That takes too many
  requests for a run, and was found by following one such history.) A retried
  issue whose first attempt emptied its rows is refused instead of recognised.
  `IssueInTx` (`stock/service.go:854`) is called by nobody.
- Sales. `Reserve` reads without a lock and writes absolute values: of two
  concurrent confirmations one reservation can be lost (`sales/service.go:260`:
  reservation stops two orders promising the same unit). `loadForUpdate` takes
  no lock, so an order can be shipped twice, or cancelled while it is shipped
  (`sales/service.go:498`: "under a row lock"); that goods left for it stays on
  record even then (`ShipmentsRecorded`). Two requests to bill an order both
  find no invoice and both insert one (`sales/service.go:528`); of two payments
  that overlap one is lost (`582`), though the invoice never exceeds its total
  (`PaidTells`); a return that is received twice at once is restocked twice
  (`750`). Returns of one line are compared with the shipped quantity one entry
  at a time (`sales/service.go:692`).
- Purchasing. `Receive` checks against what it read before it waited for the
  code, so overlapping receipts can exceed the order
  (`workflow_integration_test.go:88`: over-receipt must be rejected). Status
  writes do not look again, so an order can leave `poTransitions`; its approval
  survives (`ApprovalLasts`).
- Stock documents. Handlers of one transfer that overlap send or receive its
  goods twice, or cancel what is in transit (`stock/service.go:473`); a line
  counted while the count is completed reopens it, and its variances can be
  posted again (`746`). Transfer dispatch, like `Ship`, issues only from the row
  its line names (`stock/service.go:474-485` against `854-857`). Goods that
  travel without a batch cannot be received once their product has begun to
  track batches.
- Accounts. The revocation that a replayed refresh token asks for is rolled back
  with the transaction whose error announces it (`auth/service.go:209-220`
  against `187-189` and `workflow_integration_test.go:465-475`). Two admins who
  demote or delete one another at once are both counted as the one that remains
  (`652`); two refreshes of one token at once both get a session (`190`); two
  requests with one reset both set a password (`326`); and a process that dies
  between a new password, role or status and the `LogoutAll` after it leaves the
  old sessions alive (`383`).
- Notifications. Every worker runs a scheduler (`cmd/worker/main.go:68-69`: once
  per cluster). A mail that was dropped is made up for only if the alert is read
  (`worker.go:149-151`: anything missed), and an alert read between two copies
  of one scan is mailed twice. The copy of a decision for the raiser of the
  order (`events.go:58-63`) has the key of the row for everyone, and is
  suppressed while that is unread. A registration whose row was deleted between
  its two statements is answered with success and leaves none.
- Warehouses and products. `Save` brings a warehouse back that was deleted
  between its two statements, or takes the default away from one that was made
  it. Goods that are received between the check and the deletion of a warehouse
  (`warehouse.go:194`), or against an order or a transfer from before it, lie in
  a deleted warehouse; those that arrive while batch tracking is turned on have
  no batch (`product/service.go:182`). A deleted product accepts movements, and
  as one without batches. `Scan` is described as cached and is not.

## 6. Not modelled, and the plan

Not planned: reporting (read-only SQL), HTTP encoding and validation, platform
set-up, seed data, the audit trail (append-only, decides nothing), customers,
suppliers and categories (rows nothing here decides on), token signatures,
`LineTotal` (one product of fractions, no state), the rate limiter (one counter
and two calls; what is lost with the second is listed under the hazards),
locations (the ledger never looks at them), variants, images and `Scan`.

Planned:

1. An abstract specification of a document (a status and what is booked for it)
   that stock documents, sales orders and billing implement as long as no two
   handlers race, with the refinement proved step by step.
2. An instance of `alerts` with two workers and a request, which now takes too
   long, once its fan-out is smaller.
