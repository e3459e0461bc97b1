# gobit: TLA+ specifications

gobit is a headless commerce engine in Go: commerce modules over PostgreSQL,
HTTP and admin front ends, plugins, and a core that carries what has to stay
right when processes die, messages are lost and instances race. This directory
specifies that core and the two ledgers of the commerce modules that several
processes write, money and stock. It holds TLA+ modules translated from the source, TLC
configurations that check them on small instances, and TLAPS proofs of the
properties that matter most, for every size of the system.

`PROJECT.json` is the index: components, runs, the source lines each definition
stands for, the hazards the properties are aimed at, the mutants that show a
property can fail, the findings and the theorems.

    tlc -workers 2 -config MCWorkflow_owner.cfg MCWorkflow
    tlapm WorkflowProofs.tla

## 1. Inventory

### Parts of the system

| Part | State it keeps | Operations | Made hard by |
|---|---|---|---|
| **Workflow engine** `internal/core/workflow` | per call: position, attempt, compensation chain, all in memory | `Run`, `Recover`, `execute`, `unwind`, `judgeAbandoned` | crash between side effect and record; lease running out under a live owner; record writes that fail and are only logged |
| **Workflow stores** `memory.go`, `pgstore/` | execution row (status, key, `updated_at`), one row per step | `Create`, `FindByIdempotencyKey`, `Get`, `AppendStep`, `UpdateStatus`, `ClaimAbandoned`, `Reader.Stuck` | `UpdateStatus` replaces the status unconditionally; the claim compares a stamp read earlier |
| **Parallel step** `parallel.go` | branch outcomes, joined shared map | `Invoke`, `Compensate` with inner rollback | concurrent branches, partial inner rollback |
| **Transactional outbox** `core/eventbus/outbox` | `event_outbox` rows: attempts, next attempt, published/dead | `Write`, `Relay`, `recordFailure`, `DeadLetters`, `Redrive`, `Discard` | several relays; publish and commit are two events; poisoned events; `MaxRun` inside a publish |
| **Outbox relay job** `internal/jobs/outboxrelay` | outcome of the last run | `run` | the report must not be lost with the pass |
| **Job runner** `internal/core/job`, `jobpg` | advisory locks, `job_run` rows | `Start`, `Stop`, `loop`, `pass`, `consider`, `execute`, `WithLock`, `Claim`, `Finish` | clocks of several instances; a lock that dies with its session; shutdown in mid-run |
| **Event bus** `core/eventbus` | Redis stream, consumer group, pending entries, dead-letter pile | `Publish`, `Subscribe`, `consume`, `reclaim`, `dispatch`, `Shutdown`, redrive, discard | a slow consumer and a reclaim; answers lost after a read, a copy or a claim; names that come back |
| **HTTP idempotency** `core/http`, `redisguard` | reservations and stored answers, with a time to live and a byte budget | `Begin`, `Complete`, `Abort`, replay | a reservation whose owner is gone; a release of somebody else's key; eviction |
| **HTTP callbacks** `core/http/callback_guard.go` | the same store | `deduplicate`, `record` | duplicated and concurrent callbacks |
| **Payment module** `internal/modules/payment` | collections, sessions, captures, refunds | `CreateSession`, `AuthorizePayment`, `CapturePayment`, `CancelPayment`, `RefundPayment`, `RefundCollection`, `Reconcile` | the provider is called inside a transaction that may not commit; plans read without the lock |
| **PayTR plugin** `plugins/paymentpaytr` | one row per collection | the five provider calls, `recordCallback` | the customer pays on a page nobody can void |
| **Inventory module** `internal/modules/inventory` | levels, reservations, backorder claims, movements | `adjust`, `ConfirmReservation`, `ClaimBackorder`, `SettleBackorder`, `drain`, `ReturnCanceledInventory` | every rise of a level owes the queue a look |
| **Fulfillment module** `internal/modules/fulfillment` | parcels and their items | `CreateFulfillment`, `CancelFulfillment`, `MarkReturned`, held counts | a ceiling read before the lock |
| **Order cancellation** `internal/workflows/ordercancel` | none: reads three modules and writes one | `HandleLineCanceled`, `recountParcel`, `settle`, `putBack` | two kinds of event, in any order, more than once |
| **Checkout saga** `internal/workflows/checkout` | six steps on the engine | reserve, redeem, create order, authorize, capture, clear cart | the capture is a pivot whose answer may be lost; the last step runs late and races write-offs |
| **Other workflows** `internal/workflows/*` | none | cart, returns, invoicing, fulfilling, gift cards | sequences of module calls |
| **Scheduled jobs** `internal/jobs/*` | none | sagawatch, paymentrecon, offlineexpiry, scheduledpublish, reviewsuggest | bodies of jobs the runner elects |
| **Outgoing webhooks** `plugins/webhookout` | deliveries and claims | deliver, retry, narrow | claim expiry, retry of a delivered call |
| **Other commerce modules** `internal/modules/*` | their tables | services | row locks inside single transactions |
| **Other core, plugins, app, admin, tooling** | wiring | none | nothing concurrent of their own |

### How they interact

- A workflow (checkout, returns, ...) calls `Executor.Run` with an idempotency
  key and a lease. The engine calls the steps, which call commerce modules; the
  modules write business rows and, in the same transaction, outbox rows.
- The engine shares one Store with all instances. A caller that finds its key
  taken by an execution whose lease has run out judges and recovers it; an
  operator does the same with `gobit recover` (`Recover`). `gobit stuck` lists
  what needs a human.
- The job runner elects, per occurrence, one instance to run the relay job. The
  relay locks due outbox rows, publishes them to the event bus and marks them.
- The event bus hands events to subscribers; the order cancellation flow and
  webhookout are among them. A subscriber may see an event twice and two events
  in either order.
- HTTP handlers run behind the idempotency ring; provider callbacks use the same
  store through their own guard.
- The payment module calls a provider inside its own transaction. An hourly job
  reconciles what the module believes with what the providers' books say.
- The checkout's last step records claims for backordered lines, settles them
  against write-offs made meanwhile, and confirms the reservations. The order
  module publishes write-offs, the fulfillment module canceled and returned
  parcels, and the cancellation flow turns both into stock.

### What makes each part correct

- *Engine and stores*: one driver per execution; a terminal status is final;
  `failed`, which frees the key, never covers recorded work or a standing
  capture; compensation runs in reverse; what hangs is listed; every call
  returns.
- *Outbox*: an event in a committed transaction is sent at least once or given
  up in the open; no second send without a lost pass; attempts count real
  failures; a backlog is not starved and a pile is reported.
- *Job runner*: an occurrence runs once; overlap needs a lost session; shutdown
  loses no outcome; no job starves.
- *Event bus*: an event is handled, pending or a dead letter, never nothing; a
  second run of its handlers has a cause; every event comes to an end.
- *Idempotency*: one worker per key, side effects once unless the record was let
  go, no key locked for nothing, replays only of the same request.
- *Payment*: totals are the sums of their rows; what is booked was moved; the
  ledgers part only by a lost commit, and that is noticed; nobody is charged
  beyond the collection or refunded beyond the cause.
- *Stock of an order*: nothing due is given back, everything not due comes back,
  to the shelf it was taken from, and nothing waited for is on sale.
- *Checkout*: no rollback and no second charge once the capture may have happened.
  (The engine's half is checked; the steps themselves are planned.)

## 2. Modules

| Module | Models | Contents |
|---|---|---|
| `Workflow` | `executor.go`, `recover.go`, `store.go`, `memory.go`, `pgstore` | engine and Store |
| `WorkflowProofs` | | type correctness, exclusive recovery, final statuses; side effects, records and keys: what success, failure and recovery leave behind |
| `MCWorkflow` | | symmetry of the engine instances |
| `Outbox` | `outbox.go`, `relay.go`, `deadletter.go`, `retry.go`, `outboxrelay.go` | table, relays, operator |
| `OutboxPromise` | | the abstract promise `Outbox` implements |
| `OutboxProofs` | | type correctness, held rows, attempts, resends, and the refinement of the promise |
| `MCOutbox` | | symmetry of the relays |
| `JobRunner` | `runner.go`, `job.go`, `jobpg.go` | instances, locks, occurrences |
| `JobRunnerProofs` | | type correctness, election, recorded outcomes, overlaps |
| `MCJobRunner` | | symmetry of the instances |
| `RedisBus` | `redis.go`, `redis_deadletter.go`, the shutdown of `eventbus.go` | stream, group, consumer loops, dead letters |
| `RedisBusProofs` | | type correctness, no event lost, the bound on takeovers, second runs |
| `MCRedisBus` | | model values |
| `Idempotency` | `idempotency.go`, `idempotency_store.go`, `redisguard/idempotency.go`, `callback_guard.go` | the ring over either store |
| `IdempotencyProofs` | | type correctness, locks, replays, one worker, side effects once, the order of the memory store's list |
| `MCIdempotency` | | symmetry of requests and keys |
| `Payment` | `session.go`, `capture.go`, `refund_collection.go`, `reconcile.go`, `service.go`, the manual and the PayTR provider | the module's ledger against the providers' books |
| `PaymentProofs` | | type correctness, the two ledgers of a session, the ceiling of a cause, the totals and the checks on them, real bookings, the charged amount |
| `MCPayment` | | who provides which session |
| `Shelf` | `stock.go`, `backorder.go`, `movements.go`, `fulfillment.go`, `dispatch_bound.go`, `line_cancellation.go`, `ordercancel`, `clear_cart.go`, `claim_backorders.go` | one order's stock, composed from five packages |
| `ShelfProofs` | | nothing due is given back, everything else is, where it was taken, and nothing waited for is on sale |
| `MCShelf` | | symmetry of the parcels |
| `Sums` | | lemmas on sums over finite sets and on induction, for the proofs about money and stock |

An operator introduced by a comment `Slip:` is a plausible bug in the definition
that follows it (a dropped guard, a missing reset). It is used by no action: each
is substituted for the definition it precedes to show that the property aimed at
that code then fails (`mutants` in `PROJECT.json`).

### Workflow

State of the Store: `status`, `key`, `steps`, `updatedAt` (a counter that every
write moves on, as `updated_at = now()` does) and `expired`, whether the lease
has run out since. State of the world: `effect`, the side effect of each step.
State of a call: `pc` and `local`, which dies with the process. `request` and
`succeeded` are history.

| Action | Code |
|---|---|
| `Run`, `Open`, `OpenConflict`, `OpenUnanswered`, `StoreError` | `Run`, `open`, `Create` |
| `Replay`, `GetSteps` | `replay` and the beginning of `judgeAbandoned` |
| `Recover` | `Recover` up to the claim |
| `Claim`, `ClaimLost`, `ClaimUndecided` | `claimAbandoned`, `rebuildChain`, `checkRecoveryBoundary`, the verdict of `judgeAbandoned` |
| `InvokeSucceeds`, `InvokeRetried`, `InvokeFails`, `InvokeUncompensated`, `Canceled` | `invokeStep`, `safeInvoke` and the loop of `execute` |
| `Record` | `persistStep` and what the loop does next |
| `Compensate` | `compensate`, `compensateStep` |
| `Close` | `persistStatus` and the return, or the second turn of `Run` |
| `LeaseExpires`, `Crash` | time and process death |

Choices worth knowing:

- A side effect and its record are two steps, so a crash falls between them.
  The claim and the verdict on it are one step: the verdict is a function of the
  steps that were read before, and a process that dies in between is a process
  that dies right after.
- `Claim` may always end in `compensation_failed` when there is held work:
  `Restore` can fail, and the definition of the workflow can have changed.
- The contract of a step (`workflow.go`) is taken as given: an `Invoke` that fails
  on its only attempt leaves nothing behind unless it says `ErrUncompensated`; a
  failed attempt that is retried may have left its side effect.
- A caller that declared no lease never judges: it returns after the lookup, as
  `Replay` does for a live execution.
- The compensation chain is a set, walked from its highest index. On the normal
  path the code appends in step order, in recovery it sorts the records.

### Outbox

State of the table: `row`, `attempts`, `due`. State of a relay: `pc`, the rows its
transaction has `locked`, the events still `todo`, the uncommitted marks `staged`.
`outcome` is the outcome of the last finished relay job. `sent` and `errors` are
history. A pass is one database transaction: marks become visible in `Commit`, and
every way to lose the transaction (`PublishStalls`, `PassFails`, `ConnectionLost`,
`Crash`) drops locks and marks together and leaves what is already on the bus.
`ConnectionLost` is the case PostgreSQL allows and code cannot see: the row locks are
gone while the process still publishes. `CommitUnanswered` is a commit whose answer
was lost, and `PublishUnanswered` an XADD that took effect although its answer got
lost: the relay then counts a failed attempt, or the client sends the command again,
and the event is on the bus once more than the table knows. `Stalled` is the set of
events whose publish never answers before `MaxRun`: the failure is then recorded with
a dead context and the pass rolled back. `OutboxPromise` says what the writer of an
event was promised; the refinement maps `row` and `sent` to it.

### JobRunner

State of the database: `lock`, the holder of each job's advisory lock, and `runs`,
one row per job and occurrence. Every instance has its own `clock`, `pc`, the job
`at` which the pass stands, the occurrence `due` it computed and whether its
context is `live`. `started` and `excused` (occurrences whose process died or whose
statement failed) are history. `SessionLost` ends the session that holds a lock
under a process that goes on; `SessionCloses` is PostgreSQL reaping a session
nobody works in; `Stop` cancels the context, so that later statements on it fail,
except those the code detaches (`Finish`, `Unlock`). `due` is computed before the
lock, as `consider` does, and may be stale when it is claimed.

### RedisBus

State of Redis: `stream` (every entry ever added), `first` (what trimming left),
`last` (last-delivered-id), `pel` (owner, delivery count and whether the entry is
idle), `letters` (the copies in the pile). A consumer is a name; its loop is `pc` and
`local`, lost with the process. `Stable` names come back after a stop, as a
deployment with a configured consumer name does; others do not, as
`<hostname>-<pid>` does not.

| Action | Code |
|---|---|
| `Publish`, `Redrive`, `Discard` | `Publish`, `RedriveRedisDeadLetter`, `DiscardRedisDeadLetter` |
| `Start`, `ReadPending`, `ReadNew`, `ReadUnanswered` | `Subscribe`, the read of `consume` and its cursor |
| `Sweep`, `SweepFails`, `Keep`, `KeepFails`, `KeepAck`, `Claim`, `ClaimFails` | `reclaim`, `keepDeadLetter` |
| `Handle`, `HandleLeaves`, `Ack` | `dispatch`, `ack` |
| `Shutdown`, `Stop`, `Crash`, `Idle` | cancelled context, the loop's exit, process death, time |

A command and its answer may part: `ReadUnanswered`, `ClaimFails` and `KeepFails`
include the case that Redis did what was asked. The message a consumer handles first is
done within `ClaimMinIdle` (`InTime`), which `redis.go:41-46` asks of a deployment; the
messages behind it in the batch may wait for longer, grow idle and be taken over, and
`slow` remembers them. The retries of a handler inside `dispatch` are one outcome.

### Idempotency

`rec` is the stored value of a key in either store, `queue` the list the memory
store keeps in the order of expiry, `expired` the keys whose time is over. A request
goes through `begin`, `work`, `complete` or `abort`, and each store call is one
atomic step, since the memory store holds its mutex and the Redis store runs a
script. `works`, `excused`, `orphans` and `unclaimed` are history. The budget counts
records instead of bytes. `Reservable` and `Abortable` are the two Lua scripts;
`Reserved`, `Write`, `Collected` and `FitBudget` the memory store. `Refuse` is the
callback that meets a delivery in flight. `Without`, removal from the list, is a
recursive function, so that it can be reasoned about.

### Payment

`db` is the committed ledger of a collection (its totals, its sessions with their
captures), `given` the sum of the refunds that name a cause over every collection (the
query `RefundedForReference`), `books` what the providers' own books say, `tx` the
open transaction that holds the collection's lock. A flow is two steps: the action
named after it reads under the lock, calls the provider and so moves `books`;
`Commit` or `Rollback` ends the transaction. For an *inside* tender (manual, store
credit, points, gift card) the books are rows of the same transaction and roll back
with it; for an *outside* gateway and for PayTR's *page* they do not.
`RefundCollection` is three actions, since it reads the captures and the sum without
the lock, plans, and refunds capture by capture. `PagePaid` is the customer and PayTR's
callback.

`Reconcile` lists suspects and asks about them one at a time. A session that nobody
writes settles (`Settle`, the settling window) and is then on one of two lists: the
authorized ones, oldest first and at most `MaxHolds`; and the pending and canceled
ones on a page, newest first, at most `MaxPages`, and only until `WindowEnds`, the day
of `UnreportedWindow`. `older` is the order in which they settled, `met` the sessions
that had settled when some pass began, `past` those whose day is over. A pass comes at
the job's interval, which `internal/jobs/paymentrecon` keeps below
`UnreportedCoverage` and thus far below the window, so no session's day ends before it
has met a pass. What a list cuts off is warned of (`LeftOut`). `stray`, `late` and
`lost` are history, and `Losses` bounds which sessions' commits may be lost. A cause
draws on one collection (`Drawn`): its ceiling is summed over all collections and
locked per collection, so two collections could pass it together; no caller draws one
cause from two. Any session may be captured in part, a page session too; `Parts` are
the sessions that may be *opened* for a part.

### Shelf

One order: reserved and backordered lines of one item, warehouses, parcels of one
line each. `stocked` and `reserved` are the levels, `claim` the backorder claim of a
line, `returned` what its write-offs put back and where, `parcel` and `dispatch` the
parcels and the lock their opening takes, `events` and `todo` what was published and
not yet handled, `handler` where a delivery stands, `checkout` where the last step of
the saga stands.

| Action | Code |
|---|---|
| `Arrive`, `FillWaiting`, `WriteQuantities` | `adjust`, `fillWaiting`, `writeQuantities` |
| `ClaimBackorder`, `ReadWriteOffs`, `CountParcels`, `SettleClaim`, `DrainClaim`, `ConfirmLine` and the failures of each | `clearCartStep.Invoke`, `claimBackorders`, `ConfirmReservation` |
| `CancelOrderLine` | `CancelOrderLine` with its outbox row |
| `OpenAsked`, `OpenLocked`, `OpenCommits`, `OpenFails`, `CancelFulfillment`, `MarkReturned` | `CreateFulfillment` in four moments, the end of a parcel |
| `HandleLineCanceled`, `RecountParcel`, `Count`, `CountHeld`, `ReadShelves`, `Settle`, `Drain`, `PutBack`, `DeliveryFails` | the cancellation flow, a step per transaction or unlocked read |

A database transaction is one step, every read outside one a step of its own.
`fillWaiting` serves the queue in order and passes over a claim the level is too small
for; `Fillable` is the set of claims such a loop serves, chosen as the one set in
which a line is served exactly when what its predecessors in the set left is enough,
and `OwedTo` is what they are owed together. A parcel that is `live` is pending,
shipped or delivered: the counts treat them alike. The warehouses are ranked before
the first claim; when that fails (`RankingFails`), the claims name none: such a claim
is `unplaced`, waits like another, can be withdrawn, and nothing fills it. `excused`
collects the lines that met a window the flows leave open (below); the properties
speak of the others.

## 3. Runs

### Checks that pass

| Run | Instance | Shows |
|---|---|---|
| `owner` | 2 calls, 2 executions, 1 key, 2 steps, the second a blocker; 2 crashes, 1 lost record, 2 failures (2.2 million states) | `SingleDriver`, `TerminalIsFinal`, `FailedLeavesNoRecordedWork`, `RecordedBlockerNeverReleased`, `SuccessStands`, `KeyWorksOnce`, `HangingWorkIsListed`, with a lease no live call outlasts |
| `retries` | 3 steps, 2 attempts, a step with `ErrUncompensated`, 1 crash, 1 failure (74,000 states) | `UndoneInReverse`: the chain, a step that failed after a retry included, is undone from its end, by the call that built it and by a recovery that rebuilds it from the records |
| `returns` | fair calls, 1 step, a lease that may run out under its owner | `EveryCallReturns`: the loop of `Run` turns at most twice; `ClaimSeesCurrentSteps`: the steps are read before the claim, and a claim that is won still decides on what the record holds |
| `relay` | 2 relays, 3 events, batches of 1, the oldest never answers, the others may be refused for good; 1 fault, 1 repair, fair (75,000 states) | `ResentOnlyAfterAFault`, `GivenUpAfterRealFailures`, the refinement `KeepsThePromise`, and that an event settles unless it stalls (`SettlesUnlessStalled`), and that a stall or a pile is reported (`UndeliveredIsReported`) |
| `jobs` | 2 instances, 2 jobs, 2 occurrences; 1 lost session, 1 fault, fair (300,000 states) | `OccurrenceRunsOnce`, `OverlapNeedsALostSession`, `EndedRunIsRecorded`, `EveryJobGetsItsTurn` |
| `takeover` | 2 consumers, 2 events, batches of 2, 2 deliveries at most; 1 stop, 1 lost answer, fair (105,000 states) | `NoEventLost`, `SecondRunHasACause`, `HandedOnBelowTheBound`, `EveryEventEnds` |
| `ring` | 4 requests, 2 keys, 2 fingerprints, either store, a budget of 1; 2 faults | `OneWorker`, `WorkedOnce`, `LockHasACause`, `OldestDropped` |
| `ledger` | 3 sessions (outside, page, inside) of one collection of 2, 2 refund calls for one cause of 1, captures of a part; lost commits of any one session (545,000 states) | `TotalsAddUp`, `ChecksNeverStrandMoney`, `BookedIsReal`, `ApartOnlyByALostCommit`, `ChargedWithinTheAmount`, `CauseHoldsItsCeiling` |
| `noticed` | a card session whose commit may be lost and 2 page sessions, a collection of 1; lists of 1 hold and 1 page, the day of the window, fair (240,000 states) | `UnaccountedIsReported`: money taken behind a lost commit or on a closed page comes to be accounted for, reported, or left out by a pass that warns of it; what may escape is a payment that came, or could be seen, only after the page session had settled, once its day is over |
| `shelf` | a reserved and a backordered line of 2, 2 warehouses, 2 parcels, 1 delivery at a time, 1 arrival, 1 written-off unit; 1 fault (2.8 million states) | `NothingDueIsGivenBack`, `EverythingIsBack`, `CreditedWhereTaken`, `WaitingIsNotOnSale` |

`owner` and `jobs` also check the `TypeOK` that is proved. `Ownership`, the rest of the
engine's inductive invariant, the type invariants of the other modules, `LockedRowsStand`
of `Outbox`, `OneHolder` of `RedisBus` and `ReplaysTheSameRequest` of `Idempotency` are
proved (section 4) and hold on the same instances; no regular run lists them. Every
inductive invariant of the proofs was checked with TLC on small instances before it was
proved.

### Disagreements between the code and its own text

Two runs check a statement a comment of the repository makes and find it violated;
`findings` in `PROJECT.json` quotes the line.

| Run | The text | What the code does |
|---|---|---|
| `bug_unrecorded` | a blocker elsewhere in the chain has a record | not when its write was lost: recovery then looks one step past the highest record, misses the blocker and frees the key |
| `doc_adopted` | a paid PayTR row no refund touched is held by no live session, since a second session is opened only when nothing was captured | `remainingToOpen` subtracts amounts only: once another provider's hold is released (or held less than its session asked for), a second page session adopts the row the first captured, and one payment is booked twice |

Others met on the way are stated by a definition no run lists, or follow from the
model and are recorded here.

*Engine and outbox.* A step that failed after a retry, or reported
`ErrUncompensated`, and whose process died before the status, is closed as `failed`
with the side effect standing (`owner` has one attempt and no such step for this
reason). After a lost `completed` the next caller compensates a successful flow once
its lease is over; `SuccessStands` and `KeyWorksOnce` speak of records that landed
(`RecordsLanded`). A row whose publish runs into `MaxRun` is retried forever
(`EveryEventSettles` of `Outbox` fails with a stalled event), and its rollback sends
again what its batch had sent. The godoc of `Run` (`executor.go:115`) says a second
call with a key does not run the steps again, while `failed` frees the key, as
`store.go:32` says. The godoc of `WithLease` (`options.go:269`) says abandoned work
keeps its key, while recovery compensates it from the record and frees it. A blocker
in the first place has no record before it, so `checkRecoveryBoundary` never sees it;
no workflow of the repository starts with one. `job.go:333` says a free lock means
nobody runs the job, which a lost session breaks (`OverlapNeedsALostSession` counts
exactly that).

*Event bus.* `redis.go:80-90` bounds how often a message is handed out. A process
that comes back under its name reads its own pending entries without looking at the
count (`redis.go:573-583`), so a message that kills its consumer is handed out again
on every start: `DeliveriesBounded` fails for a stable name. What holds, and is
checked, is the bound on takeovers. `eventbus.go:65` says there is "exactly one reason a
message is delivered twice: the consumer that read it stopped without ACKing". There is a
second: the messages at the end of a batch become idle while the first are handled, and
another live consumer takes them over and runs their handlers too (`redis.go:615` claims by
idle time alone; a batch is 16 messages, `ClaimMinIdle` a minute). `SecondRunHasACause`
names both reasons, `OneHolder` says that only the second puts one message in two hands.

*Payment.* `capture.go:18-29` says of a partial capture that "the part not taken is
released". A page session captured in part (`capture.go:80-92` and the provider accept any
amount up to the hold, and the admin surface asks for one) releases nothing: PayTR has the
whole payment, keeps the rest, and no row and no report shows it.
`ChargedWithinTheAmount` therefore allows the rest of a page captured in part on top of the
amount, and nothing else. A page paid while its session
is being canceled is money no session holds (`stray`), which reconciliation reports.
A refund whose commit was lost can be repeated at the provider; the module then knows
of one. PayTR's own list of refunds is written after PayTR confirms, a window that is
not modelled.

*Stock.* Lines that met one of these windows are `excused`. Documented by the
repository: a parcel's ceiling read before a write-off (ADR 0430, D265), a parcel
back before the checkout counted (D268), a claim that could not be recorded (D242),
and settlements and confirmations that fail with a warning. Not documented:

- a reserved line written off and handled before its reservation was confirmed:
  `putBack` finds no sale and gives up, and nothing asks again: an order of the acts,
  without any failure, that loses the written-off units;
- the checkout counts parcels through the links and without the dispatch lock, so a
  parcel being opened, or committed and not yet linked, is missed and its units are
  withdrawn from the claim;
- a claim filled between its recording and the checkout's settlement: the number of
  units to put back that `SettleBackorder` answers is dropped, and the written-off
  units stay off the shelf, again without any failure. `claim_backorders.go:45-48` says
  "a line written off before the checkout finished is withdrawn either here or by the
  cancellation flow, which finds the claim"; an event handled before the claim existed
  does not find it, and the settlement does not withdraw a claim that is filled.

`EverythingIsBack` says exactly that these orders, the documented windows and the failed
calls are all there are: every other order of the acts brings each written-off unit back.
A claim without warehouses is not among the excused: nothing fills it, as
`claim_backorders.go:92-97` warns, and `WaitingIsNotOnSale` speaks of the claims that wait
at a warehouse.

### Bounds

- Two calls are what a race needs; a third process would only be another judge of
  the same execution, and the claim treats judges alike (the proofs cover any
  number). Two executions with one key let a key be freed and used again. Two
  steps give a step before the blocker and the blocker; three are used where the
  order of compensation, or a hole in the record, is the point.
- Two crashes allow the recovering process to die too. One lost write is enough
  for each hole the record can have. Two failures reach a failing compensation.
- `updatedAt` is not bounded by a constant: an execution is written finitely often
  because its steps are finite and `failed` executions are not reopened.
- Outbox: two relays, so that their locks meet, and two attempts so that a first
  failure and the ceiling differ. Batches of one with three events: the stalled
  event fills a batch by itself, and so does one of the two behind it that is refused at
  every attempt, with another event waiting behind that.
- Job runner: two occurrences, so that a stale one and a current one exist; two
  jobs, so that a job can hold up another.
- Event bus: two consumers meet over one entry, two events make a batch and a page
  with a second entry, a bound of two deliveries leaves one takeover below it and one
  at it. One stop and one lost answer combine a crash with a lost read, copy or
  acknowledgement.
- Idempotency: four requests give a key a worker, a retry and an owner of the next
  reservation while another key fills the budget of one.
- Payment: a collection of two has a part and a rest, a cause of one is passed by two
  refunds that race; three sessions put one provider of each kind side by side. For the
  reconciliation, two pages and a list of one make a page that is cut off. A list of
  holds that is cut off would need two authorized sessions that settle, one of them
  with a lost commit; at an amount of one only one session is authorized at a time, so
  that case is not reached. Only the card session loses commits there: a page whose
  authorization is lost is the pending session, paid, that the run has anyway.
- Shelf: lines of two units are written off in part; two warehouses tell the shelf a
  fill deducted from another; two parcels let one be opened while another ends. The
  same properties hold with two deliveries at a time, one warehouse, one parcel and
  two written-off units without faults (4.4 million states), which is too long for a
  regular run.
- Symmetry is used in safety runs only, over processes, executions, requests, keys,
  refund calls and parcels, which the specifications treat alike. Events are ordered
  by age, jobs by registration, lines and warehouses by rank and are not symmetric.

### Fairness

- `Workflow!FairSpec`: weak fairness of the next step of a call that has begun. A
  goroutine that is not blocked runs, steps are bounded by the context, and a
  process that stops for good is `Crash`. Nothing obliges anyone to call.
- `Outbox!FairSpec`: weak fairness of a relay's pass (the scheduler starts one every
  minute and `MaxRun` bounds it) and of the end of a backoff. Publishes may always
  be refused, writers and operators need not act.
- `JobRunner!FairSpec`: weak fairness of an instance's loop, restarts included, and
  of PostgreSQL closing a session without a process. Faults are bounded and not fair.
- `RedisBus!FairSpec`: weak fairness of a consumer's loop and of the restart of a
  stable name, strong fairness of its sweep (the loop turns forever and sweeps on
  every turn), and weak fairness of an entry growing idle. Handlers may always fail,
  operators and publishers need not act.
- `Payment!FairSpec`: weak fairness of the hourly reconciliation and of a session
  growing old enough to be looked at; strong fairness of the question about a
  suspect, for a provider that is asked again and again answers at some time. The
  flows themselves, the customer and the commits are not fair.

## 4. Proofs

TLAPS proves these for every value of the constants that satisfies the named
assumption of the module (`EngineAssumption`, `OutboxAssumption`, ...): sizes are
naturals, the markers for "no key", "no execution" and "nobody" are not members.
Nothing is bounded: any number of processes, executions, events, requests, crashes
and lost writes.

| Theorem | Statement |
|---|---|
| `TypeCorrect` | `Spec => []TypeOK` of the engine |
| `RecoveryIsExclusive` | `LeaseCoversRun => (Spec => []SingleDriver)` |
| `TerminalStatusIsFinal` | `LeaseCoversRun => (Spec => TerminalIsFinal)` |
| `ClaimIsCurrent` | `Spec => []ClaimSeesCurrentSteps` |
| `SuccessIsKept` | `LeaseCoversRun => (Spec => []SuccessStands)` |
| `UndoneBackwards` | `LeaseCoversRun => (Spec => UndoneInReverse)` |
| `FailedIsClean` | `LeaseCoversRun => (Spec => []FailedLeavesNoHeldWork)` |
| `FailedLeavesNothing` | `LeaseCoversRun /\ SingleAttempts => (Spec => []FailedLeavesNoRecordedWork)` |
| `HangingIsListed` | `LeaseCoversRun /\ SingleAttempts => (Spec => []HangingWorkIsListed)` |
| `KeyIsWorkedOnce` | `LeaseCoversRun /\ SingleAttempts => (Spec => []KeyWorksOnce)` |
| `BlockerIsKept` | `LeaseCoversRun /\ SingleAttempts /\ 1 \notin Blockers => (Spec => []RecordedBlockerNeverReleased)` |
| `OutboxTypeCorrect`, `HeldRowsStand` | `Spec => []TypeOK`, `Spec => []LockedRowsStand` of the outbox |
| `GivenUpIsEarned` | `Spec => []GivenUpAfterRealFailures` |
| `ResendsAreFaults` | `Spec => []ResentOnlyAfterAFault` |
| `PromiseIsKept` | `Spec => KeepsThePromise`: `Outbox` implements `OutboxPromise` |
| `RunnerTypeCorrect` | `Spec => []TypeOK` of the job runner |
| `OccurrencesAreElected` | `Spec => []OccurrenceRunsOnce` |
| `ShutdownLosesNoOutcome` | `Spec => []EndedRunIsRecorded` |
| `OverlapsArePaidFor` | `Spec => []OverlapNeedsALostSession` |
| `BusTypeCorrect` | `Spec => []BusInv`, `TypeOK` of the bus and what its loops have in hand |
| `HandedOnBelow` | `Spec => HandedOnBelowTheBound` |
| `NothingIsLost` | `Spec => []NoEventLost` |
| `SecondRunsHaveCauses` | `Spec => [](SecondRunHasACause /\ OneHolder)` |
| `RingTypes` | `Spec => []TypeOK` of the ring: the list of the memory store has every record once |
| `OldestFirst` | `Spec => OldestDropped` |
| `LocksHaveCauses`, `ReplaysMatch` | `Spec => []LockHasACause`, `Spec => []ReplaysTheSameRequest` |
| `WorkersAreAlone`, `EffectsAreExcused` | `TTLCoversRun` implies `Spec => []OneWorker` and `Spec => []WorkedOnce` |
| `PaymentTyped` | `Spec => []TypeOK` of the payment ledgers |
| `BooksFollowTheRows` | `Spec => []ApartOnlyByALostCommit` |
| `CeilingHeld` | `Spec => []CauseHoldsItsCeiling` |
| `TotalsAreTheSums` | `Spec => []TotalsAddUp` |
| `ChecksHold` | `Spec => []ChecksNeverStrandMoney` |
| `BookingsAreReal` | `Spec => []BookedIsReal` |
| `NothingTwice` | `Spec => []ChargedWithinTheAmount` |
| `NothingDue` | `Spec => []NothingDueIsGivenBack` |
| `CreditedThere` | `Spec => []CreditedWhereTaken` |
| `AllIsBack` | `Spec => []EverythingIsBack` |
| `NotOnSale` | `Spec => []WaitingIsNotOnSale` |

**Engine: ownership.** `SingleDriver` is not inductive: a judge with a current stamp
could win a claim against the owner. The invariant is `TypeOK /\ Ownership`, where
`Ownership` adds that a driven execution is running (`OwnerRuns`), that its lease has
not run out (`ExpiredHasNoOwner`), and that every judge of it holds a stamp older than
the record's (`ClaimNeedsNoOwner`, with `SeenIsPast`), so that `ClaimAbandoned` refuses
it. `StepShapes` says of each action what it does to who works on which execution
(start, judge, win or lose a claim, drive on, close, leave), and `OwnershipKept` shows
each shape keeps the invariant. Finality then follows because only a driver writes a
status, and what it drives is running. `LeaseCoversRun` is the condition the godoc of
`WithLease` puts on the caller; without it exclusiveness does not hold, and the
theorems say so in their hypothesis.

**Engine: the work.** The second half of `WorkflowProofs` builds on ownership: since
one call drives an execution, what it knows is a fact about four values, its own
state, the records, the side effects and whether every record write has landed.
`DriverWork` states that fact at each point of the call: while it invokes, the steps
before its own are applied and in the chain and the later ones untouched
(`ForwardWork`); while it compensates, every side effect that stands is in the chain
or has no record that recovery would take for work (`BackwardWork`, `Covered`); before
it closes, the status it will write is true (`CloseWork`). `RecordWork` says what the
records mean when nobody is there: a record `compensated` means the side effect is
gone, and a blocker that took effect without a record is the next step behind a
complete prefix of `invoked` ones, which is exactly what `checkRecoveryBoundary` looks
for. Each step of the engine is a lemma about the four values (`SuccessWork`,
`FailureWork`, `UndoneRecorded`, `ClaimWork`, ...); a second layer lifts it to the
state. `SnapIsSeen` says that a judge's copy of the steps is as old as its stamp: a
step write moves the stamp, so a claim that is won was decided on current steps, with
or without a lease. `KeyInv` says that a key names one execution until that execution
is closed as `failed`.

The hypotheses are the code's limits, not the proof's. A step that failed after a
retry, or with `ErrUncompensated`, is recorded `failed` with its side effect possibly
standing, and `Held` in `recover.go` passes over `failed`: a crash before its
compensation frees the key. `SingleAttempts` (one attempt, no such step) excludes it;
`FailedIsClean` is what is left without that hypothesis. A blocker in the first place
has no record before it, and recovery closes such an execution as failed, hence
`1 \notin Blockers`. `SuccessStands`, `KeyWorksOnce`, `UndoneInReverse` and
`RecordedBlockerNeverReleased` speak of records that landed; `bug_unrecorded` shows
that the last one needs it.

**Outbox.** The pass invariant (`PassInv`) says that what a relay still has to publish
is locked and comes after what it has marked, that a process without its session holds
nothing, that locked rows are disjoint and unsent, and that a staged failure has an
error behind it. For resends a second invariant (`OutboxInv`) counts, per event, the
sends that a commit, a fault of the pass or a lost answer has paid for. The refinement
maps the rows to `OutboxPromise`: a commit settles several events at once, which the
promise allows, and every other action is a send or a stutter. The property is about
the events at or behind the last stalled one: a pass that stalls takes back the marks
of the *earlier* events of its batch and sends them again on every pass, without any
fault.

**Job runner.** That an occurrence is started once follows from the stronger
`StartedHasARow`: a started occurrence has a row, rows are never deleted, and a start
needs the row to be missing. Neither the lock nor the clocks are used, which is the
point: the insert alone elects. `EndedRunIsRecorded` is inductive with `TypeOK`: an
unfinished row is one whose run some instance is still in, or excused. For overlaps,
`OrphansPaidFor` says that the instances that run a job without its lock are no more
than the sessions lost, and at most one has the lock.

**Event bus.** `BusInv` says that nothing beyond the group's last-delivered-id was
handed out, that what a loop has in hand was delivered, and that an entry in a claim
page is below the bound. `LossInv` accounts for every event: handled, pending, in the
pile, or trimmed and counted; an entry is acknowledged only after its handlers ended
well or its copy is in the pile. `HandInv`, for second runs: a loop holds an entry until it
has handled it, so nobody takes it over while it is in hand unless it grew idle there,
which puts it in `slow`.

**Idempotency.** `RingInv` relates a reservation to the request that made it and a
stored answer to the request that gave it. `WorkerOwns` (a worker owns the reservation
of its key) needs `TTLCoversRun`, the reservation's time to live being longer than any
handler; `WorksPaidFor` then counts a second side effect against a record let go. The
memory store's list is the subject of `ListOK`: it has every key with a record, once, and
no other. `Places` says what removal leaves of a list: which entries, and in what order.
A record dropped for the budget has as many completed ones behind it as the budget holds,
and every older completed one has at least those; that is `OldestFirst`, for any budget.
It speaks of the records other than the one being written, which a budget of nothing
drops at once.

**Payment.** A flow holds its collection's lock from before the provider is called to
the commit, so an open transaction is the only writer of that ledger (`Transactions`:
it rewrites the row of its own session alone). `Good` says that a capture is listed
once and that a session not yet authorized holds nothing; `Rewrites` and `RowWritten`
show that each flow keeps it. `Agree` follows the two ledgers of a session across the
commit: the books of a driven provider show the committed row, or, while the session's
transaction is open, what that transaction is about to write; those of an inside tender
show the committed row throughout, since they move with the commit. So only a rollback
behind a provider outside the database parts the two, and that puts the session in
`lost`. For the ceiling, `RefundCollection` reads the
sum without the lock, so its plan proves nothing; `Ceilings` says that a refund under
way for a cause holds the lock of the one collection the cause is drawn from and that
its amount, checked again under the lock, still fits. Two refunds of one cause are
serialised by that lock and by nothing else, which is why `Drawn` is a function.

**Sums.** Totals, stock and parcels are sums over sets of any size, and the sum of the
community modules is a recursion over subsets. Induction is stated with sets instead of
predicates (`SetInduction`: a set with zero and the successors of its naturals has every
natural), which needs no operator parameter; with it `Sums` shows that the recursion has
a solution, what adding an element to a set and changing one summand do to a sum, and
that greater summands have a greater sum.

**Payment: the sums.** `Summed` says of the committed ledger and of every open
transaction's that held, taken and refunded are the sums of the rows, that the status is
the one they give, and that what is taken and what the live sessions may still take fit
the amount together. The last part is what opening a session checks, what no later flow
may widen, and what makes the module's own checks harmless: a transaction that already
moved money passes all of them (`ChecksHold`).

**Payment: the books.** `Behind` follows the providers: a driven provider took no more
than its row reserves, in the committed ledger and in the one about to be committed
(`Driven`), and a page is for the amount of its pending session and was paid when a
session on it is authorized (`Paged`). On top of it `RealRows` (a row has booked no
more than its book shows) and `Returned` (the refunds booked on one page are together no
more than what it gave back) give `BookedIsReal`, whoever shares a page. That a payment is
booked by *one* session is not proved, since it is false: `BookedOnce` is what
`doc_adopted` refutes. `Covered` (what a page keeps is reserved by one of its sessions, or
one of them captured it, whole or in part) gives `ChargedWithinTheAmount`.

**Stock.** The invariant has four layers. `Typed` says besides the types that events tell
the truth (so much was written off, that parcel ended) and that a parcel being opened is
the one that holds the lock. `Limits` follows what may be given back: the window a
delivery or the checkout has computed is at most what was written off, and leaves room for
what parcels hold or are about to hold. The windows are read without a lock; they stay
good because write-offs only grow and because a parcel opened against an old ceiling takes
room only from a line it thereby excuses. `Credit`, part of it, says where a backordered
line was credited. `Coverage` is the other direction: for every number of units that were
written off and that the parcels leave, either they are back, or an event still to be
handled tells of them and every delivery of it that is under way will see to them, or the
checkout will. `Swept` says that a waiting claim is owed more than every warehouse has on
sale, or the checkout or a delivery has warehouses yet to look at, and found too little in
those it looked at. It rests on `Fillable`: a write that fills the queue as far as it can
leaves too little for every claim that still waits. Each layer is kept by one lemma per
action. Lines that met a window of section 3 are `excused`, and the theorems say nothing
of them.

**Left to TLC.** Liveness (`EveryCallReturns`, `SettlesUnlessStalled`,
`UndeliveredIsReported`, `EveryJobGetsItsTurn`, `EveryEventEnds`,
`UnaccountedIsReported`), since the prover handles neither fairness nor ENABLED. Every
invariant and every action property that a passing run checks is proved. No module that
is proved about declares a recursive operator: recursion is a recursive function or a
fold of the community modules.

## 5. Not modelled

- Engine: values that flow between steps, retry delays, stores without
  `ClaimingStore`, `ParallelStep` (only its outcome `ErrUncompensated`), and the
  erasure of personal data in `pgstore`.
- Outbox: the direct publish that is tried before the relay, payloads, the length of
  the backoff (`Policy.delayAfter`), and the dead-letter pile of the bus that the
  relay job also asks for.
- Job runner: `RunNow`, which has no caller in the program; different intervals per
  job; `Last` and the listing.
- Event bus: the in-memory bus, several event names, the retries inside `dispatch`.
- Idempotency: what makes two requests the same (namespaces, fingerprints), what is
  never recorded (streams, large bodies), rate limits and callback signatures.
- Payment: the balances behind store credit, points and gift cards, the report of a
  paid page (`session_report`), the journal, PayTR's hashes and forms.
- Stock: other carts' reservations, closing a location, bundles, untracked variants,
  additions that share a parcel, labels, and units a return or a replacement speaks
  for.
- Checkout: the steps before the last, beyond their shape in `Workflow`; webhooks:
  planned below.
- The other commerce modules are single transactions over tables. Most of the
  repository's lines are of that kind, or describe, render and wire it: generated
  GraphQL code, API descriptions, admin pages, providers of search and files,
  scaffolding and the command line. They have no protocol of their own, and a model of
  them would repeat their text.

## 6. Plan

1. Done: `Workflow`, `Outbox` with `OutboxPromise`, `JobRunner`, `RedisBus`,
   `Idempotency`, `Payment`, `Shelf`; proofs of every safety and action property the
   passing runs check.
2. Proofs left: from which hypothesis about the sessions of a collection `BookedOnce`
   holds, and what becomes of excused lines.
3. `ParallelStep`: branches, inner rollback, `ErrUncompensated`; shown to keep the
   contract of a step that `Workflow` assumes.
4. `CheckoutSaga`: the six steps and `settle`, composed with `Workflow`; no second
   charge and no rollback after a capture that may have happened.
5. `WebhookOut`: claims and retries; `Backoff`: `delayAfter` with 64-bit arithmetic
   against a reference.
