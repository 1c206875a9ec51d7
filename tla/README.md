# A verification of the flash-sale order backend

This directory holds TLA+ models of the backend under `src/src` (a NestJS
service with PostgreSQL, Redis/Redlock, BullMQ and a websocket gateway), the TLC
configurations that check them on small instances, and TLAPS proofs about the
core for all instances. Paths below are relative to the repository root `src/`.

## 1. Inventory

The components, their state, and what makes each one correct.

| Component | Source | State | Operations | What makes it correct |
|---|---|---|---|---|
| placeOrder | `src/modules/orders/orders.service.ts:35-162` | the call's own position, its first reading of the stock, the entity it keeps in memory | read, lock, reread, insert, unlock, enqueue, save again, publish | an order is inserted only while the stock covers it; the lock is given back; the order it leaves behind says what happened to it |
| OrderProcessor | `src/modules/orders/orders.processor.ts` | a job, an open transaction | lock, BEGIN, PROCESSING, reserve, CONFIRMED or FAILED, COMMIT, unlock; the catch block | the decrement and the confirmation commit together; an attempt that fails keeps nothing |
| InventoryService | `src/modules/inventory/inventory.service.ts` | `products.current_stock`, `flash_sale_active` | conditional decrement, create, update | never below zero, no lost decrement |
| RedlockService | `src/common/redis/redlock.service.ts` | `lock:product:<id>` on three nodes | acquire (10 retries), release, TTL | one holder at a time while nobody outlives the TTL; never held for ever; a minority of failing nodes is tolerated; nothing is left behind |
| Order queue | BullMQ, configured in `orders.service.ts:123-129` and `src/modules/queue` | state, attempts and lock of each job | add, fetch, complete, fail, retry after backoff, recover stalled | each job settles; the attempts of a job sell its order once |
| MetricsService, MetricsInterceptor | `src/common/metrics/metrics.service.ts`, `src/common/interceptors/metrics.interceptor.ts` | lists, counters, gauges in Redis, with TTLs | push/trim/expire, incr/expire, set, read, clear | the newest samples are kept, no key stays for ever, a clear clears, a report is complete |
| MonitoringGateway | `src/modules/monitoring/monitoring.gateway.ts` | sockets, a map of interval timers; gauges per second in Redis | connect, disconnect, subscribe, unsubscribe, ticks | one timer per socket, none for one that is gone; a subscribed socket goes on hearing; the gauges of a second agree |
| Order reads | `orders.service.ts:164-243` | none | status, queue position, counts | a position or a count that was true at some moment |
| Schema | `src/database/entities`, `src/database/migrations` | tables and the enum of `orders.status` | | the enum knows every status the code writes |
| PrometheusController, LoggingInterceptor, RedisClientProvider, HTTP controllers, wiring, scripts, load tests, dashboards | | none of their own | formatting, logging, forwarding | not modelled |

How they interact. A placeOrder call reads the product, takes the product lock,
reads again, inserts the order, gives the lock back, adds a job, saves the order
a second time and publishes metrics. A worker fetches the job, takes the same
lock, and in one transaction writes PROCESSING, decrements the stock and writes
CONFIRMED. Both share the two tables, the lock and the metrics; the queue calls
the worker back, again if it throws or goes silent. Administrators write the
product table without the lock. The gateway and the interceptor share Redis
with all of them.

What is hard here: the second save of placeOrder races the worker its own add
has started; the lock can run out under its holder and is left behind by
several throws; an attempt can fail before, in, or after its COMMIT; a job can
be delivered again after its effects are durable; an error in a metric changes
what an order becomes; websocket events overlap an await. `PROJECT.json` lists
all of these as hazards, at their lines.

## 2. Modules

```
SaleState            constants, faults, variables, control points, row locks
 └ ProductLock       RedlockService as its callers see it
   └ InventoryService  conditional decrement, its metric, administrative writes
     └ OrdersService   placeOrder, one action from await to await
       └ OrderQueue    BullMQ (external)
         └ OrderProcessor  process(job), one action from await to await
           └ OrderFlow   Init, Next, Spec, fairness, properties, invariants
              ├ MCOrderFlow       symmetry and view for TLC
              ├ OrderReads        getQueueStatus beside the flow (MCOrderReads)
              │   └ OrderReadsProofs  TLAPS, with OrderFlowProofs
              ├ OrderFlowClaims   what documents say and the code does not do
              └ OrderFlowProofs   TLAPS
FlashSale            abstract sale; OrderFlow refines it (INSTANCE)
LockService          abstract lock; OrderFlow and RedlockNodes refine it (INSTANCE)
 └ LockServiceProofs   TLAPS
RedlockNodes         the lock node by node: scripts, votes, attempts
 ├ MCRedlockNodes      symmetry for TLC
 └ RedlockProofs       TLAPS
MetricsService       the metrics in Redis, command by command
 └ MetricsProofs      TLAPS
MonitoringGateway    sockets, subscriptions and their timers
 └ GatewayTicks        ticks, the Redis connection, gauges per second
    └ GatewayProofs    TLAPS, the timers
       └ GaugesProofs    TLAPS, the gauges
```

How the state corresponds to the code:

- A call, its order row and its job share one identity, an element of
  `Requests`: a call inserts one row and adds one job at most.
- A request's quantity is what the DTO lets pass, any number from 1 on. Stock is
  whole, so a fraction compares with it as the next whole number does, and
  `Quantities` are rounded up; what a fraction changes is that the integer column of
  `orders` refuses its row (`storable` is FALSE, a value of the constant `Storable`),
  as the varchar(255) does with a longer userId. A fractional product id is refused
  by the first read of the call, before anything is done, and is left out.
- `stock`, `sale`, `status` are committed columns. What a transaction has
  written and not committed is `wval[w]` (the decremented stock) and the
  worker's position; row locks are derived from both (`OrderRowFree`,
  `ProductRowFree`), as PostgreSQL holds them until the transaction ends.
  PROCESSING is only written inside a transaction that replaces it, so no
  reader ever sees it; whether the enum accepts it is the constant
  `StatusColumn`.
- `lock[p]` is the holder a quorum of nodes agrees on. `Expire` is the TTL; a
  holder that is still inside its critical section can lose the lock only under
  the fault "slow". `LockRefused` is `acquireLock` returning null: the key is
  taken, another process asks at the same time (it may keep enough nodes from
  all the attempts), or the nodes fail or keep what a dead asker left there.
- RedlockNodes opens up that box, with the library's rules as RedlockService
  sets them: a script goes to every node at once (`SendToAll`), each node runs
  it when it gets there (`RunAcquire`, `RunRelease`), the first majority of
  answers decides the attempt (`Granted`, `Denied`), an attempt that is denied
  is followed by another, the last one by one round of releases (`CleanUp`).
  Scripts that arrive after the decision still take effect. The acquire script
  refuses any existing key, also the call's own. A script on a flaky node may
  fail after taking effect; a volatile node may restart empty. `expired` is the
  lease as the holder computes it, TTL less drift from the start of the attempt,
  which is why a key does not run out before it (`Backs`, `Expire`).
- LockService says what both of these promise of one lock: who asks
  (`asking`: an acquireLock without answer), who goes by its answer (`relying`:
  between acquireLock and releaseLock) and whose lease has not ended (`leases`).
  A lease is granted while there is no other, or a node has forgotten one
  (`forgot`); it ends when its holder gives it back, or when its TTL does, which a
  holder that is still relying sees only if it may overrun (`Overrun`). The order
  flow's lease is `lock[p]`, and its processes overrun under the fault "slow"; of the
  nodes, a lease is a call that is held and not expired.
- `pc[r]` and `wpc[w]` name the await a handler has reached. Every action ends
  at the next await and contains all the code does in between, its throws
  included: `Reject` and `Fail` are the two ways into the catch block of
  placeOrder, "rollingBack", "markingFailed" and "unlockingFailed" the stations
  of the catch block of process.
- The second `orderRepository.save` is two actions, as TypeORM does it: it loads
  the row (`Reread`) and then updates the columns in which the entity differs
  from what it loaded (`Resave`). The entity says PENDING.
- `RecordLevel` contains the `try`/`catch` of reserveInventory: an error of
  the metric makes the reservation return false while the decrement stays in
  the open transaction.
- `debits` is a history variable: how many committed transactions took units for
  an order.
- OrderReads composes the flow with a reader: `line` is BullMQ's wait list, from
  which workers take jobs in order, and `reading` is one getQueueStatus call,
  between whose two reads everything else goes on, or one getOrderMetrics call,
  whose counts by status are three separate reads (the total and the job counts,
  read before and after them, are left out); of the counts the model keeps whether
  one watched order is among them. A position is compared with the queue at the
  moment of the second read.
- In MetricsService the recordings of the interceptor keep their order of
  commands; one of the per-route/overall lists, the counters `total_requests`
  and `total_errors` and the counter of each second stand for all keys of
  their kind.
- In MonitoringGateway the n-th subscription of a socket creates timer n;
  `live` are the timers Node still fires, `intervals` the one the map can clear.
- GatewayTicks adds what a timer does each second. `line` is the command queue of
  the process's one node-redis client: commands are answered in the order they
  were sent in, and a tick sends its next one when the last is answered. Between
  the gets of getMetrics and the job counts a tick makes any number of other
  round trips (`reading`). A gauge is kept for the present second; `NextSecond`
  clears them and marks the commands under way, whose keys nobody reads any more.

Faults. The constant `Faults` says which of these the environment may do: "db"
(a statement or connection fails), "commit" (a COMMIT or INSERT is applied and
reported as failed), "lock" (the nodes fail an acquire or a release), "queue"
(`Queue.add` throws, with the job stored or not), "metrics", "crash" (a process
dies, its transaction is rolled back by PostgreSQL, its locks stay), "slow" (a
process pauses beyond the TTL of its product lock or its job lock and goes on).

Abstractions. Prices, names, users and timestamps are left out. Time is left
out but for the order of events: a TTL or a backoff may end at any moment its
guard allows. `estimatedWaitTime` and the wording of errors are outputs nothing
depends on.

## 3. Runs

All passing runs use the code's schema (the entity's enum) and are complete
searches; none uses a state constraint.

| Run | Instance | Question |
|---|---|---|
| `order_reads` | 3 calls, storable or not, stock 2, 2 workers, no fault, a reader of the queue position of any job or of the counts of orders | Is the lock given back unless the table refuses the order, is every order inserted while the stock covers it, is no client told to be further ahead in the queue than it is, and is an order counted twice only when its call saved it twice? |
| `orderflow_errors` | 2 calls, 2 workers, quantities and stock 1 and 2, 2 attempts, faults db, lock, queue | Do retries and left-behind locks ever let an order take stock twice, keep stock as FAILED, be CONFIRMED without stock, or two processes in? Is all that happens to a lock what LockService allows? |
| `orderflow_pauses` | 2 calls, 2 workers, stock 1 or 2, fault slow | When locks run out under their holders and jobs run on two workers, is the last unit still sold once, and every change of the stock an atomic sale? Are no more units confirmed than there were, and is no order sold more often than its job was run? |
| `orderflow_live` | 1 call, storable or not, 1 worker, quantity 1, stock 2, an administrator who writes 1, 2 attempts, every fault but slow and lock | Does every queued job settle, every lock become free, every call return? Is every change of the stock an atomic sale, does a job that is run again sell at most once per run, and does an accepted call always have its order and its job? |
| `metrics` | 2 recordings (one may fail), 1 product, lists of 1 sample, 2 seconds, 1 clear | Do interleaved commands keep the newest samples, leave no key without TTL, let no old sample survive a clear, and report every level? |
| `gateway` | 2 sockets, 2 subscriptions each: one waits for its subscriptions but may see Redis fail, one sends events meanwhile | One timer, which stops when it should, for the patient socket; a subscribed one is served and, under fairness, goes on hearing; the gauges of a second agree and the connections are current. |
| `redlock` | 2 calls, 3 nodes, 2 attempts; one node fails scripts and restarts | Is there one lease at a time? Is a lone call ever refused because one node fails, or are two calls both refused? Does a call that is over leave a key behind? Do the nodes together keep the promise of LockService? |

Why the bounds suffice. Two calls compete for the last unit, and a third order in
the line is one that a position can be wrong about; two workers are what redelivery
and row locks need; two attempts contain a retry, the third adds nothing to a
counter that is compared with its bound. All faults together in one run, with two
workers, are beyond TLC here; the stock, the lock and the orders are proved for
them. One stall is BullMQ's default. One unit of stock with two buyers is the
smallest contested sale; two units are what a second sale of one order needs, which
is why `orderflow_live` and `orderflow_pauses` have them. Failing lock nodes are in
`orderflow_errors`, not in `orderflow_live`: what they do to a call or a job, a
refusal or a lock left behind, the contention and the crashes of that run do too.
Three nodes are the deployment's; two attempts leave keys for the second one to
meet. Ticks of one socket overlap with each other no differently than those of two.
A list that keeps one sample shows each order of two pushes and two trims. A level
of 0 is the only one a reader could mistake for none. Where larger instances matter,
the theorems below hold for all.

`SYMMETRY` permutes calls and workers, which all range over the same values, and
is used only where no liveness is checked. `VIEW WithoutMetrics` drops `gauge`,
`tally` and `read`: no guard reads them, and no property of the runs that use it
mentions them beyond their types. `CHECK_DEADLOCK FALSE` is set for the gateway,
the metrics and the nodes, which may run out of the events their bounds allow; the order
flow ends in the explicit stuttering step `Terminated`, so TLC does check it for
deadlock.

Fairness (`OrderFlow!Fairness`). Weak fairness for a call that has begun, for each
worker's fetching and for its processing, for the queue's timers (backoff, stalled
jobs) and for TTLs: Node runs continuations that are ready, BullMQ polls, Redis
expires keys. Nothing is assumed of clients, administrators, crashes or of who
wins a lock. Weak fairness of the whole handler is enough because an
`acquireLock` that finds the lock taken is enabled to give up. `GatewayTicks`
assumes that Redis answers, that an awaited read or subscription comes back and
that a running interval fires: nothing of sockets, and nothing of failures, which
`UpdatesKeepComing` allows any socket at any time: it asks for updates after a
failing tick, of the same socket too, and lets them stop only if the ticks go on
failing for ever.

### Disagreements

Five runs expect a violation. Each checks one statement of the repository, and
the counterexample is what the code does.

- `claim_confirmed` — the second save of placeOrder puts a CONFIRMED order back to
  PENDING, with no fault at all, if the worker was faster than the save.
- `claim_failed_took` — a failing Redis metric makes process commit the decrement
  together with FAILED, on the branch that means insufficient inventory.
- `claim_retried` — a worker that does not get the lock fails the order and
  completes the job, so the retries `README.md:256` promises never apply.
- `claim_migrated` — the migration's enum has no 'processing': on a migrated
  database no job ever completes.
- `claim_gone_is_silent` — a disconnect during `subscribe-metrics` leaves a timer
  nobody clears.

Further disagreements met while modelling, recorded here and as hazards:
queued orders reserve no stock although `README.md:263` says so; a throw inside
placeOrder's critical section leaves the lock to its TTL although `README.md:49`
speaks of automatic release, and a fractional quantity, which `create-order.dto.ts`
accepts and the column refuses, makes it do so with no fault at all
(`LeftOnlyByRefusedRow`); a rejected call counts twice as failed
(`orders.service.ts:158`); the inventory gauge ends stale because placeOrder
publishes its first reading last (`docs/monitoring.md:26`); a job redelivered
after its COMMIT sells its order again; nothing records 'success', so the error
rate is 0 or 100; a second overlapping `subscribe-metrics` leaks a timer and an
overtaking `unsubscribe-metrics` is lost; `queue_length` already contains the
active jobs that getMetrics adds to it; `active_connections` is there only in a
second in which a socket came or went, and reported as 0 in all others; a call
whose attempts overlap another's may be refused by keys of its own earlier
attempts, although the nodes are free by then; a node that restarts without its
keys lets two holders in, although `README.md:47` counts the failure of one node
as handled; a job that waits for its next attempt has
position 0, which `orders.service.ts:211` takes for completed or not found;
nothing calls `recordOrderLatency`, so every latency of the benchmark report is 0.

## 4. Proofs

Seven modules hold proofs: `OrderFlowProofs`, `OrderReadsProofs`,
`LockServiceProofs`, `RedlockProofs`, `GatewayProofs`, `GaugesProofs`,
`MetricsProofs`. Every safety property that a passing run checks is the conclusion
of a theorem.

`OrderFlowProofs` proves, for any sets of calls, workers and products, any stock,
quantities, attempts and faults (under `SaleAssumption`: quantities, rounded up, and
administrators' stocks are positive, rows are storable or not, initial stock is
natural, calls and workers differ, `None` is no value of anything):

| Theorem | Establishes |
|---|---|
| `TypeCorrect` | `TypeOK`, and a worker has a job exactly when it is not idle |
| `StockSafe` | `StockInv`, under all faults |
| `NeverOversold` | `NoOversell`: committed stock is never negative |
| `ConfirmationsBacked` | `ConfirmedIsDebited` |
| `QueueSafe` | `QueueInv`: jobs, their owners and their sales agree |
| `SoldOnlyOnce` | `AtMostOneDebit`, without crash, pause or lost COMMIT answer |
| `Refinement` | `AtomicSale`: OrderFlow implements FlashSale |
| `NoUnitSoldTwice` | `ConfirmedAreCovered`: the confirmed units and the stock left are covered by what the sale began with, under all faults, while no administrator writes the stock |
| `LockExcludes` | `MutualExclusion`, without pauses |
| `RunsSellOnce` | `OneDebitPerRun`: an order is debited at most once more than its job failed or stalled, under all faults |
| `OnlyRefusalsLeaveLocks` | `LeftOnlyByRefusedRow`, unless "db", "commit", "lock" or "crash" may happen (`LeakFaults`) |
| `LocksKeepPromise` | `LocksServe`: the lock of each product implements LockService, under all faults |
| `FlowSafe` | `IInv`, the whole inductive invariant |
| `FailuresKeepNothing` | `FailedKeepsNoStock` |
| `Admission` | `AdmittedWithStock`, without pauses and administrators |
| `NoOrderLost` | `NoSilentOrphan`, under all faults |

`OrderReadsProofs`, for the same constants, with the reader:

| Theorem | Establishes |
|---|---|
| `ReadsKeepFlow` | OrderReads is OrderFlow with a reader: all of the above holds beside it |
| `ReadsInvariant` | `ReadsInv`, the inductive invariant, without faults |
| `ZeroPosition` | `ZeroMeansCompleted` |
| `PositionIsHonest` | `NeverTooOptimistic` |
| `CountedOnce` | `CountedTwiceOnlyIfSaved` |

The three properties speak of runs without faults. Their theorems suppose besides
that the enum has the label 'processing': with the schema of the migration every
job is delayed after its first attempt, fault or not, and a delayed job has
position 0.

`LockServiceProofs`, for any askers:

| Theorem | Establishes |
|---|---|
| `PromiseExcludes` | one lease at a time, which everybody who relies on the lock has, and so `OneRelies`, as far as nobody overruns and nothing is forgotten |

`RedlockProofs`, for any number of calls, nodes and attempts and any flaky and
volatile nodes (`RedlockAssumption`: the nodes are finitely many):

| Theorem | Establishes |
|---|---|
| `RedlockInvariant` | `RedlockInv`, the inductive invariant |
| `AtMostOneLease` | `OneLease`: two leases need a common voter that lost its keys |
| `MinorityTolerated` | `LoneCallGranted`: a lone call is not refused for a flaky minority |
| `NodesLeftClean` | `NothingLeftBehind` |
| `OneAlwaysWins` | `OneOfTwoWins`: of two calls that no third ever joined one gets the lock, while no script fails |
| `NodesKeepPromise` | `NodesServe`: RedlockNodes implements LockService |

`GatewayProofs`, for any sockets, hasty or unlucky:

| Theorem | Establishes |
|---|---|
| `GatewayCorrect` | `GatewayInv`, the inductive invariant of the timers |
| `TicksKeepTimers` | GatewayTicks implements MonitoringGateway |
| `AtMostOneStream`, `StoppedIsSilent`, `SubscribersAreServed` | `OneStream`, `StopMeansStop`, `SubscribedIsServed` of the gateway with its ticks |

`GaugesProofs`, for any sockets and any counts of jobs:

| Theorem | Establishes |
|---|---|
| `GaugesInvariant` | `TicksInv`, the inductive invariant of the commands on their way |
| `GaugesOfOneCount` | `GaugesAgree` |
| `ReportsAreCurrent` | `ConnectionsAreCurrent` |

`MetricsProofs`, for any products, levels, list length and clock and any finite
set of recordings, whichever fail (`MetricsAssumption`; finiteness is what the
count of the trims that are due needs):

| Theorem | Establishes |
|---|---|
| `MetricsInvariant` | `MetricsInv`, the inductive invariant |
| `ListsKeepTheNewest` | `NewestKept` |
| `NoKeyForEver` | `EveryKeyExpires` |
| `ClearedIsForgotten` | `ClearForgets` |
| `ReportsAreComplete` | `ReportIsComplete` |

The argument. *Stock.* `NoOversell` is not inductive: a COMMIT publishes `wval`, so
one must know that an open decrement equals the committed stock less the quantity
and is not negative (`DecrementInv`). That in turn survives another worker's COMMIT
only because two open decrements are never of one product (`ProductRowInv`, the row
lock of the UPDATE), survives an administrator because UPDATE waits for that row and
a product to be created has stock 0 (`AbsentInv`), and survives nothing else because
nothing else writes the stock. None of it mentions the product lock, which is why it
holds when the lock does not. `ConfirmInv` carries the result of the reservation to
the confirmation. *Single sale.* A sold job is completed, or active in the hands of
a worker that has only the unlock and the return before it (`SoldInv`), and jobs and
workers point at each other (`OwnerInv`, `ActiveInv`); a call adds its job once
(`UnqueuedInv`). So no retry follows a sale. *Refinement.* The abstract `cart`,
`stock` and `debits` are the concrete ones; the only steps that change them are
`Commit` with a decrement (a `Sell`, whose guards are `DecrementInv` and `SoldInv`)
and the administrator's (a `Restock`). *Supply.* Because of that, the units sold
(`SoldUnits`, pairs of an order and a number, so that they can be counted without a
sum) grow by what the stock shrinks by (`SaleBalances`), and those of CONFIRMED
orders are among them (`ConfirmedAreSold`). *Resales.* Crashes, pauses and lost
answers do sell an order again. What bounds it is `RunsInv`: the debits of an order
and the runs of its job that may still make one (`Running`) are together no more
than the runs there were (`Runs`); a fetch adds one to both sides, and a commit
turns a run into a debit. That a run may not commit twice is its control flow, that
the queue counts every run but the last is what the actions of OrderQueue do.
*Lock.* Whoever is between acquire and release holds the lock (`LockInv`);
`LockKept` says the same of all steps of both handlers: only a free lock is taken,
only its holder gives it back, on the way out. That a lock is left behind only by a
refused row needs the converse, that whoever holds it is inside or threw at that
save (`MayHold`, `ReturnStep`), and the absence of the faults that skip or undo a
release; a failing metric or queue and a holder that is too slow do no harm.
`ServedStep` sorts the steps of a handler by what they are to the lock, and
`ServedIsPromised` finds the step of LockService for each. *Admission* needs all of
it: while a call is about to insert (`SavingInv`), a COMMIT on its product would be
a second process in the critical section. *Failed orders.* An order is failed by a
worker whose job was not sold, and declined with no open decrement (`DeclineInv`).

*Orders.* How far a call has come says whether its row and its job are there
(`CallInv`), and no worker has a job that was not added, so none invents one.
*Reads.* Without faults a job runs once, so that the line is the waiting jobs, each
once (`LineInv`), and a job only moves forward: what the reader saw bounds where the
order is now (`PlaceInv`). Cardinalities carry the second read: a job that left the
line before it is active or done by then. What a column has counted is an outcome
that a concluded job committed, and only the second save of the order's own call
touches it afterwards (`ColumnsInv`).

*Nodes.* `OneLease` is not inductive: `VotesBacked` says that a vote of a running
lease still has its key unless its node restarted, and that a lock has a majority
of votes; two majorities meet (`QuorumsMeet`, by cardinality), and one key has one
value. That no release of the holder deletes a backing key is `ReleasesLast`, which
also gives `NothingLeftBehind`: the release of a node stands behind every acquire
sent to it. `FirstTry` says that the first script finds no key of its own, so that
only flaky nodes vote against a lone call, and these are no majority
(`LoneIsNotDenied`). Of two calls in their first attempt a node that denies one has
voted for the other, so a majority against the one is a majority for the other,
which no later answer can take away (`DuelInv`); of failing scripts nothing of the
kind can be said, and `OneOfTwoWins` excludes them. `OneLease` is also what makes
`NodesServe` true at the moment a lease is granted; all else the nodes do is a
stutter or the end of a TTL to the callers.

*Gateway.* A patient socket that awaits has no timer. *Gauges.* What is on its way
to Redis is answered in the order in which it was sent: the last active_jobs on its
way belongs to the queue_length recorded last (`LengthIsAhead`), and before each get
the line leaves the number of connections it was sent at (`SizesInOrder`). Both are
facts about the prefixes of a sequence; `DropFirst` and `AddLast` say how they
survive the removal of its head and a new last element.
*Metrics.* A push makes the list one longer and its recording one of those in
`Untrimmed`; a trim takes the recording out and cuts the list, and a failed trim
stays in, since a recording fails once (`FailureInv`). An increment creates a key
while the TTL for just that key is due, which no delete in between undoes. What a
clear has not listed was recorded after it began (`ClearInv`), and a level that is
still to be read is there or was noted as missed (`ReportInv`).

TLC checks `IInv` as an invariant of three runs, the refinements of FlashSale in two
and of LockService in two, and `RedlockInv` in `redlock`; `RunsInv`, `DuelInv`,
`TicksInv` and `ReadsInv`, which live in the modules of their proofs, were checked on
the instances of `orderflow_live` and `orderflow_pauses`, `redlock`, `gateway` and
`order_reads` before they were proved.

Only model-checked: liveness (`JobsSettle`, `LockFreed`, `HandlersReturn`,
`UpdatesKeepComing`), since fairness and ENABLED are beyond the prover, and the
five disagreements, which are counterexamples.

## 5. Not modelled

Not modelled: the formatting of Prometheus output, logging, validation and
throttling by the framework, the seed and load-test scripts; `extendLock`,
`withLock`, `releaseInventory`, `broadcastMetrics`, `recordThroughput`,
`recordOrderLatency` and the legacy lock of RedisClientProvider have no caller;
`expiresAt` is written and never read. The averages, rates and percentiles of
getMetrics and of the benchmark report are arithmetic on one reading, without state
or interleaving, and are left to unit tests.

ProductLock and RedlockNodes are two models of one lock, and both implement
LockService (`LocksServe`, `NodesServe`; checked and proved): whatever the handlers
do and whatever the nodes do, a lease is granted only while there is no other and
ends by its holder or by its TTL. What remains an argument is the other direction,
that `LockRefused` allows every refusal the nodes can produce: the key is taken, an
asker's keys or scripts are on the nodes, or nodes fail, which are the disjuncts
of `LockRefused`. A node that forgets its keys (`forgot`) is, for the order flow, the
fault "slow": a holder loses its lock without noticing.
