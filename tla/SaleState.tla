------------------------------ MODULE SaleState ------------------------------
(***************************************************************************)
(* The state of the flash-sale backend that its services share: the two    *)
(* PostgreSQL tables, the per-product Redlock key, the order-processing    *)
(* queue, the metrics kept in Redis, and the control state of the two      *)
(* kinds of process that run concurrently, placeOrder calls and queue      *)
(* workers.                                                                *)
(*                                                                         *)
(* A placeOrder call inserts at most one order row and adds at most one    *)
(* job, so the call, its order and its job carry one identity: an element  *)
(* of Requests.                                                            *)
(***************************************************************************)
EXTENDS Integers

CONSTANTS
    Requests,      \* placeOrder calls, each with the order and job it creates
    Workers,       \* BullMQ workers, each running OrderProcessor.process
    Products,      \* product ids a request may name
    Quantities,    \* quantities a request may ask for, rounded up
    Storable,      \* whether the orders table may take a request's row
    InitialStock,  \* values of current_stock the tables may start with
    AdminStock,    \* values an administrator may write ({}: no admin calls)
    StatusColumn,  \* labels the enum type of orders.status accepts
    MaxAttempts,   \* attempts of a job (3 in placeOrder)
    MaxStalls,     \* stalls a job survives (BullMQ's default is 1)
    Faults,        \* what the environment may do wrong
    None           \* no value: no lock holder, no job, a null

(***************************************************************************)
(* "db"       a statement or a connection to PostgreSQL fails              *)
(* "commit"   a COMMIT or an INSERT is applied but reported as failed      *)
(* "lock"     the Redlock nodes fail an acquire or a release               *)
(* "queue"    Queue.add fails, before or after the job is stored           *)
(* "metrics"  a write of MetricsService fails                              *)
(* "crash"    the process running a call or a worker dies                  *)
(* "slow"     a process pauses beyond the TTL of its product lock or of    *)
(*            its job lock, and then goes on                               *)
(***************************************************************************)
FaultKinds == {"db", "commit", "lock", "queue", "metrics", "crash", "slow"}

ASSUME SaleAssumption ==
    /\ Quantities \subseteq Nat \ {0}
    /\ Storable \subseteq BOOLEAN
    /\ InitialStock \subseteq Nat
    /\ AdminStock \subseteq Nat \ {0}
    /\ MaxAttempts \in Nat \ {0}
    /\ MaxStalls \in Nat
    /\ Faults \subseteq FaultKinds
    /\ Requests \cap Workers = {}
    /\ None \notin Int \cup Requests \cup Workers

\* A request names a product and the quantity it wants. The DTO lets pass what
\* the columns of orders refuse, a fraction or a userId that is too long: such
\* a row is not storable. Stock is whole, so a fraction compares with it as the
\* next whole number does.
Carts == [product : Products, quantity : Quantities, storable : Storable]

SaleStates == {"absent", "off", "on"}

\* OrderStatus as readers can see it, and "none" for a row not inserted.
\* PROCESSING is only ever written inside a transaction that replaces it.
Statuses == {"none", "pending", "confirmed", "failed"}

JobStates == {"none", "waiting", "active", "delayed", "completed", "failed"}

VARIABLES
    stock,     \* products.current_stock, as committed
    sale,      \* no row, or products.flash_sale_active
    status,    \* orders.status, as committed
    lock,      \* holder of lock:product:<id>
    job,       \* state of the job
    owner,     \* worker holding the BullMQ lock of an active job
    tries,     \* attempts of the job that ended in an exception
    stalls,    \* times the job was taken from a worker that went silent
    gauge,     \* flash_sale_metrics:inventory:<id>
    tally,     \* increments of order_status:failed made by a request
    cart,      \* what each request asks for
    pc,        \* where a placeOrder call is
    read,      \* product.currentStock of the call's first read
    seen,      \* status the second save of the order compared itself with
    wpc,       \* where a worker is
    wjob,      \* the job a worker processes
    wval,      \* current_stock written by the worker's open transaction
    debits     \* history: committed stock debits made for an order

tableVars   == <<stock, sale, status, debits>>
queueVars   == <<job, owner, tries, stalls>>
metricVars  == <<gauge, tally>>
requestVars == <<pc, read, seen>>
workerVars  == <<wpc, wjob, wval>>
vars == <<tableVars, queueVars, metricVars, requestVars, workerVars, lock, cart>>

Fault(kind) == kind \in Faults

ProductOf(o)  == cart[o].product
QuantityOf(o) == cart[o].quantity

\* Control points of placeOrder, in the order the code reaches them.
Finished    == {"accepted", "rejected", "errored"}
RequestLock == {"checking", "denying", "saving", "unlocking"}
RequestPCs  == {"idle", "locking", "enqueuing", "rereading", "resaving",
                "responding"} \cup RequestLock \cup Finished

\* Control points of process(job); InTx are those of an open transaction.
InTx       == {"reserving", "recording", "confirming", "declining",
               "rollingBack"}
WorkerLock == InTx \cup {"starting", "marking", "unlocking", "markingFailed",
                         "unlockingFailed"}
WorkerPCs  == WorkerLock \cup {"idle", "locking", "givingUp", "finishing",
                               "throwing"}

RequestGoes(r, from, to) == pc[r] = from /\ pc' = [pc EXCEPT ![r] = to]
WorkerGoes(w, from, to)  == wpc[w] = from /\ wpc' = [wpc EXCEPT ![w] = to]

\* Process h runs code that believes it holds the lock of product p.
Critical(h, p) ==
    \/ h \in Requests /\ pc[h] \in RequestLock /\ ProductOf(h) = p
    \/ h \in Workers /\ wpc[h] \in WorkerLock /\ ProductOf(wjob[h]) = p

\* Row locks of PostgreSQL, held until the transaction ends.
HoldsOrderRow(w, o)   == wpc[w] \in InTx /\ wjob[w] = o
HoldsProductRow(w, p) == wval[w] # None /\ ProductOf(wjob[w]) = p
OrderRowFree(o)   == \A w \in Workers : ~HoldsOrderRow(w, o)
ProductRowFree(p) == \A w \in Workers : ~HoldsProductRow(w, p)
==============================================================================
