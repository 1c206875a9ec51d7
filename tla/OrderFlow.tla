------------------------------ MODULE OrderFlow ------------------------------
(***************************************************************************)
(* The life of orders: placeOrder calls, queue workers, the queue, the     *)
(* product locks and administrators, interleaved, with the faults that the *)
(* constant Faults allows.                                                 *)
(***************************************************************************)
EXTENDS OrderProcessor, FiniteSets

Init ==
    /\ cart \in [Requests -> Carts]
    /\ sale \in [Products -> SaleStates]
    /\ stock \in [Products -> InitialStock \cup {0}]
    /\ \A p \in Products : stock[p] \in (IF sale[p] = "absent" THEN {0}
                                                       ELSE InitialStock)
    /\ status = [o \in Requests |-> "none"]
    /\ debits = [o \in Requests |-> 0]
    /\ lock = [p \in Products |-> None]
    /\ job = [o \in Requests |-> "none"]
    /\ owner = [o \in Requests |-> None]
    /\ tries = [o \in Requests |-> 0]
    /\ stalls = [o \in Requests |-> 0]
    /\ gauge = [p \in Products |-> None]
    /\ tally = [r \in Requests |-> 0]
    /\ pc = [r \in Requests |-> "idle"]
    /\ read = [r \in Requests |-> None]
    /\ seen = [r \in Requests |-> "none"]
    /\ wpc = [w \in Workers |-> "idle"]
    /\ wjob = [w \in Workers |-> None]
    /\ wval = [w \in Workers |-> None]

\* An administrator's partial update may leave the stock out.
Administer(p) ==
    \E active \in {"off", "on"} :
        \/ \E s \in AdminStock : CreateProduct(p, s, active)
        \/ /\ AdminStock # {}
           /\ \E s \in AdminStock \cup {None} : UpdateProduct(p, s, active)

\* Nothing is left to do: every call has returned, every job has settled.
Quiet ==
    /\ \A r \in Requests : /\ pc[r] \in Finished
                           /\ job[r] \in {"none", "completed", "failed"}
    /\ \A w \in Workers : wpc[w] = "idle"
    /\ \A p \in Products : lock[p] = None

Terminated == Quiet /\ UNCHANGED vars

Next ==
    \/ \E r \in Requests : PlaceOrder(r)
    \/ \E r \in Requests : CrashRequest(r)
    \/ \E w \in Workers, o \in Requests : TakeJob(w, o)
    \/ \E w \in Workers : Process(w)
    \/ \E w \in Workers : CrashWorker(w)
    \/ \E o \in Requests : Promote(o)
    \/ \E o \in Requests : RecoverStalled(o)
    \/ \E p \in Products : Expire(p)
    \/ \E p \in Products : Administer(p)
    \/ Terminated

Spec == Init /\ [][Next]_vars

(***************************************************************************)
(* A call that has begun runs on, a worker fetches jobs and works on them, *)
(* the queue's timers and the TTLs of the locks run out. Clients,          *)
(* administrators and crashes are free to never act.                       *)
(***************************************************************************)
Fairness ==
    /\ \A r \in Requests : WF_vars(pc[r] # "idle" /\ PlaceOrder(r))
    /\ \A w \in Workers : /\ WF_vars(\E o \in Requests : TakeJob(w, o))
                          /\ WF_vars(Process(w))
    /\ \A o \in Requests : WF_vars(Promote(o)) /\ WF_vars(RecoverStalled(o))
    /\ \A p \in Products : WF_vars(Expire(p))

FairSpec == Spec /\ Fairness
------------------------------------------------------------------------------
\* Every variable keeps to the values the tables, the queue, the metrics and
\* the two handlers can hold.
TypeOK ==
    /\ cart \in [Requests -> Carts]
    /\ stock \in [Products -> Int]
    /\ sale \in [Products -> SaleStates]
    /\ status \in [Requests -> Statuses]
    /\ debits \in [Requests -> Nat]
    /\ lock \in [Products -> Processes \cup {None}]
    /\ job \in [Requests -> JobStates]
    /\ owner \in [Requests -> Workers \cup {None}]
    /\ tries \in [Requests -> Nat]
    /\ stalls \in [Requests -> Nat]
    /\ gauge \in [Products -> Int \cup {None}]
    /\ tally \in [Requests -> Nat]
    /\ pc \in [Requests -> RequestPCs]
    /\ read \in [Requests -> Int \cup {None}]
    /\ seen \in [Requests -> Statuses]
    /\ wpc \in [Workers -> WorkerPCs]
    /\ wjob \in [Workers -> Requests \cup {None}]
    /\ wval \in [Workers -> Int \cup {None}]

\* No overselling (README.md:457): the committed stock is never negative,
\* whatever fails: the conditional decrement decides, not the lock.
NoOversell == \A p \in Products : stock[p] >= 0

\* No order is CONFIRMED unless a committed transaction took its units.
ConfirmedIsDebited ==
    \A o \in Requests : status[o] = "confirmed" => debits[o] >= 1

\* The units that the CONFIRMED orders of p are promised.
ConfirmedUnits(p) ==
    UNION {{o} \X (1..QuantityOf(o)) :
               o \in {r \in Requests : ProductOf(r) = p /\ status[r] = "confirmed"}}

\* No overselling, as the customers see it: the confirmed orders of a product
\* and what is left of it never exceed what the sale began with, however often
\* locks run out and jobs are run again, as long as nobody adds stock.
ConfirmedAreCovered ==
    AdminStock = {} =>
        \A p \in Products : \E s \in InitialStock \cup {0} :
            stock[p] \in 0..(s - Cardinality(ConfirmedUnits(p)))

\* Two processes are never both between acquireLock and releaseLock of one
\* product, as long as none of them outlives the TTL of its lock.
MutualExclusion ==
    Fault("slow") \/ \A p \in Products, g, h \in Processes :
                         Critical(g, p) /\ Critical(h, p) => g = h

\* A lock is held only by a process that is between acquire and release, or
\* was left to its TTL by a call whose order the table refused, which no fault
\* is needed for: without faults, no other path through either handler leaves
\* a lock behind.
LeftOnlyByRefusedRow ==
    \A p \in Products :
        lock[p] # None =>
            \/ Critical(lock[p], p)
            \/ /\ lock[p] \in Requests /\ ~cart[lock[p]].storable
               /\ pc[lock[p]] = "errored"

\* The faults under which a job can be run again after its commit.
RepeatFaults == {"crash", "slow", "commit"}

\* Whatever fails, pauses or is delivered again, one run of a job takes units
\* once: only a failed attempt or a stall, which the queue counts and bounds,
\* makes room for another debit of the same order.
OneDebitPerRun ==
    \A o \in Requests : debits[o] <= tries[o] + stalls[o] + 1

\* A job is retried and redelivered, but debits its product once: of its
\* attempts at most one commits the decrement.
AtMostOneDebit ==
    Faults \cap RepeatFaults # {} \/ \A o \in Requests : debits[o] <= 1

\* An order ends FAILED only if none of its attempts kept stock: the decrement
\* is rolled back on every failing path that leaves the metrics intact.
FailedKeepsNoStock ==
    \/ Faults \cap (RepeatFaults \cup {"metrics"}) # {}
    \/ \A o \in Requests : status[o] = "failed" => debits[o] = 0

\* An order row appears only while the committed stock still covers it: the
\* recheck and the insert are under the lock under which workers decrement.
AdmittedWithStock ==
    [][\A r \in Requests :
          status[r] = "none" /\ status'[r] = "pending"
              => Covers(ProductOf(r), QuantityOf(r))]_vars

\* No order is silently lost or made, whatever fails: an accepted call has its
\* order and its job, a rejected one has neither; only a call that told its
\* caller of an error may leave an order without a job.
NoSilentOrphan ==
    \A r \in Requests :
        /\ pc[r] = "accepted" => status[r] # "none" /\ job[r] # "none"
        /\ pc[r] = "rejected" => status[r] = "none" /\ job[r] = "none"

\* The concurrent, failing system changes the stock only by atomic sales, and
\* sells an order twice only under the faults that make a job run again.
Sale == INSTANCE FlashSale WITH Resell <- Faults \cap RepeatFaults # {}
AtomicSale == Sale!SaleSpec

\* The lock of each product keeps the promise of RedlockService, whatever the
\* handlers do with it, fail at or die of.
LockOf(p) == INSTANCE LockService WITH
                 Askers  <- Processes,
                 Overrun <- Fault("slow"),
                 asking  <- {h \in Processes : Acquiring(h, p)},
                 relying <- {h \in Processes : Critical(h, p)},
                 leases  <- {lock[p]} \ {None},
                 forgot  <- FALSE
LocksServe ==
    /\ \A p \in Products : LockOf(p)!ServiceInit
    /\ [][\A p \in Products :
              UNCHANGED LockOf(p)!serviceVars \/ LockOf(p)!ServiceNext]_vars
------------------------------------------------------------------------------
\* A worker has a job exactly when it is not idle.
WorkerInv == \A w \in Workers : wpc[w] = "idle" <=> wjob[w] = None

\* An open decrement belongs to a transaction that has not ended, and is the
\* committed stock less the quantity ordered, which it covers.
DecrementInv ==
    \A w \in Workers :
        wval[w] # None =>
            /\ wpc[w] \in {"recording", "confirming", "declining", "rollingBack"}
            /\ wval[w] = stock[ProductOf(wjob[w])] - QuantityOf(wjob[w])
            /\ wval[w] >= 0

\* One transaction at a time has an open decrement of a product.
ProductRowInv ==
    \A v, w \in Workers :
        wval[v] # None /\ HoldsProductRow(w, ProductOf(wjob[v])) => v = w

\* Only a transaction with a decrement goes on to confirm the order.
ConfirmInv == \A w \in Workers : wpc[w] = "confirming" => wval[w] # None

\* A product without a row has no stock.
AbsentInv == \A p \in Products : sale[p] = "absent" => stock[p] = 0

\* The inductive invariant behind NoOversell, ConfirmedIsDebited and
\* AtomicSale, which holds under all faults.
StockInv ==
    /\ TypeOK
    /\ WorkerInv
    /\ DecrementInv
    /\ ProductRowInv
    /\ ConfirmInv
    /\ AbsentInv
    /\ NoOversell
    /\ ConfirmedIsDebited

\* Who runs inside a critical section holds the lock.
LockInv ==
    Fault("slow") \/ \A p \in Products, h \in Processes :
                         Critical(h, p) => lock[p] = h

\* A call about to insert its order still finds the stock it rechecked.
SavingInv ==
    \/ Fault("slow")
    \/ AdminStock # {}
    \/ \A r \in Requests :
           pc[r] = "saving" => Covers(ProductOf(r), QuantityOf(r))

\* A call that has inserted its order and goes on finds the row again.
SavedInv ==
    \A r \in Requests :
        pc[r] \in {"unlocking", "enqueuing", "rereading", "resaving"}
            => status[r] # "none"

\* A job is not in the queue before its call adds it.
UnqueuedPCs == {"idle", "locking", "enqueuing"} \cup RequestLock
UnqueuedInv == \A r \in Requests : pc[r] \in UnqueuedPCs => job[r] = "none"

\* How far a call has come tells whether its order and its job are there, and
\* a worker only ever has a job that was added.
UnsavedPCs == {"idle", "locking", "checking", "denying", "saving", "rejected"}
QueuedPCs  == {"rereading", "resaving", "responding", "accepted"}
CallInv ==
    /\ \A r \in Requests :
           /\ pc[r] \in UnsavedPCs => status[r] = "none" /\ job[r] = "none"
           /\ pc[r] \in QueuedPCs => status[r] # "none" /\ job[r] # "none"
    /\ \A w \in Workers : wjob[w] # None => job[wjob[w]] # "none"

\* Exactly the active jobs have an owner.
ActiveInv == \A o \in Requests : job[o] = "active" <=> owner[o] # None

\* A job in the hands of a worker is active and its own, and the other way
\* round; one that was sold is completed, or about to be.
OwnerInv ==
    \/ Faults \cap RepeatFaults # {}
    \/ /\ \A w \in Workers : wjob[w] # None => /\ job[wjob[w]] = "active"
                                              /\ owner[wjob[w]] = w
       /\ \A o \in Requests : job[o] = "active" => /\ owner[o] \in Workers
                                                   /\ wjob[owner[o]] = o
SoldInv ==
    \/ Faults \cap RepeatFaults # {}
    \/ \A o \in Requests :
           debits[o] > 0 =>
               /\ debits[o] = 1
               /\ \/ job[o] = "completed"
                  \/ /\ job[o] = "active"
                     /\ wpc[owner[o]] \in {"unlocking", "finishing"}

\* Without a metrics fault, the order is declined only if nothing was taken.
DeclineInv ==
    \/ Fault("metrics")
    \/ \A w \in Workers : wpc[w] = "declining" => wval[w] = None

\* The inductive invariant of the whole specification.
IInv ==
    /\ StockInv
    /\ LockInv
    /\ SavingInv
    /\ SavedInv
    /\ UnqueuedInv
    /\ CallInv
    /\ ActiveInv
    /\ OwnerInv
    /\ SoldInv
    /\ DeclineInv
    /\ FailedKeepsNoStock
------------------------------------------------------------------------------
\* Every queued job settles: attempts and stalls are bounded, and no worker
\* waits for a lock or a row for ever.
JobsSettle ==
    \A o \in Requests : job[o] = "waiting" ~> job[o] \in {"completed", "failed"}

\* A product lock that a throw or a crash left behind is free again.
LockFreed == \A p \in Products : lock[p] # None ~> lock[p] = None

\* A placeOrder call that has begun returns or throws.
HandlersReturn ==
    \A r \in Requests : pc[r] = "locking" ~> pc[r] \in Finished
==============================================================================
