--------------------------- MODULE OrderFlowProofs ---------------------------
(***************************************************************************)
(* Proofs about OrderFlow, for any sets of calls, workers and products.    *)
(***************************************************************************)
EXTENDS OrderFlow, FiniteSetTheorems, TLAPS

\* What a request names is a product, and it asks for at least one unit.
LEMMA CartTypes ==
    ASSUME TypeOK, NEW o \in Requests
    PROVE  ProductOf(o) \in Products /\ QuantityOf(o) \in Nat \ {0}
BY SaleAssumption DEF TypeOK, Carts, ProductOf, QuantityOf

\* The counts that the catch block of placeOrder adds are numbers.
LEMMA TallyTypes ==
    ASSUME TypeOK, NEW r \in Requests, NEW from, Reject(r, from) \/ Fail(r, from)
    PROVE  /\ tally' \in [Requests -> Nat]
           /\ pc' \in [Requests -> RequestPCs]
BY DEF Reject, Fail, RequestGoes, TypeOK, RequestPCs, Finished

\* The steps of a placeOrder call keep the types, and the workers as they are.
LEMMA RequestTypes ==
    ASSUME TypeOK, WorkerInv,
           NEW r \in Requests, PlaceOrder(r) \/ CrashRequest(r)
    PROVE  TypeOK' /\ WorkerInv'
<1>0. ProductOf(r) \in Products
  BY CartTypes
<1> USE DEF TypeOK, WorkerInv, tableVars, queueVars, metricVars, workerVars,
            RequestGoes, RequestPCs, RequestLock
<1>1. CASE ReadProduct(r)
  BY <1>0, <1>1, TallyTypes DEF ReadProduct
<1>2. CASE AcquireLock(r)
  BY <1>0, <1>2, TallyTypes DEF AcquireLock, TakeLock, LockRefused, Processes
<1>3. CASE RecheckStock(r)
  BY <1>3, TallyTypes DEF RecheckStock
<1>4. CASE Deny(r)
  BY <1>4, TallyTypes DEF Deny, DropLock
<1>5. CASE SaveOrder(r)
  BY <1>5, TallyTypes DEF SaveOrder, Statuses
<1>6. CASE Unlock(r)
  BY <1>6 DEF Unlock, DropLock
<1>7. CASE Enqueue(r)
  BY <1>7, TallyTypes DEF Enqueue, JobStates
<1>8. CASE Reread(r)
  BY <1>8, TallyTypes DEF Reread
<1>9. CASE Resave(r)
  BY <1>9, TallyTypes DEF Resave, Statuses
<1>10. CASE Respond(r)
  BY <1>0, <1>10, TallyTypes DEF Respond, Finished
<1>11. CASE CrashRequest(r)
  BY <1>11 DEF CrashRequest, Finished
<1> QED
  BY <1>1, <1>2, <1>3, <1>4, <1>5, <1>6, <1>7, <1>8, <1>9, <1>10, <1>11
  DEF PlaceOrder

\* A worker that is not idle works on a job, whose order names a product.
LEMMA JobTypes ==
    ASSUME TypeOK, WorkerInv, NEW w \in Workers, wpc[w] # "idle"
    PROVE  /\ wjob[w] \in Requests
           /\ ProductOf(wjob[w]) \in Products
           /\ QuantityOf(wjob[w]) \in Nat \ {0}
BY CartTypes DEF TypeOK, WorkerInv

\* The steps of process(job) and of a dying worker keep the types, and leave
\* a job with every worker that is not idle.
LEMMA WorkerTypes ==
    ASSUME TypeOK, WorkerInv,
           NEW w \in Workers, Process(w) \/ CrashWorker(w)
    PROVE  TypeOK' /\ WorkerInv'
<1>0. wpc[w] # "idle" => /\ wjob[w] \in Requests
                         /\ ProductOf(wjob[w]) \in Products
                         /\ QuantityOf(wjob[w]) \in Nat \ {0}
  BY JobTypes
<1> USE SaleAssumption
    DEF TypeOK, WorkerInv, tableVars, queueVars, metricVars, requestVars,
        WorkerGoes, WorkerPCs, WorkerLock, InTx
<1>1. CASE AcquireInWorker(w)
  BY <1>0, <1>1 DEF AcquireInWorker, TakeLock, LockRefused, Processes
<1>2. CASE GiveUp(w) \/ MarkFailed(w)
  BY <1>0, <1>2 DEF GiveUp, MarkFailed, SetFailed, Statuses
<1>3. CASE Begin(w)
  BY <1>3 DEF Begin
<1>4. CASE MarkProcessing(w)
  BY <1>4 DEF MarkProcessing
<1>5. CASE Reserve(w)
  BY <1>0, <1>5 DEF Reserve
<1>6. CASE RecordLevel(w)
  BY <1>0, <1>6 DEF RecordLevel
<1>7. CASE Confirm(w) \/ Decline(w)
  BY <1>0, <1>7 DEF Confirm, Decline, Conclude, Commit, Statuses
<1>8. CASE UnlockInWorker(w) \/ UnlockFailed(w)
  BY <1>0, <1>8 DEF UnlockInWorker, UnlockFailed, Release, DropLock
<1>9. CASE Rollback(w)
  BY <1>9 DEF Rollback
<1>10. CASE JobCompleted(w)
  BY <1>0, <1>10 DEF JobCompleted, JobStates
<1>11. CASE JobFailed(w)
  BY <1>0, <1>11 DEF JobFailed, JobStates
<1>12. CASE CrashWorker(w)
  BY <1>12 DEF CrashWorker
<1> QED
  BY <1>1, <1>2, <1>3, <1>4, <1>5, <1>6, <1>7, <1>8, <1>9, <1>10, <1>11, <1>12
  DEF Process

\* So does every other step: of the queue, of a TTL, of an administrator.
LEMMA OtherTypes ==
    ASSUME TypeOK, WorkerInv,
           \/ \E w \in Workers, o \in Requests : TakeJob(w, o)
           \/ \E o \in Requests : Promote(o) \/ RecoverStalled(o)
           \/ \E p \in Products : Expire(p) \/ Administer(p)
           \/ UNCHANGED vars
    PROVE  TypeOK' /\ WorkerInv'
<1> USE SaleAssumption
    DEF TypeOK, WorkerInv, tableVars, queueVars, metricVars, requestVars,
        workerVars
<1>1. CASE \E w \in Workers, o \in Requests : TakeJob(w, o)
  BY <1>1 DEF TakeJob, WorkerGoes, WorkerPCs, JobStates
<1>2. CASE \E o \in Requests : Promote(o)
  BY <1>2 DEF Promote, JobStates
<1>3. CASE \E o \in Requests : RecoverStalled(o)
  BY <1>3 DEF RecoverStalled, JobStates
<1>4. CASE \E p \in Products : Expire(p)
  BY <1>4 DEF Expire
<1>5. CASE \E p \in Products : Administer(p)
  BY <1>5 DEF Administer, CreateProduct, UpdateProduct, SaleStates
<1>6. CASE UNCHANGED vars
  BY <1>6 DEF vars
<1> QED
  BY <1>1, <1>2, <1>3, <1>4, <1>5, <1>6

LEMMA TypeStep ==
    ASSUME TypeOK, WorkerInv, [Next]_vars
    PROVE  TypeOK' /\ WorkerInv'
BY RequestTypes, WorkerTypes, OtherTypes DEF Next, Terminated

LEMMA TypeInit ==
    ASSUME Init
    PROVE  TypeOK /\ WorkerInv
<1>1. stock \in [Products -> Int]
  <2>1. stock \in [Products -> InitialStock \cup {0}]
    BY DEF Init
  <2>2. InitialStock \cup {0} \subseteq Int
    BY SaleAssumption
  <2> QED
    BY <2>1, <2>2
<1>2. WorkerInv
  BY DEF Init, WorkerInv
<1>3. /\ sale \in [Products -> SaleStates]
      /\ cart \in [Requests -> Carts]
  BY DEF Init
<1> QED
  BY <1>1, <1>2, <1>3
  DEF Init, TypeOK, Statuses, JobStates, RequestPCs, WorkerPCs

\* Every variable stays within its type, and workers and jobs go together.
THEOREM TypeCorrect == Spec => [](TypeOK /\ WorkerInv)
<1>1. Init => TypeOK /\ WorkerInv
  BY TypeInit
<1>2. TypeOK /\ WorkerInv /\ [Next]_vars => (TypeOK /\ WorkerInv)'
  BY TypeStep
<1> QED
  BY <1>1, <1>2, PTL DEF Spec
------------------------------------------------------------------------------
\* A call touches neither the products nor a worker, and confirms no order.
LEMMA RequestFrame ==
    ASSUME TypeOK, NEW r \in Requests, PlaceOrder(r) \/ CrashRequest(r)
    PROVE  /\ UNCHANGED <<stock, sale, debits, wpc, wjob, wval, cart>>
           /\ \A o \in Requests : status'[o] # status[o] => status'[o] = "pending"
<1> USE DEF TypeOK, tableVars, workerVars
<1>1. CASE SaveOrder(r) \/ Resave(r)
  BY <1>1 DEF SaveOrder, Resave
<1>2. CASE ReadProduct(r) \/ AcquireLock(r) \/ RecheckStock(r) \/ Deny(r)
  BY <1>2 DEF ReadProduct, AcquireLock, RecheckStock, Deny
<1>3. CASE Unlock(r) \/ Enqueue(r) \/ Reread(r) \/ Respond(r)
  BY <1>3 DEF Unlock, Enqueue, Reread, Respond
<1>4. CASE CrashRequest(r)
  BY <1>4 DEF CrashRequest
<1> QED
  BY <1>1, <1>2, <1>3, <1>4 DEF PlaceOrder

\* The conjuncts of StockInv that are about more than types.
StockParts ==
    /\ DecrementInv /\ ProductRowInv /\ ConfirmInv /\ AbsentInv
    /\ NoOversell /\ ConfirmedIsDebited

\* A COMMIT publishes a decrement that the stock covers, and no other worker
\* has a decrement of that product open.
LEMMA CommitStock ==
    ASSUME StockInv, NEW w \in Workers, NEW outcome, Commit(w, outcome),
           wpc[w] \in {"confirming", "declining"},
           outcome = "confirmed" => wval[w] # None,
           NEW to \in {"unlocking", "throwing"}, wpc' = [wpc EXCEPT ![w] = to],
           UNCHANGED <<sale, wjob, cart>>
    PROVE  StockParts'
<1>0. /\ wjob[w] \in Requests
      /\ ProductOf(wjob[w]) \in Products
      /\ QuantityOf(wjob[w]) \in Nat \ {0}
  BY JobTypes DEF StockInv
<1> DEFINE p == ProductOf(wjob[w])
<1>1. /\ \A o : ProductOf(o)' = ProductOf(o) /\ QuantityOf(o)' = QuantityOf(o)
      /\ \A v \in Workers : v # w => wval'[v] = wval[v] /\ wpc'[v] = wpc[v]
      /\ wval'[w] = None
  BY DEF Commit, ProductOf, QuantityOf, StockInv, TypeOK
<1>2. \A r \in Products : r # p => stock'[r] = stock[r]
  BY DEF Commit, StockInv, TypeOK
<1>3. wval[w] # None => /\ stock'[p] = wval[w]
                        /\ wval[w] = stock[p] - QuantityOf(wjob[w])
                        /\ wval[w] >= 0
  BY <1>0 DEF Commit, StockInv, TypeOK, DecrementInv
<1>4. wval[w] = None => stock' = stock
  BY DEF Commit
<1>5. DecrementInv'
  <2> SUFFICES ASSUME NEW v \in Workers, v # w, wval[v] # None
               PROVE  stock'[ProductOf(wjob[v])] = stock[ProductOf(wjob[v])]
    BY <1>1 DEF DecrementInv, StockInv
  <2>1. wjob[v] \in Requests /\ ProductOf(wjob[v]) \in Products
    BY JobTypes DEF StockInv, DecrementInv
  <2>2. wval[w] # None => ProductOf(wjob[v]) # p
    BY DEF StockInv, ProductRowInv, HoldsProductRow
  <2> QED
    BY <1>2, <1>4, <2>1, <2>2
<1>6. ProductRowInv'
  BY <1>1 DEF StockInv, ProductRowInv, HoldsProductRow
<1>7. ConfirmInv'
  BY <1>1 DEF StockInv, ConfirmInv, TypeOK
<1>8. AbsentInv' /\ NoOversell'
  BY <1>0, <1>2, <1>3, <1>4 DEF StockInv, TypeOK, AbsentInv, NoOversell
<1>9. ConfirmedIsDebited'
  BY <1>0 DEF Commit, StockInv, TypeOK, ConfirmedIsDebited
<1> QED
  BY <1>5, <1>6, <1>7, <1>8, <1>9 DEF StockParts

\* Every step of process(job), and the death of its worker, keep StockParts.
LEMMA WorkerStock ==
    ASSUME StockInv, NEW w \in Workers, Process(w) \/ CrashWorker(w)
    PROVE  StockParts'
<1>0. wpc[w] # "idle" => /\ wjob[w] \in Requests
                         /\ ProductOf(wjob[w]) \in Products
                         /\ QuantityOf(wjob[w]) \in Nat \ {0}
  BY JobTypes DEF StockInv
<1>1. CASE Confirm(w) \/ Decline(w)
  <2>1. PICK from \in {"confirming", "declining"}, outcome \in Statuses :
            /\ Conclude(w, from, outcome)
            /\ outcome = "confirmed" => from = "confirming"
    <3>1. CASE Confirm(w)
      BY <3>1, Zenon DEF Confirm, Statuses
    <3>2. CASE Decline(w)
      BY <3>2, "failed" # "confirmed", Zenon DEF Decline, Statuses
    <3> QED
      BY <1>1, <3>1, <3>2
  <2>2. CASE /\ Commit(w, outcome)
             /\ \E to \in {"unlocking", "throwing"} : WorkerGoes(w, from, to)
    BY <2>1, <2>2, CommitStock
    DEF Conclude, WorkerGoes, StockInv, ConfirmInv
  <2>3. CASE WorkerGoes(w, from, "rollingBack")
             /\ UNCHANGED <<status, stock, debits, wval>>
    BY <2>1, <2>3 DEF Conclude, WorkerGoes, StockInv, StockParts, TypeOK,
       DecrementInv, ProductRowInv, ConfirmInv, AbsentInv, NoOversell,
       ConfirmedIsDebited, HoldsProductRow, ProductOf, QuantityOf
  <2> QED
    BY <2>1, <2>2, <2>3 DEF Conclude
<1>2. CASE Reserve(w)
  <2> USE <1>2 DEF Reserve, StockInv, TypeOK, tableVars
  <2>1. UNCHANGED <<stock, sale, status, debits, wjob, cart>>
    OBVIOUS
  <2>2. \A v \in Workers : v # w => wval'[v] = wval[v] /\ wpc'[v] = wpc[v]
    BY DEF WorkerGoes
  <2>3. wpc[w] = "reserving" /\ wval[w] = None
    BY DEF WorkerGoes, DecrementInv
  <2>4. wval'[w] # None =>
            /\ wpc'[w] = "recording"
            /\ wval'[w] = stock[ProductOf(wjob[w])] - QuantityOf(wjob[w])
            /\ wval'[w] >= 0
            /\ ProductRowFree(ProductOf(wjob[w]))
    BY <1>0, <2>3 DEF WorkerGoes, Covers
  <2>5. DecrementInv'
    BY <2>1, <2>2, <2>4 DEF DecrementInv, ProductOf, QuantityOf
  <2>6. ProductRowInv'
    BY <2>1, <2>2, <2>4
    DEF ProductRowInv, HoldsProductRow, ProductRowFree, ProductOf
  <2>7. ConfirmInv'
    BY <2>2 DEF WorkerGoes, ConfirmInv
  <2> QED
    BY <2>1, <2>5, <2>6, <2>7
    DEF StockParts, AbsentInv, NoOversell, ConfirmedIsDebited
<1>3. CASE JobCompleted(w) \/ JobFailed(w)
  <2> USE <1>3 DEF JobCompleted, JobFailed, StockInv, TypeOK, tableVars
  <2>1. UNCHANGED <<stock, sale, status, debits, wval, cart>>
    OBVIOUS
  <2>2. \A v \in Workers : v # w => wjob'[v] = wjob[v] /\ wpc'[v] = wpc[v]
    BY DEF WorkerGoes
  <2>3. wval[w] = None /\ wpc'[w] = "idle"
    BY DEF WorkerGoes, DecrementInv
  <2> QED
    BY <2>1, <2>2, <2>3
    DEF StockParts, DecrementInv, ProductRowInv, ConfirmInv, AbsentInv,
        NoOversell, ConfirmedIsDebited, HoldsProductRow, ProductOf, QuantityOf
<1> USE DEF StockParts, StockInv, TypeOK, DecrementInv, ProductRowInv,
        ConfirmInv, AbsentInv, NoOversell, ConfirmedIsDebited, HoldsProductRow,
        WorkerGoes, ProductOf, QuantityOf, tableVars
<1>4. CASE AcquireInWorker(w)
  BY <1>4 DEF AcquireInWorker
<1>5. CASE GiveUp(w) \/ MarkFailed(w)
  BY <1>5 DEF GiveUp, MarkFailed, SetFailed
<1>6. CASE Begin(w)
  BY <1>6 DEF Begin
<1>7. CASE MarkProcessing(w)
  BY <1>7 DEF MarkProcessing
<1>8. CASE RecordLevel(w)
  BY <1>0, <1>8 DEF RecordLevel
<1>9. CASE UnlockInWorker(w) \/ UnlockFailed(w)
  BY <1>9 DEF UnlockInWorker, UnlockFailed, Release
<1>10. CASE Rollback(w)
  BY <1>10 DEF Rollback
<1>11. CASE CrashWorker(w)
  BY <1>11 DEF CrashWorker
<1> QED
  BY <1>1, <1>2, <1>3, <1>4, <1>5, <1>6, <1>7, <1>8, <1>9, <1>10, <1>11
  DEF Process

\* The queue, the TTLs and the administrators keep StockParts: an absolute
\* stock is written only while no decrement of the product is open.
LEMMA OtherStock ==
    ASSUME StockInv,
           \/ \E w \in Workers, o \in Requests : TakeJob(w, o)
           \/ \E o \in Requests : Promote(o) \/ RecoverStalled(o)
           \/ \E p \in Products : Expire(p) \/ Administer(p)
           \/ UNCHANGED vars
    PROVE  StockParts'
<1> USE DEF StockInv, StockParts, DecrementInv, ProductRowInv, ConfirmInv,
        AbsentInv, NoOversell, ConfirmedIsDebited, HoldsProductRow, ProductOf,
        QuantityOf
<1>1. CASE \E w \in Workers, o \in Requests : TakeJob(w, o)
  BY <1>1 DEF TakeJob, WorkerGoes, TypeOK, tableVars
<1>2. CASE \E o \in Requests : Promote(o) \/ RecoverStalled(o)
  BY <1>2 DEF Promote, RecoverStalled, tableVars, workerVars
<1>3. CASE \E p \in Products : Expire(p)
  BY <1>3 DEF Expire, tableVars, workerVars
<1>4. ASSUME NEW p \in Products, Administer(p)
      PROVE  StockParts'
  <2>1. PICK s \in AdminStock \cup {None}, active \in {"off", "on"} :
            \/ CreateProduct(p, s, active) /\ s # None
            \/ UpdateProduct(p, s, active)
    BY <1>4, SaleAssumption DEF Administer
  <2>2. s # None => s \in Nat
    BY SaleAssumption
  <2>3. /\ UNCHANGED <<status, debits, wpc, wjob, wval, cart>>
        /\ stock'[p] \in {stock[p], s}
        /\ stock'[p] # stock[p] => s # None
        /\ \A r \in Products : r # p => stock'[r] = stock[r] /\ sale'[r] = sale[r]
        /\ sale'[p] # "absent"
    BY <2>1 DEF CreateProduct, UpdateProduct, TypeOK, workerVars
  <2>4. \A w \in Workers : wval[w] # None => ProductOf(wjob[w]) # p
    <3> SUFFICES ASSUME NEW w \in Workers, wval[w] # None, ProductOf(wjob[w]) = p
                 PROVE  FALSE
      OBVIOUS
    <3>1. QuantityOf(wjob[w]) \in Nat \ {0}
      BY JobTypes
    <3>2. CASE CreateProduct(p, s, active)
      BY <3>1, <3>2 DEF CreateProduct, TypeOK
    <3>3. CASE UpdateProduct(p, s, active)
      BY <3>3 DEF UpdateProduct, ProductRowFree
    <3> QED
      BY <2>1, <3>2, <3>3
  <2>5. DecrementInv'
    BY <2>3, <2>4, JobTypes
  <2>6. AbsentInv' /\ NoOversell'
    BY <2>2, <2>3 DEF TypeOK
  <2> QED
    BY <2>3, <2>5, <2>6
<1>5. CASE UNCHANGED vars
  BY <1>5 DEF vars, tableVars, workerVars
<1> QED
  BY <1>1, <1>2, <1>3, <1>4, <1>5

LEMMA StockStep ==
    ASSUME StockInv, [Next]_vars
    PROVE  StockInv'
<1>1. TypeOK' /\ WorkerInv'
  BY TypeStep DEF StockInv
<1>2. ASSUME NEW r \in Requests, PlaceOrder(r) \/ CrashRequest(r)
      PROVE  StockParts'
  BY <1>2, RequestFrame
  DEF StockInv, StockParts, TypeOK, DecrementInv, ProductRowInv, ConfirmInv,
      AbsentInv, NoOversell, ConfirmedIsDebited, HoldsProductRow, ProductOf,
      QuantityOf
<1>3. StockParts'
  BY <1>2, WorkerStock, OtherStock DEF Next, Terminated
<1> QED
  BY <1>1, <1>3 DEF StockInv, StockParts

LEMMA StockInit ==
    ASSUME Init
    PROVE  StockInv
<1>1. \A p \in Products : stock[p] \in Nat
  <2>1. stock \in [Products -> InitialStock \cup {0}]
    BY DEF Init
  <2>2. InitialStock \cup {0} \subseteq Nat
    BY SaleAssumption
  <2> QED
    BY <2>1, <2>2
<1>2. \A p \in Products : sale[p] = "absent" => stock[p] = 0
  BY DEF Init
<1> QED
  BY <1>1, <1>2, TypeInit
  DEF Init, StockInv, DecrementInv, ProductRowInv, ConfirmInv, AbsentInv,
      NoOversell, ConfirmedIsDebited, HoldsProductRow

\* Whatever fails and whoever pauses, the inductive invariant of the stock
\* holds: open decrements are covered, and exclusive per product.
THEOREM StockSafe == Spec => []StockInv
<1>1. Init => StockInv
  BY StockInit
<1>2. StockInv /\ [Next]_vars => StockInv'
  BY StockStep
<1> QED
  BY <1>1, <1>2, PTL DEF Spec

\* No overselling: the committed stock is never negative.
THEOREM NeverOversold == Spec => []NoOversell
<1>1. StockInv => NoOversell
  BY DEF StockInv
<1> QED
  BY <1>1, StockSafe, PTL

\* Every CONFIRMED order has a committed decrement behind it.
THEOREM ConfirmationsBacked == Spec => []ConfirmedIsDebited
<1>1. StockInv => ConfirmedIsDebited
  BY DEF StockInv
<1> QED
  BY <1>1, StockSafe, PTL
------------------------------------------------------------------------------
\* A call adds its job to the queue once, after it has left the points at
\* which UnqueuedInv speaks of it, and is the only one to do so.
LEMMA RequestQueueing ==
    ASSUME TypeOK, NEW r \in Requests, PlaceOrder(r) \/ CrashRequest(r)
    PROVE  /\ UNCHANGED owner
           /\ pc' = [pc EXCEPT ![r] = pc'[r]]
           /\ \/ /\ UNCHANGED job
                 /\ pc'[r] \in UnqueuedPCs => pc[r] \in UnqueuedPCs
              \/ /\ pc[r] = "enqueuing"
                 /\ pc'[r] \notin UnqueuedPCs
                 /\ job' = [job EXCEPT ![r] = "waiting"]
<1> USE DEF TypeOK, UnqueuedPCs, RequestLock, queueVars, Reject, Fail, RequestGoes
<1>1. CASE Enqueue(r)
  BY <1>1 DEF Enqueue
<1>2. CASE ReadProduct(r) \/ AcquireLock(r) \/ RecheckStock(r) \/ Deny(r)
  BY <1>2 DEF ReadProduct, AcquireLock, RecheckStock, Deny
<1>3. CASE SaveOrder(r) \/ Unlock(r)
  BY <1>3 DEF SaveOrder, Unlock
<1>4. CASE Reread(r) \/ Resave(r) \/ Respond(r)
  BY <1>4 DEF Reread, Resave, Respond
<1>5. CASE CrashRequest(r)
  BY <1>5 DEF CrashRequest
<1> QED
  BY <1>1, <1>2, <1>3, <1>4, <1>5 DEF PlaceOrder

\* A step of a worker that does not end its job leaves the queue alone.
LEMMA WorkerQueueing ==
    ASSUME TypeOK, NEW w \in Workers, Process(w) \/ CrashWorker(w)
    PROVE  /\ UNCHANGED pc
           /\ \/ JobCompleted(w) \/ JobFailed(w)
              \/ CrashWorker(w) /\ UNCHANGED queueVars
              \/ /\ UNCHANGED <<queueVars, wjob>>
                 /\ wpc' = [wpc EXCEPT ![w] = wpc'[w]]
                 /\ wpc[w] # "idle"
                 /\ wpc[w] = "finishing" => FALSE
                 /\ wpc[w] = "unlocking" => wpc'[w] = "finishing"
<1> USE DEF requestVars, TypeOK, WorkerGoes
<1>1. CASE JobCompleted(w) \/ JobFailed(w)
  BY <1>1 DEF JobCompleted, JobFailed
<1>2. CASE AcquireInWorker(w) \/ GiveUp(w) \/ Begin(w) \/ MarkProcessing(w)
  BY <1>2 DEF AcquireInWorker, GiveUp, SetFailed, Begin, MarkProcessing
<1>3. CASE Reserve(w) \/ RecordLevel(w) \/ Confirm(w) \/ Decline(w)
  BY <1>3 DEF Reserve, RecordLevel, Confirm, Decline, Conclude
<1>4. CASE UnlockInWorker(w) \/ Rollback(w) \/ MarkFailed(w) \/ UnlockFailed(w)
  BY <1>4 DEF UnlockInWorker, Rollback, MarkFailed, UnlockFailed, Release, SetFailed
<1>5. CASE CrashWorker(w)
  BY <1>5 DEF CrashWorker
<1> QED
  BY <1>1, <1>2, <1>3, <1>4, <1>5 DEF Process

\* What the queue knows of calls and owners holds under all faults.
LEMMA QueueStep ==
    ASSUME StockInv, UnqueuedInv, ActiveInv, [Next]_vars
    PROVE  UnqueuedInv' /\ ActiveInv'
<1> USE SaleAssumption DEF StockInv, TypeOK, UnqueuedInv, ActiveInv
<1>1. ASSUME NEW r \in Requests, PlaceOrder(r) \/ CrashRequest(r)
      PROVE  UnqueuedInv' /\ ActiveInv'
  <2>1. pc[r] = "enqueuing" => job[r] = "none"
    BY DEF UnqueuedPCs
  <2> QED
    BY <1>1, <2>1, RequestQueueing
<1>2. ASSUME NEW w \in Workers, Process(w) \/ CrashWorker(w)
      PROVE  UnqueuedInv' /\ ActiveInv'
  BY <1>2, WorkerQueueing, JobTypes DEF JobCompleted, JobFailed, WorkerGoes, queueVars
<1>3. ASSUME NEW w \in Workers, NEW o \in Requests, TakeJob(w, o)
      PROVE  UnqueuedInv' /\ ActiveInv'
  BY <1>3 DEF TakeJob, requestVars
<1>4. ASSUME NEW o \in Requests, Promote(o) \/ RecoverStalled(o)
      PROVE  UnqueuedInv' /\ ActiveInv'
  BY <1>4 DEF Promote, RecoverStalled, requestVars
<1>5. ASSUME NEW p \in Products, Expire(p) \/ Administer(p)
      PROVE  UnqueuedInv' /\ ActiveInv'
  BY <1>5 DEF Expire, Administer, CreateProduct, UpdateProduct, queueVars, requestVars
<1>6. CASE UNCHANGED vars
  BY <1>6 DEF vars, queueVars, requestVars
<1> QED
  BY <1>1, <1>2, <1>3, <1>4, <1>5, <1>6 DEF Next, Terminated

\* No fault makes a job run again after its commit.
NoRepeat == Faults \cap RepeatFaults = {}

LEMMA NoRepeatFaults ==
    ASSUME NoRepeat
    PROVE  ~Fault("crash") /\ ~Fault("slow") /\ ~Fault("commit")
BY DEF NoRepeat, RepeatFaults, Fault

\* Without those faults, a worker keeps the job it took to its end.
LEMMA OwnerStep ==
    ASSUME StockInv, UnqueuedInv, ActiveInv, OwnerInv, [Next]_vars
    PROVE  OwnerInv'
<1> SUFFICES ASSUME NoRepeat PROVE OwnerInv'
  BY DEF OwnerInv, NoRepeat
<1> USE SaleAssumption, NoRepeatFaults
    DEF StockInv, TypeOK, WorkerInv, ActiveInv, OwnerInv, NoRepeat
<1>1. ASSUME NEW r \in Requests, PlaceOrder(r) \/ CrashRequest(r)
      PROVE  OwnerInv'
  <2>1. pc[r] = "enqueuing" => job[r] = "none"
    BY DEF UnqueuedInv, UnqueuedPCs
  <2> QED
    BY <1>1, <2>1, RequestQueueing, RequestFrame
<1>2. ASSUME NEW w \in Workers, Process(w) \/ CrashWorker(w)
      PROVE  OwnerInv'
  <2>1. CASE JobCompleted(w) \/ JobFailed(w)
    BY <2>1, JobTypes DEF JobCompleted, JobFailed, WorkerGoes
  <2> QED
    BY <1>2, <2>1, WorkerQueueing DEF queueVars, CrashWorker
<1>3. ASSUME NEW w \in Workers, NEW o \in Requests, TakeJob(w, o)
      PROVE  OwnerInv'
  BY <1>3 DEF TakeJob, WorkerGoes
<1>4. ASSUME NEW o \in Requests, Promote(o) \/ RecoverStalled(o)
      PROVE  OwnerInv'
  BY <1>4 DEF Promote, RecoverStalled, workerVars
<1>5. ASSUME NEW p \in Products, Expire(p) \/ Administer(p)
      PROVE  OwnerInv'
  BY <1>5 DEF Expire, Administer, CreateProduct, UpdateProduct, queueVars, workerVars
<1>6. CASE UNCHANGED vars
  BY <1>6 DEF vars, queueVars, workerVars
<1> QED
  BY <1>1, <1>2, <1>3, <1>4, <1>5, <1>6 DEF Next, Terminated

\* What a worker's step does to the history of sales: Confirm and Decline
\* commit what is open, and nothing else counts a sale.
LEMMA WorkerDebits ==
    ASSUME TypeOK, NEW w \in Workers, Process(w) \/ CrashWorker(w)
    PROVE  \/ UNCHANGED <<stock, debits>>
           \/ /\ Confirm(w) \/ Decline(w)
              /\ wpc[w] \in {"confirming", "declining"}
              /\ wpc'[w] = "unlocking" \/ Fault("commit")
              /\ wval[w] # None
              /\ stock' = [stock EXCEPT ![ProductOf(wjob[w])] = wval[w]]
              /\ debits' = [debits EXCEPT ![wjob[w]] = @ + 1]
<1> USE DEF tableVars
<1>1. CASE Confirm(w) \/ Decline(w)
  BY <1>1 DEF Confirm, Decline, Conclude, Commit, WorkerGoes, TypeOK
<1>2. CASE AcquireInWorker(w) \/ GiveUp(w) \/ Begin(w) \/ MarkProcessing(w)
  BY <1>2 DEF AcquireInWorker, GiveUp, SetFailed, Begin, MarkProcessing
<1>3. CASE Reserve(w) \/ RecordLevel(w) \/ JobCompleted(w) \/ JobFailed(w)
  BY <1>3 DEF Reserve, RecordLevel, JobCompleted, JobFailed
<1>4. CASE UnlockInWorker(w) \/ Rollback(w) \/ MarkFailed(w) \/ UnlockFailed(w)
  BY <1>4 DEF UnlockInWorker, Rollback, MarkFailed, UnlockFailed, Release, SetFailed
<1>5. CASE CrashWorker(w)
  BY <1>5 DEF CrashWorker
<1> QED
  BY <1>1, <1>2, <1>3, <1>4, <1>5 DEF Process

\* A sold job is completed, or on its way there, and cannot be sold again.
LEMMA SoldStep ==
    ASSUME StockInv, UnqueuedInv, ActiveInv, OwnerInv, SoldInv, [Next]_vars
    PROVE  SoldInv'
<1> SUFFICES ASSUME NoRepeat PROVE SoldInv'
  BY DEF SoldInv, NoRepeat
<1> USE SaleAssumption, NoRepeatFaults
    DEF StockInv, TypeOK, WorkerInv, ActiveInv, OwnerInv, SoldInv, NoRepeat
<1>1. ASSUME NEW r \in Requests, PlaceOrder(r) \/ CrashRequest(r)
      PROVE  SoldInv'
  <2>1. pc[r] = "enqueuing" => job[r] = "none"
    BY DEF UnqueuedInv, UnqueuedPCs
  <2> QED
    BY <1>1, <2>1, RequestQueueing, RequestFrame
<1>2. ASSUME NEW w \in Workers, Process(w) \/ CrashWorker(w)
      PROVE  SoldInv'
  <2>1. CASE JobCompleted(w) \/ JobFailed(w)
    BY <2>1, JobTypes DEF JobCompleted, JobFailed, WorkerGoes, tableVars
  <2>2. CASE UNCHANGED <<stock, debits>> /\ ~JobCompleted(w) /\ ~JobFailed(w)
    BY <1>2, <2>2, WorkerQueueing DEF queueVars, CrashWorker
  <2>3. CASE debits' # debits /\ ~JobCompleted(w) /\ ~JobFailed(w)
    <3>1. /\ wpc[w] \in {"confirming", "declining"}
          /\ wpc'[w] = "unlocking"
          /\ debits' = [debits EXCEPT ![wjob[w]] = @ + 1]
      BY <1>2, <2>3, WorkerDebits
    <3>2. /\ wjob[w] \in Requests
          /\ job[wjob[w]] = "active"
          /\ owner[wjob[w]] = w
      BY <3>1, JobTypes
    <3>3. debits[wjob[w]] = 0
      BY <3>1, <3>2
    <3>4. UNCHANGED queueVars /\ wpc' = [wpc EXCEPT ![w] = wpc'[w]]
      BY <1>2, <2>3, WorkerQueueing DEF CrashWorker
    <3>5. \A o \in Requests : owner[o] = w => o = wjob[w]
      BY <3>1
    <3> QED
      BY <3>1, <3>2, <3>3, <3>4, <3>5 DEF queueVars
  <2> QED
    BY <1>2, <2>1, <2>2, <2>3, WorkerDebits
<1>3. ASSUME NEW w \in Workers, NEW o \in Requests, TakeJob(w, o)
      PROVE  SoldInv'
  BY <1>3 DEF TakeJob, WorkerGoes, tableVars
<1>4. ASSUME NEW o \in Requests, Promote(o) \/ RecoverStalled(o)
      PROVE  SoldInv'
  BY <1>4 DEF Promote, RecoverStalled, workerVars, tableVars
<1>5. ASSUME NEW p \in Products, Expire(p) \/ Administer(p)
      PROVE  SoldInv'
  BY <1>5 DEF Expire, Administer, CreateProduct, UpdateProduct, queueVars,
     workerVars, tableVars
<1>6. CASE UNCHANGED vars
  BY <1>6 DEF vars, queueVars, workerVars, tableVars
<1> QED
  BY <1>1, <1>2, <1>3, <1>4, <1>5, <1>6 DEF Next, Terminated

\* The invariants that tie jobs, their owners and their sales together.
QueueInv == StockInv /\ UnqueuedInv /\ ActiveInv /\ OwnerInv /\ SoldInv

LEMMA QueueInit ==
    ASSUME Init
    PROVE  QueueInv
BY StockInit, SaleAssumption
DEF Init, QueueInv, UnqueuedInv, ActiveInv, OwnerInv, SoldInv, StockInv, TypeOK

\* A job's owner, its worker and its sale stay consistent for ever.
THEOREM QueueSafe == Spec => []QueueInv
<1>1. Init => QueueInv
  BY QueueInit
<1>2. QueueInv /\ [Next]_vars => QueueInv'
  BY StockStep, QueueStep, OwnerStep, SoldStep DEF QueueInv
<1> QED
  BY <1>1, <1>2, PTL DEF Spec

\* Of all attempts and deliveries of a job at most one commits its decrement,
\* unless a crash, a pause or a lost COMMIT answer makes it run again.
THEOREM SoldOnlyOnce == Spec => []AtMostOneDebit
<1>1. QueueInv => AtMostOneDebit
  BY DEF QueueInv, SoldInv, AtMostOneDebit, StockInv, TypeOK
<1> QED
  BY <1>1, QueueSafe, PTL
------------------------------------------------------------------------------
\* The step of the abstract sale that a step of a worker implements.
LEMMA WorkerSells ==
    ASSUME QueueInv, NEW w \in Workers, Process(w) \/ CrashWorker(w)
    PROVE  (\E o \in Requests : Sale!Sell(o)) \/ UNCHANGED <<cart, stock, debits>>
<1> USE DEF QueueInv, StockInv
<1>1. UNCHANGED cart
  <2>1. CASE AcquireInWorker(w) \/ GiveUp(w) \/ Begin(w) \/ MarkProcessing(w)
    BY <2>1 DEF AcquireInWorker, GiveUp, SetFailed, Begin, MarkProcessing
  <2>2. CASE Reserve(w) \/ RecordLevel(w) \/ Confirm(w) \/ Decline(w)
    BY <2>2 DEF Reserve, RecordLevel, Confirm, Decline, Conclude
  <2>3. CASE UnlockInWorker(w) \/ Rollback(w) \/ MarkFailed(w) \/ UnlockFailed(w)
    BY <2>3 DEF UnlockInWorker, Rollback, MarkFailed, UnlockFailed, Release, SetFailed
  <2>4. CASE JobCompleted(w) \/ JobFailed(w) \/ CrashWorker(w)
    BY <2>4 DEF JobCompleted, JobFailed, CrashWorker
  <2> QED
    BY <2>1, <2>2, <2>3, <2>4 DEF Process
<1>2. CASE UNCHANGED <<stock, debits>>
  BY <1>1, <1>2
<1>3. CASE ~UNCHANGED <<stock, debits>>
  <2> DEFINE o == wjob[w]
  <2>1. /\ wpc[w] \in {"confirming", "declining"}
        /\ wval[w] # None
        /\ stock' = [stock EXCEPT ![ProductOf(o)] = wval[w]]
        /\ debits' = [debits EXCEPT ![o] = @ + 1]
    BY <1>3, WorkerDebits
  <2>2. /\ o \in Requests
        /\ ProductOf(o) \in Products
        /\ QuantityOf(o) \in Nat \ {0}
    BY <2>1, JobTypes
  <2>3. /\ wval[w] = stock[ProductOf(o)] - QuantityOf(o)
        /\ stock[ProductOf(o)] >= QuantityOf(o)
    BY <2>1, <2>2 DEF DecrementInv, TypeOK
  <2>4. debits[o] = 0 \/ Faults \cap RepeatFaults # {}
    BY <2>1, <2>2, SaleAssumption DEF SoldInv, OwnerInv, TypeOK
  <2>5. Sale!Sell(o)
    BY <1>1, <2>1, <2>2, <2>3, <2>4 DEF Sale!Sell, ProductOf, QuantityOf, TypeOK
  <2> QED
    BY <2>2, <2>5
<1> QED
  BY <1>2, <1>3

\* Every step of the system is a step of the abstract sale, or leaves it alone.
LEMMA StepSells ==
    ASSUME QueueInv, [Next]_vars
    PROVE  [Sale!SaleNext]_<<cart, stock, debits>>
<1> USE DEF QueueInv, StockInv
<1>1. ASSUME NEW r \in Requests, PlaceOrder(r) \/ CrashRequest(r)
      PROVE  UNCHANGED <<cart, stock, debits>>
  BY <1>1, RequestFrame
<1>2. ASSUME NEW p \in Products, Administer(p)
      PROVE  Sale!SaleNext \/ UNCHANGED <<cart, stock, debits>>
  <2>1. CASE \E s \in AdminStock, active \in {"off", "on"} :
                CreateProduct(p, s, active)
    BY <2>1 DEF CreateProduct, Sale!SaleNext, Sale!Restock
  <2>2. CASE \E s \in AdminStock \cup {None}, active \in {"off", "on"} :
                UpdateProduct(p, s, active)
    <3>1. PICK s \in AdminStock \cup {None} :
              /\ stock' = [stock EXCEPT ![p] = IF s = None THEN @ ELSE s]
              /\ UNCHANGED <<cart, debits>>
      BY <2>2 DEF UpdateProduct
    <3>2. CASE s = None
      BY <3>1, <3>2 DEF TypeOK
    <3>3. CASE s # None
      BY <3>1, <3>3 DEF Sale!SaleNext, Sale!Restock
    <3> QED
      BY <3>2, <3>3
  <2> QED
    BY <1>2, <2>1, <2>2 DEF Administer
<1>3. ASSUME \/ \E w \in Workers, o \in Requests : TakeJob(w, o)
             \/ \E o \in Requests : Promote(o) \/ RecoverStalled(o)
             \/ \E p \in Products : Expire(p)
             \/ UNCHANGED vars
      PROVE  UNCHANGED <<cart, stock, debits>>
  BY <1>3 DEF TakeJob, Promote, RecoverStalled, Expire, vars, tableVars
<1> QED
  BY <1>1, <1>2, <1>3, WorkerSells DEF Next, Terminated, Sale!SaleNext

\* The whole system implements the abstract sale: whatever runs concurrently
\* and whatever fails, stock moves only by atomic, covered, single sales.
THEOREM Refinement == Spec => AtomicSale
<1>1. Init => Sale!SaleInit
  BY DEF Init, Sale!SaleInit, Carts
<1>2. QueueInv /\ [Next]_vars => [Sale!SaleNext]_Sale!saleVars
  BY StepSells DEF Sale!saleVars
<1> QED
  BY <1>1, <1>2, QueueSafe, PTL DEF Spec, AtomicSale, Sale!SaleSpec
------------------------------------------------------------------------------
\* The units that committed transactions have taken for orders of p.
SoldUnits(p) ==
    {u \in Requests \X Nat :
        ProductOf(u[1]) = p /\ u[2] \in 1..(debits[u[1]] * QuantityOf(u[1]))}

\* What was sold and what is left are what the sale began with.
Balance(p) ==
    /\ IsFiniteSet(SoldUnits(p))
    /\ \E s \in InitialStock \cup {0} : stock[p] + Cardinality(SoldUnits(p)) = s
SupplyInv == AdminStock = {} => \A p \in Products : Balance(p)

\* A sale takes as many units out of the stock as it adds to those sold.
LEMMA SaleBalances ==
    ASSUME TypeOK, NEW o \in Requests, Sale!Sell(o), NEW p \in Products, Balance(p)
    PROVE  Balance(p)'
<1> DEFINE q == QuantityOf(o)
           old == debits[o] * q
           new == {o} \X ((old + 1)..(old + q))
<1>1. q \in Nat \ {0} /\ ProductOf(o) \in Products /\ debits[o] \in Nat
  BY CartTypes DEF TypeOK
<1>2. old \in Nat /\ (debits[o] + 1) * q = old + q
  <2>1. \A d \in Nat, n \in Nat : d * n \in Nat /\ (d + 1) * n = d * n + n
    BY SMT
  <2> QED BY <1>1, <2>1
<1>3. /\ cart' = cart /\ ProductOf(o) = cart[o].product /\ q = cart[o].quantity
      /\ stock' = [stock EXCEPT ![ProductOf(o)] = @ - q]
      /\ debits' = [debits EXCEPT ![o] = @ + 1]
  BY DEF Sale!Sell, ProductOf, QuantityOf
<1>4. /\ \A r \in Requests : ProductOf(r)' = ProductOf(r) /\ QuantityOf(r)' = QuantityOf(r)
      /\ \A r \in Requests \ {o} : debits'[r] = debits[r]
      /\ debits'[o] * q = old + q
  BY <1>1, <1>2, <1>3 DEF ProductOf, QuantityOf, TypeOK
<1> HIDE DEF q, old
<1>5. CASE ProductOf(o) # p
  <2>1. SoldUnits(p)' = SoldUnits(p)
    BY <1>4, <1>5 DEF SoldUnits
  <2>2. stock'[p] = stock[p] BY <1>3, <1>5 DEF TypeOK
  <2> QED BY <2>1, <2>2 DEF Balance
<1>6. CASE ProductOf(o) = p
  <2>1. SoldUnits(p)' = SoldUnits(p) \cup new
    <3>1. ASSUME NEW u \in Requests \X Nat
          PROVE  u \in SoldUnits(p)' <=> u \in SoldUnits(p) \/ u \in new
      <4>1. CASE u[1] = o
        <5>1. u \in SoldUnits(p)' <=> u[2] \in 1..(old + q)
          BY <1>4, <1>6, <4>1 DEF SoldUnits, q
        <5>2. u \in SoldUnits(p) <=> u[2] \in 1..old
          BY <1>6, <4>1 DEF SoldUnits, q, old
        <5>3. u \in new <=> u[2] \in (old + 1)..(old + q)
          BY <4>1
        <5> QED BY <1>1, <1>2, <5>1, <5>2, <5>3
      <4>2. CASE u[1] # o
        BY <1>4, <4>2 DEF SoldUnits
      <4> QED BY <4>1, <4>2
    <3>2. new \subseteq Requests \X Nat BY <1>1, <1>2
    <3> QED BY <3>1, <3>2 DEF SoldUnits
  <2>2. SoldUnits(p) \cap new = {}
    BY <1>1, <1>2 DEF SoldUnits, q, old
  <2>3. IsFiniteSet(new) /\ Cardinality(new) = q
    <3>1. /\ IsFiniteSet((old + 1)..(old + q))
          /\ Cardinality((old + 1)..(old + q)) = q
      BY <1>1, <1>2, FS_Interval
    <3>2. IsFiniteSet({o}) /\ Cardinality({o}) = 1 BY FS_Singleton
    <3>3. IsFiniteSet(new) /\ Cardinality(new) = 1 * q
      BY <3>1, <3>2, FS_Product
    <3> QED BY <1>1, <3>3
  <2> HIDE DEF new
  <2>4. /\ IsFiniteSet(SoldUnits(p)')
        /\ Cardinality(SoldUnits(p)') = Cardinality(SoldUnits(p)) + q
    <3>1. IsFiniteSet(SoldUnits(p)) BY DEF Balance
    <3>2. Cardinality({}) = 0 BY FS_EmptySet
    <3>3. Cardinality(SoldUnits(p)) \in Nat BY <3>1, FS_CardinalityType
    <3> QED BY <1>1, <2>1, <2>2, <2>3, <3>1, <3>2, <3>3, FS_Union
  <2>5. stock'[p] = stock[p] - q /\ stock[p] \in Int
    BY <1>3, <1>6 DEF TypeOK
  <2>6. Cardinality(SoldUnits(p)) \in Nat BY FS_CardinalityType DEF Balance
  <2>7. stock'[p] + Cardinality(SoldUnits(p)') = stock[p] + Cardinality(SoldUnits(p))
    BY <1>1, <2>4, <2>5, <2>6
  <2> QED BY <2>4, <2>7 DEF Balance
<1> QED BY <1>5, <1>6

\* Since the system is an atomic sale, no step of it upsets the balance.
LEMMA SupplyStep == QueueInv /\ SupplyInv /\ [Next]_vars => SupplyInv'
<1> SUFFICES ASSUME QueueInv, [Next]_vars, AdminStock = {},
                    NEW p \in Products, Balance(p)
             PROVE  Balance(p)'
  BY DEF SupplyInv
<1>1. TypeOK BY DEF QueueInv, StockInv
<1>2. [Sale!SaleNext]_<<cart, stock, debits>> BY StepSells
<1>3. CASE UNCHANGED <<cart, stock, debits>>
  BY <1>3 DEF Balance, SoldUnits, ProductOf, QuantityOf
<1>4. CASE \E o \in Requests : Sale!Sell(o)
  BY <1>1, <1>4, SaleBalances
<1> QED BY <1>2, <1>3, <1>4 DEF Sale!SaleNext

\* Every unit of a CONFIRMED order is a unit sold.
LEMMA ConfirmedAreSold ==
    ASSUME TypeOK, ConfirmedIsDebited, NEW p \in Products
    PROVE  ConfirmedUnits(p) \subseteq SoldUnits(p)
<1> SUFFICES ASSUME NEW o \in Requests, ProductOf(o) = p, status[o] = "confirmed",
                    NEW i \in 1..QuantityOf(o)
             PROVE  <<o, i>> \in SoldUnits(p)
  BY DEF ConfirmedUnits
<1>1. QuantityOf(o) \in Nat /\ debits[o] \in Nat /\ debits[o] >= 1
  BY CartTypes DEF TypeOK, ConfirmedIsDebited
<1>2. \A d \in Nat, n \in Nat : d >= 1 => n <= d * n /\ d * n \in Nat
  BY SMT
<1>3. i \in 1..(debits[o] * QuantityOf(o)) BY <1>1, <1>2
<1> QED BY <1>3 DEF SoldUnits

\* The customers of a product are never confirmed more units than its sale
\* began with, and what is left is there besides: whatever fails, and however
\* many of them order, as long as no administrator adds stock.
THEOREM NoUnitSoldTwice == Spec => []ConfirmedAreCovered
<1>1. Init => SupplyInv
  <2> SUFFICES ASSUME Init, NEW p \in Products PROVE Balance(p)
    BY DEF SupplyInv
  <2>1. SoldUnits(p) = {}
    <3>1. \A o \in Requests : debits[o] * QuantityOf(o) = 0
      <4> SUFFICES ASSUME NEW o \in Requests PROVE debits[o] * QuantityOf(o) = 0
        OBVIOUS
      <4>1. debits[o] = 0 BY DEF Init
      <4>2. QuantityOf(o) \in Nat
        <5>1. cart \in [Requests -> Carts] BY DEF Init
        <5> QED BY <5>1, SaleAssumption DEF Carts, QuantityOf
      <4>3. \A n \in Nat : 0 * n = 0 BY SMT
      <4> QED BY <4>1, <4>2, <4>3
    <3> QED BY <3>1 DEF SoldUnits
  <2>2. stock[p] \in InitialStock \cup {0} /\ stock[p] \in Int
    <3>1. stock \in [Products -> InitialStock \cup {0}] BY DEF Init
    <3>2. stock[p] \in InitialStock \cup {0} BY <3>1
    <3>3. InitialStock \cup {0} \subseteq Int BY SaleAssumption
    <3> QED BY <3>2, <3>3
  <2> QED BY <2>1, <2>2, FS_EmptySet DEF Balance
<1>2. TypeOK /\ NoOversell /\ ConfirmedIsDebited /\ SupplyInv => ConfirmedAreCovered
  <2> SUFFICES ASSUME TypeOK, NoOversell, ConfirmedIsDebited, NEW p \in Products, Balance(p)
               PROVE  \E s \in InitialStock \cup {0} :
                          stock[p] \in 0..(s - Cardinality(ConfirmedUnits(p)))
    BY DEF SupplyInv, ConfirmedAreCovered
  <2>1. /\ IsFiniteSet(ConfirmedUnits(p))
        /\ Cardinality(ConfirmedUnits(p)) <= Cardinality(SoldUnits(p))
    BY ConfirmedAreSold, FS_Subset DEF Balance
  <2>2. /\ Cardinality(ConfirmedUnits(p)) \in Nat
        /\ Cardinality(SoldUnits(p)) \in Nat
    BY <2>1, FS_CardinalityType DEF Balance
  <2>3. PICK s \in InitialStock \cup {0} : stock[p] + Cardinality(SoldUnits(p)) = s
    BY DEF Balance
  <2>4. stock[p] \in Int /\ stock[p] >= 0 /\ s \in Int
    BY SaleAssumption DEF TypeOK, NoOversell
  <2> QED BY <2>1, <2>2, <2>3, <2>4
<1> QED
  BY <1>1, <1>2, SupplyStep, TypeCorrect, NeverOversold, ConfirmationsBacked,
     QueueSafe, PTL DEF Spec
------------------------------------------------------------------------------
\* The points of a run before its transaction ends, from which it may still
\* take units.
PreCommit == {"locking", "starting", "marking", "reserving", "recording",
              "confirming", "declining"}

Running(o) == {w \in Workers : wjob[w] = o /\ wpc[w] \in PreCommit}

\* The runs of a job so far, at most: those that failed, those taken away from
\* a silent worker, and the one that is going on or was the last.
Runs(o) == tries[o] + stalls[o]
           + (IF job[o] \in {"active", "completed", "failed"} THEN 1 ELSE 0)

\* Every run of an order's job has taken its units, may still do so, or never
\* will: what was taken and what may be taken is no more than the runs.
RunsInv ==
    \A o \in Requests :
        /\ IsFiniteSet(Running(o))
        /\ debits[o] + Cardinality(Running(o)) <= Runs(o)

\* A run of o that is still able to take its units takes them, or loses the
\* chance to.
Spent(w, o) ==
    /\ w \in Running(o) /\ Running(o)' = Running(o) \ {w}
    /\ debits'[o] \in {debits[o], debits[o] + 1}

\* Nothing happens to the runs of o that may still take its units.
Idles(o) == Running(o)' = Running(o) /\ debits'[o] = debits[o]

\* A step of a worker, which moves only itself.
LEMMA WorkerRuns ==
    ASSUME TypeOK, WorkerInv,
           NEW w \in Workers, Process(w) \/ CrashWorker(w), NEW o \in Requests
    PROVE  /\ Spent(w, o) \/ Idles(o)
           /\ Runs(o)' >= Runs(o)
<1>1. Spent(w, o) \/ Idles(o)
  <2>1. CASE \/ AcquireInWorker(w) \/ GiveUp(w) \/ Begin(w) \/ MarkProcessing(w)
             \/ Reserve(w) \/ RecordLevel(w)
    BY <2>1 DEF AcquireInWorker, GiveUp, SetFailed, Begin, MarkProcessing, Reserve,
       RecordLevel, WorkerGoes, tableVars, Spent, Idles, Running, PreCommit, TypeOK
  <2>2. CASE Confirm(w) \/ Decline(w)
    <3>1. /\ wpc[w] \in {"confirming", "declining"} /\ UNCHANGED wjob
          /\ \E pt \in {"unlocking", "throwing", "rollingBack"} :
                 wpc' = [wpc EXCEPT ![w] = pt]
          /\ wjob[w] # o => debits'[o] = debits[o]
          /\ debits'[o] \in {debits[o], debits[o] + 1}
      BY <2>2 DEF Confirm, Decline, Conclude, Commit, WorkerGoes, TypeOK
    <3>2. CASE wjob[w] = o
      <4>1. w \in Running(o) BY <3>1, <3>2 DEF Running, PreCommit
      <4>2. \A v \in Workers : v \in Running(o)' <=> v \in Running(o) /\ v # w
        BY <3>1, <3>2 DEF Running, PreCommit, TypeOK
      <4>3. Running(o)' = Running(o) \ {w} BY <4>2 DEF Running
      <4> QED BY <3>1, <4>1, <4>3 DEF Spent
    <3>3. CASE wjob[w] # o
      <4>1. \A v \in Workers : v \in Running(o)' <=> v \in Running(o)
        BY <3>1, <3>3 DEF Running, PreCommit, TypeOK
      <4>2. Running(o)' = Running(o) BY <4>1 DEF Running
      <4> QED BY <3>1, <3>3, <4>2 DEF Idles
    <3> QED BY <3>2, <3>3
  <2>3. CASE \/ UnlockInWorker(w) \/ Rollback(w) \/ MarkFailed(w)
             \/ UnlockFailed(w) \/ JobCompleted(w) \/ JobFailed(w)
    BY <2>3 DEF UnlockInWorker, Rollback, MarkFailed, UnlockFailed, Release, SetFailed,
       JobCompleted, JobFailed, WorkerGoes, tableVars, Idles, Running, PreCommit, TypeOK
  <2>4. CASE CrashWorker(w)
    BY <2>4 DEF CrashWorker, tableVars, Spent, Idles, Running, PreCommit, TypeOK
  <2> QED BY <2>1, <2>2, <2>3, <2>4 DEF Process
<1>2. Runs(o)' >= Runs(o)
  <2>1. CASE JobCompleted(w) \/ JobFailed(w)
    BY <2>1, JobTypes DEF JobCompleted, JobFailed, WorkerGoes, Runs, TypeOK
  <2>2. CASE UNCHANGED queueVars
    BY <2>2 DEF queueVars, Runs, TypeOK
  <2> QED BY <2>1, <2>2, WorkerQueueing DEF queueVars
<1> QED BY <1>1, <1>2

\* No step of the system lets the debits and the runs that may still make one
\* outgrow the runs there were.
LEMMA RunsStep ==
    ASSUME TypeOK, WorkerInv, UnqueuedInv, RunsInv, [Next]_vars
    PROVE  RunsInv'
<1> SUFFICES ASSUME NEW o \in Requests
             PROVE  /\ IsFiniteSet(Running(o)')
                    /\ debits'[o] + Cardinality(Running(o)') <= Runs(o)'
  BY DEF RunsInv
<1> DEFINE Kept == /\ IsFiniteSet(Running(o)')
                   /\ debits'[o] + Cardinality(Running(o)') <= Runs(o)'
<1>1. /\ IsFiniteSet(Running(o)) /\ Cardinality(Running(o)) \in Nat
      /\ debits[o] + Cardinality(Running(o)) <= Runs(o)
  BY FS_CardinalityType DEF RunsInv
<1>2. debits[o] \in Nat /\ Runs(o) \in Nat
  BY DEF TypeOK, Runs
<1>t. Runs(o)' \in Nat /\ debits'[o] \in Nat
  BY TypeStep DEF TypeOK, Runs
<1>3. ASSUME NEW w \in Workers, Process(w) \/ CrashWorker(w)
      PROVE  Kept
  <2>1. CASE Spent(w, o)
    <3>1. /\ IsFiniteSet(Running(o)')
          /\ Cardinality(Running(o)') = Cardinality(Running(o)) - 1
      BY <1>1, <2>1, FS_RemoveElement DEF Spent
    <3> QED BY <1>1, <1>2, <1>3, <1>t, <2>1, <3>1, WorkerRuns DEF Spent
  <2>2. CASE Idles(o)
    BY <1>1, <1>2, <1>3, <1>t, <2>2, WorkerRuns DEF Idles
  <2> QED BY <1>3, <2>1, <2>2, WorkerRuns
<1>4. ASSUME NEW w \in Workers, NEW q \in Requests, TakeJob(w, q)
      PROVE  Kept
  <2>1. wjob[w] = None /\ debits'[o] = debits[o]
    BY <1>4 DEF TakeJob, WorkerGoes, WorkerInv, tableVars
  <2>2. CASE o # q
    <3>1. Running(o)' = Running(o) /\ Runs(o)' = Runs(o)
      BY <1>4, <2>1, <2>2, SaleAssumption
      DEF TakeJob, WorkerGoes, Running, Runs, TypeOK
    <3> QED BY <1>1, <2>1, <3>1
  <2>3. CASE o = q
    <3>1. /\ Running(o)' = Running(o) \cup {w} /\ w \notin Running(o)
          /\ Runs(o)' = Runs(o) + 1
      BY <1>4, <2>1, <2>3, SaleAssumption
      DEF TakeJob, WorkerGoes, Running, PreCommit, Runs, TypeOK
    <3>2. /\ IsFiniteSet(Running(o)')
          /\ Cardinality(Running(o)') = Cardinality(Running(o)) + 1
      BY <1>1, <3>1, FS_AddElement
    <3> QED BY <1>1, <1>2, <2>1, <3>1, <3>2
  <2> QED BY <2>2, <2>3
<1>5. ASSUME UNCHANGED <<wpc, wjob>>, debits'[o] = debits[o], Runs(o)' >= Runs(o)
      PROVE  Kept
  <2>1. Running(o)' = Running(o) BY <1>5 DEF Running
  <2> QED BY <1>1, <1>2, <1>5, <1>t, <2>1
<1>6. ASSUME NEW r \in Requests, PlaceOrder(r) \/ CrashRequest(r)
      PROVE  Kept
  <2>1. UNCHANGED <<debits, wpc, wjob>> BY <1>6, RequestFrame
  <2>2. UNCHANGED <<tries, stalls>>
    BY <1>6 DEF PlaceOrder, CrashRequest, ReadProduct, AcquireLock, RecheckStock,
       Deny, SaveOrder, Unlock, Enqueue, Reread, Resave, Respond, queueVars
  <2>3. pc[r] = "enqueuing" => job[r] = "none" BY DEF UnqueuedInv, UnqueuedPCs
  <2>4. Runs(o)' >= Runs(o)
    BY <1>6, <2>2, <2>3, RequestQueueing DEF Runs, TypeOK
  <2> QED BY <1>5, <2>1, <2>4
<1>7. ASSUME NEW q \in Requests, Promote(q) \/ RecoverStalled(q)
      PROVE  Kept
  <2>1. UNCHANGED <<debits, wpc, wjob>>
    BY <1>7 DEF Promote, RecoverStalled, tableVars, workerVars
  <2>2. Runs(o)' >= Runs(o)
    BY <1>7 DEF Promote, RecoverStalled, Runs, TypeOK
  <2> QED BY <1>5, <2>1, <2>2
<1>8. ASSUME NEW p \in Products, Expire(p) \/ Administer(p)
      PROVE  Kept
  <2>1. UNCHANGED <<debits, wpc, wjob, queueVars>>
    BY <1>8 DEF Expire, Administer, CreateProduct, UpdateProduct, tableVars, workerVars
  <2> QED BY <1>2, <1>5, <2>1 DEF Runs, queueVars
<1>9. CASE UNCHANGED vars
  BY <1>2, <1>5, <1>9 DEF vars, tableVars, queueVars, workerVars, Runs
<1> QED
  BY <1>3, <1>4, <1>6, <1>7, <1>8, <1>9 DEF Next, Terminated

\* One run of a job sells once, whatever fails, pauses or is delivered again:
\* an order is debited at most once more than its job failed or stalled.
THEOREM RunsSellOnce == Spec => []OneDebitPerRun
<1>1. Init => RunsInv
  <2> SUFFICES ASSUME Init, NEW o \in Requests
               PROVE  /\ IsFiniteSet(Running(o))
                      /\ debits[o] + Cardinality(Running(o)) <= Runs(o)
    BY DEF RunsInv
  <2>1. Running(o) = {} BY SaleAssumption DEF Init, Running, PreCommit
  <2> QED BY <2>1, FS_EmptySet DEF Init, Runs
<1>2. TypeOK /\ RunsInv => OneDebitPerRun
  <2> SUFFICES ASSUME TypeOK, RunsInv, NEW o \in Requests
               PROVE  debits[o] <= tries[o] + stalls[o] + 1
    BY DEF OneDebitPerRun
  <2>1. Cardinality(Running(o)) \in Nat BY FS_CardinalityType DEF RunsInv
  <2> QED BY <2>1 DEF RunsInv, Runs, TypeOK
<1>3. QueueInv => UnqueuedInv
  BY DEF QueueInv
<1> QED
  BY <1>1, <1>2, <1>3, RunsStep, TypeCorrect, QueueSafe, PTL DEF Spec
------------------------------------------------------------------------------
\* Only acquireLock takes a lock, when it is free; only its holder gives it
\* back, on its way out of the critical section.
LockKept(h, p) ==
    /\ lock'[p] # lock[p] => \/ lock[p] = None /\ lock'[p] = h
                             \/ lock[p] = h /\ ~Critical(h, p)'
    /\ Critical(h, p)' => Critical(h, p) \/ lock'[p] = h
    /\ \A g \in Processes \ {h} : Critical(g, p)' => Critical(g, p)

LEMMA RequestLocks ==
    ASSUME TypeOK, NEW r \in Requests, PlaceOrder(r) \/ CrashRequest(r),
           NEW p \in Products
    PROVE  LockKept(r, p)
<1>0. UNCHANGED <<cart, wpc, wjob>>
  BY RequestFrame
<1> USE <1>0, SaleAssumption
    DEF LockKept, TypeOK, Critical, ProductOf, RequestLock, RequestGoes,
        Reject, Fail, Processes
<1>1. CASE ReadProduct(r) \/ RecheckStock(r) \/ SaveOrder(r) \/ Enqueue(r)
  BY <1>1 DEF ReadProduct, RecheckStock, SaveOrder, Enqueue
<1>2. CASE AcquireLock(r)
  BY <1>2 DEF AcquireLock, TakeLock, LockRefused
<1>3. CASE Deny(r) \/ Unlock(r)
  BY <1>3 DEF Deny, Unlock, DropLock
<1>4. CASE Reread(r) \/ Resave(r) \/ Respond(r)
  BY <1>4 DEF Reread, Resave, Respond
<1>5. CASE CrashRequest(r)
  BY <1>5 DEF CrashRequest
<1> QED
  BY <1>1, <1>2, <1>3, <1>4, <1>5 DEF PlaceOrder

LEMMA WorkerLocks ==
    ASSUME TypeOK, WorkerInv, NEW w \in Workers, Process(w) \/ CrashWorker(w),
           NEW p \in Products
    PROVE  LockKept(w, p)
<1>0. wpc[w] # "idle" => ProductOf(wjob[w]) \in Products
  BY JobTypes
<1> USE <1>0, SaleAssumption
    DEF LockKept, TypeOK, Critical, ProductOf, WorkerLock, InTx, WorkerGoes,
        Processes, requestVars
<1>1. CASE AcquireInWorker(w)
  BY <1>1 DEF AcquireInWorker, TakeLock, LockRefused
<1>2. CASE GiveUp(w) \/ Begin(w) \/ MarkProcessing(w) \/ MarkFailed(w)
  BY <1>2 DEF GiveUp, MarkFailed, SetFailed, Begin, MarkProcessing
<1>3. CASE Reserve(w) \/ RecordLevel(w) \/ Confirm(w) \/ Decline(w)
  BY <1>3 DEF Reserve, RecordLevel, Confirm, Decline, Conclude
<1>4. CASE UnlockInWorker(w) \/ UnlockFailed(w)
  BY <1>4 DEF UnlockInWorker, UnlockFailed, Release, DropLock
<1>5. CASE Rollback(w)
  BY <1>5 DEF Rollback
<1>6. CASE JobCompleted(w) \/ JobFailed(w)
  BY <1>6 DEF JobCompleted, JobFailed
<1>7. CASE CrashWorker(w)
  BY <1>7 DEF CrashWorker
<1> QED
  BY <1>1, <1>2, <1>3, <1>4, <1>5, <1>6, <1>7 DEF Process

\* Without pauses, whoever is in a critical section keeps the lock.
LEMMA LockStep ==
    ASSUME TypeOK, WorkerInv, LockInv, [Next]_vars
    PROVE  LockInv'
<1> SUFFICES ASSUME ~Fault("slow"), NEW p \in Products, NEW g \in Processes,
                    Critical(g, p)'
             PROVE  lock'[p] = g
  BY DEF LockInv, Fault
<1> USE SaleAssumption DEF LockInv
<1>1. ASSUME NEW h \in Processes, LockKept(h, p)
      PROVE  lock'[p] = g
  BY <1>1 DEF LockKept, Processes
<1>2. ASSUME NEW w \in Workers, NEW o \in Requests, TakeJob(w, o)
      PROVE  lock'[p] = g
  BY <1>2 DEF TakeJob, WorkerGoes, requestVars, Critical, ProductOf,
     WorkerLock, InTx, TypeOK
<1>3. ASSUME NEW o \in Requests, Promote(o) \/ RecoverStalled(o)
      PROVE  lock'[p] = g
  BY <1>3 DEF Promote, RecoverStalled, requestVars, workerVars, Critical, ProductOf
<1>4. ASSUME NEW q \in Products, Expire(q)
      PROVE  lock'[p] = g
  BY <1>4 DEF Expire, requestVars, workerVars, Critical, ProductOf, TypeOK
<1>5. ASSUME NEW q \in Products, Administer(q)
      PROVE  lock'[p] = g
  BY <1>5 DEF Administer, CreateProduct, UpdateProduct, requestVars,
     workerVars, Critical, ProductOf
<1>6. CASE UNCHANGED vars
  BY <1>6 DEF vars, requestVars, workerVars, Critical, ProductOf
<1> QED
  BY <1>1, <1>2, <1>3, <1>4, <1>5, <1>6, RequestLocks, WorkerLocks
  DEF Next, Terminated, Processes

\* Mutual exclusion of the critical sections of a product, and with it that
\* of the recheck and insert of a call with the transactions of workers.
THEOREM LockExcludes == Spec => []MutualExclusion
<1> DEFINE Inv == TypeOK /\ WorkerInv /\ LockInv
<1>1. Init => Inv
  BY TypeInit, SaleAssumption
  DEF Init, LockInv, Critical, RequestLock, WorkerLock, InTx
<1>2. Inv /\ [Next]_vars => Inv'
  BY TypeStep, LockStep
<1>3. Inv => MutualExclusion
  BY DEF LockInv, MutualExclusion
<1> QED
  BY <1>1, <1>2, <1>3, PTL DEF Spec
------------------------------------------------------------------------------
\* The faults under which a path through a handler may end without releaseLock
\* taking effect.
LeakFaults == {"db", "commit", "lock", "crash"}

\* Process h may still hold the lock of p: it is in the critical section, or
\* it is a call that threw at the save of an order the table refuses.
MayHold(h, p) ==
    \/ Critical(h, p)
    \/ h \in Requests /\ ~cart[h].storable /\ pc[h] = "errored"

\* Process h may take, keep as the above allows, or give back the lock of p,
\* and touches no other holder.
LockReturned(h, p) ==
    /\ lock'[p] = h => MayHold(h, p)'
    /\ lock'[p] \in {None, h, lock[p]}
    /\ \A g \in Processes \ {h} : MayHold(g, p)' <=> MayHold(g, p)

\* A call leaves its critical section only by giving the lock back, or by the
\* throw of a save that no fault is needed for.
LEMMA RequestReturns ==
    ASSUME TypeOK, Faults \cap LeakFaults = {},
           NEW r \in Requests, PlaceOrder(r) \/ CrashRequest(r),
           NEW p \in Products, lock[p] = r => MayHold(r, p)
    PROVE  LockReturned(r, p)
<1>0. UNCHANGED <<cart, wpc, wjob>>
  BY RequestFrame
<1>1. /\ ~Fault("db") /\ ~Fault("commit") /\ ~Fault("lock") /\ ~Fault("crash")
  BY DEF LeakFaults, Fault
<1> USE <1>0, <1>1, SaleAssumption
    DEF LockReturned, TypeOK, MayHold, Critical, ProductOf, RequestLock, RequestGoes,
        Reject, Fail, Processes
<1>2. CASE ReadProduct(r) \/ RecheckStock(r) \/ SaveOrder(r) \/ Enqueue(r)
  BY <1>2 DEF ReadProduct, RecheckStock, SaveOrder, Enqueue
<1>3. CASE AcquireLock(r)
  BY <1>3 DEF AcquireLock, TakeLock, LockRefused
<1>4. CASE Deny(r) \/ Unlock(r)
  BY <1>4 DEF Deny, Unlock, DropLock
<1>5. CASE Reread(r) \/ Resave(r) \/ Respond(r)
  BY <1>5 DEF Reread, Resave, Respond
<1> QED
  BY <1>2, <1>3, <1>4, <1>5 DEF PlaceOrder, CrashRequest

\* So does a worker: each path from acquireLock ends in one of two releases.
LEMMA WorkerReturns ==
    ASSUME TypeOK, WorkerInv, Faults \cap LeakFaults = {},
           NEW w \in Workers, Process(w) \/ CrashWorker(w),
           NEW p \in Products, lock[p] = w => MayHold(w, p)
    PROVE  LockReturned(w, p)
<1>0. wpc[w] # "idle" => ProductOf(wjob[w]) \in Products
  BY JobTypes
<1>1. /\ ~Fault("db") /\ ~Fault("commit") /\ ~Fault("lock") /\ ~Fault("crash")
  BY DEF LeakFaults, Fault
<1> USE <1>0, <1>1, SaleAssumption
    DEF LockReturned, TypeOK, MayHold, Critical, ProductOf, WorkerLock, InTx, WorkerGoes,
        Processes, requestVars
<1>2. CASE AcquireInWorker(w)
  BY <1>2 DEF AcquireInWorker, TakeLock, LockRefused
<1>3. CASE GiveUp(w) \/ Begin(w) \/ MarkProcessing(w) \/ MarkFailed(w)
  BY <1>3 DEF GiveUp, MarkFailed, SetFailed, Begin, MarkProcessing
<1>4. CASE Reserve(w) \/ RecordLevel(w) \/ Confirm(w) \/ Decline(w)
  BY <1>4 DEF Reserve, RecordLevel, Confirm, Decline, Conclude
<1>5. CASE UnlockInWorker(w) \/ UnlockFailed(w)
  BY <1>5 DEF UnlockInWorker, UnlockFailed, Release, DropLock
<1>6. CASE Rollback(w)
  BY <1>6 DEF Rollback
<1>7. CASE JobCompleted(w) \/ JobFailed(w)
  BY <1>7 DEF JobCompleted, JobFailed
<1> QED
  BY <1>2, <1>3, <1>4, <1>5, <1>6, <1>7 DEF Process, CrashWorker

LEMMA ReturnStep ==
    ASSUME TypeOK, WorkerInv, LeftOnlyByRefusedRow, Faults \cap LeakFaults = {},
           [Next]_vars
    PROVE  LeftOnlyByRefusedRow'
<1>t. TypeOK' BY TypeStep
<1> SUFFICES ASSUME NEW p \in Products, NEW g \in Processes, lock'[p] = g
             PROVE  MayHold(g, p)'
  BY <1>t DEF LeftOnlyByRefusedRow, TypeOK, MayHold, Critical
<1>1. \A h \in Processes : lock[p] = h => MayHold(h, p)
  BY SaleAssumption DEF LeftOnlyByRefusedRow, MayHold, Processes
<1>2. ASSUME NEW h \in Processes, LockReturned(h, p)
      PROVE  MayHold(g, p)'
  BY <1>1, <1>2, SaleAssumption DEF LockReturned, Processes
<1> USE DEF TypeOK
<1>3. ASSUME NEW w \in Workers, NEW o \in Requests, TakeJob(w, o)
      PROVE  MayHold(g, p)'
  BY <1>1, <1>3, SaleAssumption DEF TakeJob, WorkerGoes, requestVars, MayHold, Critical, ProductOf,
     WorkerLock, InTx, Processes
<1>4. ASSUME NEW o \in Requests, Promote(o) \/ RecoverStalled(o)
      PROVE  MayHold(g, p)'
  BY <1>1, <1>4 DEF Promote, RecoverStalled, requestVars, workerVars,
     MayHold, Critical, ProductOf
<1>5. ASSUME NEW q \in Products, Expire(q) \/ Administer(q)
      PROVE  MayHold(g, p)'
  BY <1>1, <1>5, SaleAssumption DEF Expire, Administer, CreateProduct, UpdateProduct,
     requestVars, workerVars, MayHold, Critical, ProductOf, Processes
<1>6. CASE UNCHANGED vars
  BY <1>1, <1>6 DEF vars, requestVars, workerVars, MayHold, Critical, ProductOf
<1> QED
  BY <1>1, <1>2, <1>3, <1>4, <1>5, <1>6, RequestReturns, WorkerReturns
  DEF Next, Terminated, Processes

\* As long as the database, the nodes and the processes do what they are asked
\* to, however the metrics and the queue fail and whoever pauses, a product
\* lock is left behind only by a call whose order the table does not take;
\* every other path through the two handlers gives it back.
THEOREM OnlyRefusalsLeaveLocks ==
    Faults \cap LeakFaults = {} => (Spec => []LeftOnlyByRefusedRow)
<1> SUFFICES ASSUME Faults \cap LeakFaults = {} PROVE Spec => []LeftOnlyByRefusedRow
  OBVIOUS
<1>1. Init => LeftOnlyByRefusedRow
  BY DEF Init, LeftOnlyByRefusedRow
<1>2. TypeOK /\ WorkerInv /\ LeftOnlyByRefusedRow /\ [Next]_vars => LeftOnlyByRefusedRow'
  BY ReturnStep
<1> QED
  BY <1>1, <1>2, TypeCorrect, PTL DEF Spec
------------------------------------------------------------------------------
\* Process h takes one step at the lock of p, or none, and nobody else does.
AtLock(h, p) == IF Acquiring(h, p) THEN "asking"
                ELSE IF Critical(h, p) THEN "relying" ELSE "away"
ServedStep(h, p) ==
    /\ \A g \in Processes \ {h} : /\ Acquiring(g, p)' <=> Acquiring(g, p)
                                  /\ Critical(g, p)' <=> Critical(g, p)
    /\ \/ AtLock(h, p)' = AtLock(h, p) /\ lock'[p] = lock[p]
       \/ AtLock(h, p) = "away" /\ AtLock(h, p)' = "asking" /\ lock'[p] = lock[p]
       \/ /\ AtLock(h, p) = "asking" /\ AtLock(h, p)' = "relying"
          /\ lock[p] = None /\ lock'[p] = h
       \/ AtLock(h, p) = "asking" /\ AtLock(h, p)' = "away" /\ lock'[p] = lock[p]
       \/ /\ AtLock(h, p) = "relying" /\ AtLock(h, p)' = "away"
          /\ lock'[p] = lock[p] \/ (lock[p] = h /\ lock'[p] = None)

\* Nobody asks for a lock and relies on it.
LEMMA AskingIsAway ==
    ASSUME NEW h \in Processes, NEW p
    PROVE  /\ ~(Acquiring(h, p) /\ Critical(h, p))
           /\ ~(Acquiring(h, p)' /\ Critical(h, p)')
BY SaleAssumption DEF Acquiring, Critical, RequestLock, WorkerLock, InTx, Processes

\* Each such step is one that the promise of the lock allows.
LEMMA ServedIsPromised ==
    ASSUME TypeOK, TypeOK', NEW p \in Products, NEW h \in Processes, ServedStep(h, p)
    PROVE  UNCHANGED LockOf(p)!serviceVars \/ LockOf(p)!ServiceNext
<1> DEFINE asking  == {g \in Processes : Acquiring(g, p)}
           relying == {g \in Processes : Critical(g, p)}
           leases  == {lock[p]} \ {None}
<1>1. None \notin Processes /\ lock[p] \in Processes \cup {None}
  BY SaleAssumption DEF TypeOK, Processes
<1>2. ~(Acquiring(h, p) /\ Critical(h, p)) /\ ~(Acquiring(h, p)' /\ Critical(h, p)')
  BY AskingIsAway
<1>o. \A g \in Processes \ {h} : /\ Acquiring(g, p)' <=> Acquiring(g, p)
                                 /\ Critical(g, p)' <=> Critical(g, p)
  BY DEF ServedStep
<1>s. ASSUME Acquiring(h, p)' <=> Acquiring(h, p)
      PROVE  asking' = asking
  BY <1>o, <1>s DEF Processes
<1>r. ASSUME Critical(h, p)' <=> Critical(h, p)
      PROVE  relying' = relying
  BY <1>o, <1>r DEF Processes
<1> USE <1>2 DEF AtLock
<1>3. CASE AtLock(h, p)' = AtLock(h, p) /\ lock'[p] = lock[p]
  <2>1. /\ Acquiring(h, p)' <=> Acquiring(h, p)
        /\ Critical(h, p)' <=> Critical(h, p)
    BY <1>3
  <2>2. asking' = asking /\ relying' = relying /\ leases' = leases
    BY <1>3, <1>s, <1>r, <2>1
  <2> QED BY <2>2 DEF LockOf!serviceVars
<1>4. CASE AtLock(h, p) = "away" /\ AtLock(h, p)' = "asking" /\ lock'[p] = lock[p]
  <2>1. /\ ~Acquiring(h, p) /\ Acquiring(h, p)'
        /\ ~Critical(h, p) /\ ~Critical(h, p)'
    BY <1>4
  <2>2. asking' = asking \cup {h} BY <1>o, <2>1 DEF Processes
  <2>3. /\ h \notin asking \cup relying
        /\ relying' = relying /\ leases' = leases
    BY <1>4, <1>r, <2>1
  <2>4. LockOf(p)!Ask(h) BY <2>2, <2>3 DEF LockOf!Ask
  <2> QED BY <2>4 DEF LockOf!ServiceNext
<1>5. CASE /\ AtLock(h, p) = "asking" /\ AtLock(h, p)' = "relying"
           /\ lock[p] = None /\ lock'[p] = h
  <2>1. /\ Acquiring(h, p) /\ ~Acquiring(h, p)'
        /\ ~Critical(h, p) /\ Critical(h, p)'
    BY <1>5
  <2>2. asking' = asking \ {h} BY <1>o, <2>1 DEF Processes
  <2>3. relying' = relying \cup {h} BY <1>o, <2>1 DEF Processes
  <2>4. leases = {} /\ leases' = leases \cup {h} BY <1>1, <1>5
  <2>5. LockOf(p)!Grant(h) BY <2>1, <2>2, <2>3, <2>4 DEF LockOf!Grant
  <2> QED BY <2>5 DEF LockOf!ServiceNext
<1>6. CASE AtLock(h, p) = "asking" /\ AtLock(h, p)' = "away" /\ lock'[p] = lock[p]
  <2>1. /\ Acquiring(h, p) /\ ~Acquiring(h, p)'
        /\ ~Critical(h, p) /\ ~Critical(h, p)'
    BY <1>6
  <2>2. asking' = asking \ {h} BY <1>o, <2>1 DEF Processes
  <2>3. relying' = relying /\ leases' = leases BY <1>6, <1>r, <2>1
  <2>4. LockOf(p)!Refuse(h) BY <2>1, <2>2, <2>3 DEF LockOf!Refuse
  <2> QED BY <2>4 DEF LockOf!ServiceNext
<1>7. CASE /\ AtLock(h, p) = "relying" /\ AtLock(h, p)' = "away"
           /\ lock'[p] = lock[p] \/ (lock[p] = h /\ lock'[p] = None)
  <2>1. /\ ~Acquiring(h, p) /\ ~Acquiring(h, p)'
        /\ Critical(h, p) /\ ~Critical(h, p)'
    BY <1>7
  <2>2. relying' = relying \ {h} BY <1>o, <2>1 DEF Processes
  <2>3. asking' = asking BY <1>s, <2>1
  <2>4. leases' \in {leases, leases \ {h}} BY <1>1, <1>7
  <2>5. LockOf(p)!GiveBack(h) BY <2>1, <2>2, <2>3, <2>4 DEF LockOf!GiveBack
  <2> QED BY <2>5 DEF LockOf!ServiceNext
<1> QED BY <1>3, <1>4, <1>5, <1>6, <1>7 DEF ServedStep

LEMMA RequestServed ==
    ASSUME TypeOK, NEW r \in Requests, PlaceOrder(r) \/ CrashRequest(r),
           NEW p \in Products
    PROVE  ServedStep(r, p)
<1>0. UNCHANGED <<cart, wpc, wjob>>
  BY RequestFrame
<1> USE <1>0, SaleAssumption
    DEF ServedStep, AtLock, TypeOK, Acquiring, Critical, ProductOf, RequestLock,
        RequestGoes, Reject, Fail, Processes, Finished
<1>1. CASE ReadProduct(r) \/ RecheckStock(r) \/ SaveOrder(r) \/ Enqueue(r)
  BY <1>1 DEF ReadProduct, RecheckStock, SaveOrder, Enqueue
<1>2. CASE AcquireLock(r)
  BY <1>2 DEF AcquireLock, TakeLock, LockRefused
<1>3. CASE Deny(r) \/ Unlock(r)
  BY <1>3 DEF Deny, Unlock, DropLock
<1>4. CASE Reread(r) \/ Resave(r) \/ Respond(r)
  BY <1>4 DEF Reread, Resave, Respond
<1>5. CASE CrashRequest(r)
  BY <1>5 DEF CrashRequest
<1> QED
  BY <1>1, <1>2, <1>3, <1>4, <1>5 DEF PlaceOrder

LEMMA WorkerServed ==
    ASSUME TypeOK, WorkerInv, NEW w \in Workers, Process(w) \/ CrashWorker(w),
           NEW p \in Products
    PROVE  ServedStep(w, p)
<1>0. wpc[w] # "idle" => ProductOf(wjob[w]) \in Products
  BY JobTypes
<1> USE <1>0, SaleAssumption
    DEF ServedStep, AtLock, TypeOK, Acquiring, Critical, ProductOf, WorkerLock,
        InTx, WorkerGoes, Processes, requestVars
<1>1. CASE AcquireInWorker(w)
  BY <1>1 DEF AcquireInWorker, TakeLock, LockRefused
<1>2. CASE GiveUp(w) \/ Begin(w) \/ MarkProcessing(w) \/ MarkFailed(w)
  BY <1>2 DEF GiveUp, MarkFailed, SetFailed, Begin, MarkProcessing
<1>3. CASE Reserve(w) \/ RecordLevel(w) \/ Confirm(w) \/ Decline(w)
  BY <1>3 DEF Reserve, RecordLevel, Confirm, Decline, Conclude
<1>4. CASE UnlockInWorker(w) \/ UnlockFailed(w)
  BY <1>4 DEF UnlockInWorker, UnlockFailed, Release, DropLock
<1>5. CASE Rollback(w)
  BY <1>5 DEF Rollback
<1>6. CASE JobCompleted(w) \/ JobFailed(w)
  BY <1>6 DEF JobCompleted, JobFailed
<1>7. CASE CrashWorker(w)
  BY <1>7 DEF CrashWorker
<1> QED
  BY <1>1, <1>2, <1>3, <1>4, <1>5, <1>6, <1>7 DEF Process

LEMMA LockServed ==
    ASSUME TypeOK, WorkerInv, [Next]_vars, NEW p \in Products
    PROVE  UNCHANGED LockOf(p)!serviceVars \/ LockOf(p)!ServiceNext
<1>t. TypeOK' BY TypeStep
<1> DEFINE Away == /\ \A g \in Processes : /\ Acquiring(g, p)' <=> Acquiring(g, p)
                                           /\ Critical(g, p)' <=> Critical(g, p)
                   /\ lock'[p] = lock[p]
<1>1. ASSUME NEW r \in Requests, PlaceOrder(r) \/ CrashRequest(r)
      PROVE  LockOf(p)!ServiceNext \/ UNCHANGED LockOf(p)!serviceVars
  BY <1>t, <1>1, RequestServed, ServedIsPromised DEF Processes
<1>2. ASSUME NEW w \in Workers, Process(w) \/ CrashWorker(w)
      PROVE  LockOf(p)!ServiceNext \/ UNCHANGED LockOf(p)!serviceVars
  BY <1>t, <1>2, WorkerServed, ServedIsPromised DEF Processes
<1>3. ASSUME NEW w \in Workers, NEW o \in Requests, TakeJob(w, o)
      PROVE  LockOf(p)!ServiceNext \/ UNCHANGED LockOf(p)!serviceVars
  <2>1. ServedStep(w, p)
    BY <1>3, SaleAssumption DEF TakeJob, WorkerGoes, requestVars, ServedStep, AtLock,
       Acquiring, Critical, ProductOf, WorkerLock, InTx, TypeOK, Processes
  <2> QED BY <1>t, <2>1, ServedIsPromised DEF Processes
<1>4. ASSUME Away
      PROVE  UNCHANGED LockOf(p)!serviceVars
  <2>1. {g \in Processes : Acquiring(g, p)}' = {g \in Processes : Acquiring(g, p)}
    BY <1>4 DEF Processes
  <2>2. {g \in Processes : Critical(g, p)}' = {g \in Processes : Critical(g, p)}
    BY <1>4 DEF Processes
  <2> QED BY <1>4, <2>1, <2>2 DEF LockOf!serviceVars
<1>5. ASSUME NEW o \in Requests, Promote(o) \/ RecoverStalled(o)
      PROVE  Away
  BY <1>5 DEF Promote, RecoverStalled, requestVars, workerVars, Acquiring,
     Critical, ProductOf
<1>6. ASSUME NEW q \in Products, Administer(q)
      PROVE  Away
  BY <1>6 DEF Administer, CreateProduct, UpdateProduct, requestVars, workerVars,
     Acquiring, Critical, ProductOf
<1>7. CASE UNCHANGED vars
  <2>1. Away BY <1>7 DEF vars, requestVars, workerVars, Acquiring, Critical, ProductOf
  <2> QED BY <1>4, <2>1
<1>8. ASSUME NEW q \in Products, Expire(q)
      PROVE  LockOf(p)!ServiceNext \/ UNCHANGED LockOf(p)!serviceVars
  <2>1. \A g \in Processes : /\ Acquiring(g, p)' <=> Acquiring(g, p)
                             /\ Critical(g, p)' <=> Critical(g, p)
    BY <1>8 DEF Expire, requestVars, workerVars, Acquiring, Critical, ProductOf
  <2>2. CASE q # p
    <3>1. Away BY <1>8, <2>1, <2>2 DEF Expire, TypeOK
    <3> QED BY <1>4, <3>1
  <2>3. CASE q = p
    <3>1. PICK h \in Processes : h = lock[p]
      BY <1>8, <2>3 DEF Expire, TypeOK
    <3>2. /\ ~Critical(h, p) \/ Fault("slow")
          /\ lock'[p] = None /\ lock[p] # None
      BY <1>8, <2>3, <3>1 DEF Expire, TypeOK
    <3>3. /\ {g \in Processes : Acquiring(g, p)}' = {g \in Processes : Acquiring(g, p)}
          /\ {g \in Processes : Critical(g, p)}' = {g \in Processes : Critical(g, p)}
      BY <2>1 DEF Processes
    <3>4. ({lock[p]} \ {None})' = ({lock[p]} \ {None}) \ {h} BY <3>1, <3>2
    <3>5. h \in {lock[p]} \ {None} BY <3>1, <3>2
    <3>6. h \notin {g \in Processes : Critical(g, p)} \/ Fault("slow") BY <3>2
    <3>7. LockOf(p)!Lapse(h) BY <3>3, <3>4, <3>5, <3>6 DEF LockOf!Lapse
    <3> QED BY <3>7 DEF LockOf!ServiceNext
  <2> QED BY <2>2, <2>3
<1> QED
  BY <1>1, <1>2, <1>3, <1>4, <1>5, <1>6, <1>7, <1>8 DEF Next, Terminated

\* Whatever the handlers do with it, the lock of each product keeps the promise
\* that RedlockService makes: granted while free, ended by its holder or by a
\* TTL that only the slow outlive.
THEOREM LocksKeepPromise == Spec => LocksServe
<1>1. Init => \A p \in Products : LockOf(p)!ServiceInit
  BY SaleAssumption DEF Init, LockOf!ServiceInit, Acquiring, Critical,
     RequestLock, WorkerLock, InTx
<1>2. TypeOK /\ WorkerInv /\ [Next]_vars =>
          [\A p \in Products :
              UNCHANGED LockOf(p)!serviceVars \/ LockOf(p)!ServiceNext]_vars
  BY LockServed
<1> QED
  BY <1>1, <1>2, TypeCorrect, PTL DEF Spec, LocksServe
------------------------------------------------------------------------------
\* How a call gets to the insert of its order, and where a row comes from.
LEMMA RequestSaving ==
    ASSUME TypeOK, NEW r \in Requests, PlaceOrder(r) \/ CrashRequest(r)
    PROVE  /\ pc'[r] = "saving" =>
                  pc[r] = "checking" /\ Covers(ProductOf(r), QuantityOf(r))
           /\ \A q \in Requests \ {r} : pc'[q] = pc[q] /\ status'[q] = status[q]
           /\ status'[r] # status[r] => /\ status'[r] = "pending"
                                       /\ pc[r] \in {"saving", "resaving"}
           /\ pc'[r] = "unlocking" => status'[r] = "pending"
           /\ pc'[r] = "enqueuing" => pc[r] = "unlocking"
           /\ pc'[r] = "rereading" => pc[r] = "enqueuing"
           /\ pc'[r] = "resaving" => pc[r] = "rereading"
<1> USE DEF TypeOK, RequestGoes, Reject, Fail, tableVars
<1>1. CASE ReadProduct(r) \/ AcquireLock(r) \/ Deny(r)
  BY <1>1 DEF ReadProduct, AcquireLock, Deny
<1>2. CASE RecheckStock(r)
  BY <1>2 DEF RecheckStock
<1>3. CASE SaveOrder(r) \/ Resave(r)
  BY <1>3 DEF SaveOrder, Resave
<1>4. CASE Unlock(r) \/ Enqueue(r) \/ Reread(r) \/ Respond(r)
  BY <1>4 DEF Unlock, Enqueue, Reread, Respond
<1>5. CASE CrashRequest(r)
  BY <1>5 DEF CrashRequest
<1> QED
  BY <1>1, <1>2, <1>3, <1>4, <1>5 DEF PlaceOrder

\* What a worker does to the status of an order: nothing, or it fails or
\* confirms the order of its own job, of which it may have to know more.
LEMMA WorkerStatus ==
    ASSUME TypeOK, WorkerInv, NEW w \in Workers, Process(w) \/ CrashWorker(w)
    PROVE  /\ UNCHANGED <<pc, cart>>
           /\ \A o \in Requests : status'[o] # status[o] =>
                  /\ o = wjob[w]
                  /\ \/ Confirm(w) /\ status'[o] = "confirmed"
                     \/ Decline(w) /\ status'[o] = "failed"
                     \/ /\ wpc[w] \in {"givingUp", "markingFailed"}
                        /\ status'[o] = "failed"
                        /\ UNCHANGED debits
           /\ \A v \in Workers \ {w} : wpc'[v] = wpc[v] /\ wval'[v] = wval[v]
           /\ wpc'[w] = "declining" => Fault("metrics") \/ wval'[w] = None
<1> USE DEF TypeOK, WorkerInv, WorkerGoes, tableVars, requestVars
<1>1. CASE AcquireInWorker(w) \/ Begin(w) \/ MarkProcessing(w) \/ Reserve(w)
  BY <1>1 DEF AcquireInWorker, Begin, MarkProcessing, Reserve
<1>2. CASE GiveUp(w) \/ MarkFailed(w)
  BY <1>2 DEF GiveUp, MarkFailed, SetFailed
<1>3. CASE RecordLevel(w)
  BY <1>3 DEF RecordLevel
<1>4. CASE Confirm(w)
  BY <1>4, JobTypes DEF Confirm, Conclude, Commit
<1>5. CASE Decline(w)
  BY <1>5, JobTypes DEF Decline, Conclude, Commit
<1>6. CASE UnlockInWorker(w) \/ UnlockFailed(w) \/ Rollback(w)
  BY <1>6 DEF UnlockInWorker, UnlockFailed, Release, Rollback
<1>7. CASE JobCompleted(w) \/ JobFailed(w) \/ CrashWorker(w)
  BY <1>7 DEF JobCompleted, JobFailed, CrashWorker
<1> QED
  BY <1>1, <1>2, <1>3, <1>4, <1>5, <1>6, <1>7 DEF Process

\* The steps that touch neither a status nor a transaction.
LEMMA OtherStatus ==
    ASSUME \/ \E w \in Workers, o \in Requests : TakeJob(w, o)
           \/ \E o \in Requests : Promote(o) \/ RecoverStalled(o)
           \/ \E p \in Products : Expire(p) \/ Administer(p)
           \/ UNCHANGED vars,
           TypeOK
    PROVE  /\ UNCHANGED <<status, debits, pc, cart, wval>>
           /\ AdminStock = {} => UNCHANGED stock
           /\ \A w \in Workers : wpc'[w] = "declining" => wpc[w] = "declining"
<1> USE DEF TypeOK, tableVars, requestVars, workerVars
<1>1. CASE \E w \in Workers, o \in Requests : TakeJob(w, o)
  BY <1>1 DEF TakeJob, WorkerGoes
<1>2. CASE \E o \in Requests : Promote(o) \/ RecoverStalled(o)
  BY <1>2 DEF Promote, RecoverStalled
<1>3. CASE \E p \in Products : Expire(p)
  BY <1>3 DEF Expire
<1>4. CASE \E p \in Products : Administer(p)
  BY <1>4 DEF Administer, CreateProduct, UpdateProduct
<1>5. CASE UNCHANGED vars
  BY <1>5 DEF vars
<1> QED
  BY <1>1, <1>2, <1>3, <1>4, <1>5

\* While a call holds the lock, no worker commits a decrement of its product.
LEMMA SavingStep ==
    ASSUME QueueInv, LockInv, SavingInv, [Next]_vars
    PROVE  SavingInv'
<1> SUFFICES ASSUME ~Fault("slow"), AdminStock = {},
                    NEW r \in Requests, pc'[r] = "saving"
             PROVE  Covers(ProductOf(r), QuantityOf(r))'
  BY DEF SavingInv, Fault
<1> USE SaleAssumption
    DEF QueueInv, StockInv, SavingInv, Covers, ProductOf, QuantityOf
<1>1. ASSUME NEW q \in Requests, PlaceOrder(q) \/ CrashRequest(q)
      PROVE  Covers(ProductOf(r), QuantityOf(r))'
  BY <1>1, RequestFrame, RequestSaving
<1>2. ASSUME NEW w \in Workers, Process(w) \/ CrashWorker(w)
      PROVE  Covers(ProductOf(r), QuantityOf(r))'
  <2>1. UNCHANGED <<pc, cart>>
    BY <1>2, WorkerStatus
  <2>2. CASE UNCHANGED stock
    BY <2>1, <2>2
  <2>3. CASE ~UNCHANGED stock
    <3>1. /\ wpc[w] \in {"confirming", "declining"}
          /\ stock' = [stock EXCEPT ![ProductOf(wjob[w])] = wval[w]]
      BY <1>2, <2>3, WorkerDebits
    <3>2. ProductOf(wjob[w]) \in Products /\ ProductOf(r) \in Products
      BY <3>1, JobTypes, CartTypes
    <3>3. ProductOf(wjob[w]) # ProductOf(r)
      <4>1. Critical(w, ProductOf(wjob[w])) /\ Critical(r, ProductOf(r))
        BY <2>1, <3>1 DEF Critical, WorkerLock, InTx, RequestLock
      <4>2. w # r
        OBVIOUS
      <4> QED
        BY <3>2, <4>1, <4>2 DEF LockInv, Processes
    <3> QED
      BY <2>1, <3>1, <3>2, <3>3 DEF TypeOK
  <2> QED
    BY <2>2, <2>3
<1>3. ASSUME \/ \E w \in Workers, o \in Requests : TakeJob(w, o)
             \/ \E o \in Requests : Promote(o) \/ RecoverStalled(o)
             \/ \E p \in Products : Expire(p) \/ Administer(p)
             \/ UNCHANGED vars
      PROVE  Covers(ProductOf(r), QuantityOf(r))'
  BY <1>3, OtherStatus
<1> QED
  BY <1>1, <1>2, <1>3 DEF Next, Terminated
\* No step takes an order row away.
LEMMA SavedStep ==
    ASSUME TypeOK, WorkerInv, SavedInv, [Next]_vars
    PROVE  SavedInv'
<1>1. ASSUME NEW r \in Requests, PlaceOrder(r) \/ CrashRequest(r)
      PROVE  SavedInv'
  BY <1>1, RequestSaving DEF SavedInv
<1>2. ASSUME NEW w \in Workers, Process(w) \/ CrashWorker(w)
      PROVE  SavedInv'
  BY <1>2, WorkerStatus DEF SavedInv
<1> QED
  BY <1>1, <1>2, OtherStatus DEF Next, Terminated, SavedInv

\* What a call has left behind, by the point it has reached.
LEMMA RequestTraces ==
    ASSUME TypeOK, SavedInv, CallInv,
           NEW r \in Requests, PlaceOrder(r) \/ CrashRequest(r)
    PROVE  /\ pc'[r] \in UnsavedPCs => status'[r] = "none" /\ job'[r] = "none"
           /\ pc'[r] \in QueuedPCs => status'[r] # "none" /\ job'[r] # "none"
           /\ job[r] # "none" => job'[r] # "none"
           /\ pc' = [pc EXCEPT ![r] = pc'[r]]
           /\ status' = [status EXCEPT ![r] = status'[r]]
           /\ job' = [job EXCEPT ![r] = job'[r]]
           /\ UNCHANGED wjob
<1> USE DEF TypeOK, SavedInv, CallInv, UnsavedPCs, QueuedPCs, tableVars,
            queueVars, workerVars, Reject, Fail, RequestGoes
<1>1. CASE ReadProduct(r) \/ AcquireLock(r) \/ RecheckStock(r) \/ Deny(r)
  BY <1>1 DEF ReadProduct, AcquireLock, RecheckStock, Deny
<1>2. CASE SaveOrder(r) \/ Unlock(r)
  BY <1>2 DEF SaveOrder, Unlock
<1>3. CASE Enqueue(r)
  BY <1>3 DEF Enqueue
<1>4. CASE Reread(r) \/ Resave(r) \/ Respond(r)
  BY <1>4 DEF Reread, Resave, Respond
<1>5. CASE CrashRequest(r)
  BY <1>5 DEF CrashRequest
<1> QED
  BY <1>1, <1>2, <1>3, <1>4, <1>5 DEF PlaceOrder

\* No step takes an order or a job away, or gives one to a call that has not
\* come to it: workers only write the orders of jobs that were added.
LEMMA CallStep ==
    ASSUME StockInv, SavedInv, CallInv, [Next]_vars
    PROVE  CallInv'
<1> USE DEF StockInv, TypeOK, CallInv
<1>1. ASSUME NEW r \in Requests, PlaceOrder(r) \/ CrashRequest(r)
      PROVE  CallInv'
  BY <1>1, RequestTraces, SaleAssumption
<1>2. ASSUME NEW w \in Workers, Process(w) \/ CrashWorker(w)
      PROVE  CallInv'
  <2>1. CASE JobCompleted(w) \/ JobFailed(w)
    BY <2>1, JobTypes, SaleAssumption
    DEF JobCompleted, JobFailed, WorkerGoes, tableVars, requestVars
  <2>2. CASE CrashWorker(w)
    BY <2>2 DEF CrashWorker, tableVars, queueVars, requestVars
  <2>3. CASE ~JobCompleted(w) /\ ~JobFailed(w) /\ ~CrashWorker(w)
    <3>1. UNCHANGED <<pc, job, wjob>> /\ wjob[w] \in Requests
      BY <1>2, <2>3, WorkerQueueing, JobTypes DEF queueVars
    <3>2. \A o \in Requests : status'[o] # status[o] => job[o] # "none"
      BY <1>2, <3>1, WorkerStatus, SaleAssumption
    <3>3. \A o \in Requests : status'[o] = "none" => status[o] = "none"
      BY <1>2, WorkerStatus
    <3> QED
      BY <3>1, <3>2, <3>3 DEF UnsavedPCs, QueuedPCs
  <2> QED
    BY <2>1, <2>2, <2>3
<1>3. ASSUME NEW w \in Workers, NEW o \in Requests, TakeJob(w, o)
      PROVE  CallInv'
  BY <1>3 DEF TakeJob, WorkerGoes, tableVars, requestVars
<1>4. ASSUME NEW o \in Requests, Promote(o) \/ RecoverStalled(o)
      PROVE  CallInv'
  BY <1>4 DEF Promote, RecoverStalled, tableVars, requestVars, workerVars
<1>5. ASSUME NEW p \in Products, Expire(p) \/ Administer(p)
      PROVE  CallInv'
  BY <1>5 DEF Expire, Administer, CreateProduct, UpdateProduct, tableVars,
     queueVars, requestVars, workerVars
<1>6. CASE UNCHANGED vars
  BY <1>6 DEF vars, tableVars, queueVars, requestVars, workerVars
<1> QED
  BY <1>1, <1>2, <1>3, <1>4, <1>5, <1>6 DEF Next, Terminated

\* With the metrics intact, a transaction that declines took nothing.
LEMMA DeclineStep ==
    ASSUME TypeOK, WorkerInv, DeclineInv, [Next]_vars
    PROVE  DeclineInv'
<1>1. ASSUME NEW r \in Requests, PlaceOrder(r) \/ CrashRequest(r)
      PROVE  DeclineInv'
  BY <1>1, RequestFrame DEF DeclineInv, Fault
<1>2. ASSUME NEW w \in Workers, Process(w) \/ CrashWorker(w)
      PROVE  DeclineInv'
  BY <1>2, WorkerStatus DEF DeclineInv, Fault
<1> QED
  BY <1>1, <1>2, OtherStatus DEF Next, Terminated, DeclineInv, Fault

\* An order that becomes FAILED was not sold, and one that is sold is not
\* FAILED: its transaction confirms it, and no attempt follows.
LEMMA FailedStep ==
    ASSUME QueueInv, DeclineInv, FailedKeepsNoStock, [Next]_vars
    PROVE  FailedKeepsNoStock'
<1> SUFFICES ASSUME NoRepeat, ~Fault("metrics"),
                    NEW o \in Requests, status'[o] = "failed"
             PROVE  debits'[o] = 0
  BY DEF FailedKeepsNoStock, NoRepeat, Fault, RepeatFaults
<1>0. status[o] = "failed" => debits[o] = 0
  BY DEF FailedKeepsNoStock, NoRepeat, Fault, RepeatFaults
<1> USE DEF QueueInv, StockInv, TypeOK
<1>1. ASSUME NEW r \in Requests, PlaceOrder(r) \/ CrashRequest(r)
      PROVE  debits'[o] = 0
  BY <1>0, <1>1, RequestFrame
<1>2. ASSUME NEW w \in Workers, Process(w) \/ CrashWorker(w)
      PROVE  debits'[o] = 0
  <2> DEFINE Own == o = wjob[w]
  <2>1. Own /\ wpc[w] \notin {"unlocking", "finishing"} => debits[o] = 0
    BY SaleAssumption DEF SoldInv, OwnerInv, NoRepeat
  <2>2. CASE Decline(w)
    <3>1. wpc[w] = "declining" /\ wval[w] = None
      BY <2>2 DEF Decline, Conclude, WorkerGoes, DeclineInv, Fault
    <3>2. UNCHANGED debits
      BY <2>2, <3>1 DEF Decline, Conclude, Commit
    <3> QED
      BY <1>0, <1>2, <2>1, <2>2, <3>1, <3>2, WorkerStatus DEF Decline,
         Conclude, Commit
  <2>3. CASE Confirm(w)
    <3>1. CASE UNCHANGED <<status, debits>>
      BY <1>0, <3>1
    <3>2. CASE Commit(w, "confirmed")
      <4>1. wpc[w] = "confirming" /\ wjob[w] \in Requests
        BY <2>3, JobTypes DEF Confirm, Conclude, WorkerGoes
      <4>2. ~Own
        BY <3>2, <4>1 DEF Commit
      <4>3. status'[o] = status[o] /\ debits'[o] = debits[o]
        BY <3>2, <4>1, <4>2 DEF Commit
      <4> QED
        BY <1>0, <4>3
    <3> QED
      BY <2>3, <3>1, <3>2 DEF Confirm, Conclude
  <2>4. CASE ~Decline(w) /\ ~Confirm(w)
    <3>1. UNCHANGED debits
      BY <1>2, <2>4, WorkerDebits
    <3>2. status'[o] # status[o] => Own /\ wpc[w] \in {"givingUp", "markingFailed"}
      BY <1>2, <2>4, WorkerStatus
    <3> QED
      BY <1>0, <2>1, <3>1, <3>2
  <2> QED
    BY <2>2, <2>3, <2>4
<1> QED
  BY <1>0, <1>1, <1>2, OtherStatus DEF Next, Terminated
------------------------------------------------------------------------------
LEMMA FlowInit ==
    ASSUME Init
    PROVE  IInv
<1>1. LockInv /\ SavingInv /\ SavedInv /\ DeclineInv /\ FailedKeepsNoStock
  BY SaleAssumption
  DEF Init, LockInv, Critical, RequestLock, WorkerLock, InTx, SavingInv,
      SavedInv, DeclineInv, FailedKeepsNoStock
<1>2. CallInv
  BY SaleAssumption DEF Init, CallInv, UnsavedPCs, QueuedPCs
<1> QED
  BY <1>1, <1>2, QueueInit DEF IInv, QueueInv

LEMMA FlowStep ==
    ASSUME IInv, [Next]_vars
    PROVE  IInv'
BY StockStep, LockStep, SavingStep, SavedStep, QueueStep, CallStep, OwnerStep,
   SoldStep, DeclineStep, FailedStep DEF IInv, QueueInv, StockInv

\* The inductive invariant of the whole specification, under whatever faults.
THEOREM FlowSafe == Spec => []IInv
<1>1. Init => IInv
  BY FlowInit
<1>2. IInv /\ [Next]_vars => IInv'
  BY FlowStep
<1> QED
  BY <1>1, <1>2, PTL DEF Spec

\* A FAILED order keeps no stock: every failing path undoes the decrement.
THEOREM FailuresKeepNothing == Spec => []FailedKeepsNoStock
<1>1. IInv => FailedKeepsNoStock
  BY DEF IInv
<1> QED
  BY <1>1, FlowSafe, PTL

\* An accepted call has its order and its job, a rejected one has neither.
THEOREM NoOrderLost == Spec => []NoSilentOrphan
<1>1. IInv => NoSilentOrphan
  BY DEF IInv, CallInv, UnsavedPCs, QueuedPCs, NoSilentOrphan
<1> QED
  BY <1>1, FlowSafe, PTL

\* Without pauses and administrators, an order is inserted only while the
\* committed stock covers it.
THEOREM Admission ==
    ~Fault("slow") /\ AdminStock = {} => (Spec => AdmittedWithStock)
<1> SUFFICES ASSUME ~Fault("slow"), AdminStock = {}
             PROVE  Spec => AdmittedWithStock
  OBVIOUS
<1> DEFINE Admitted ==
        \A r \in Requests : status[r] = "none" /\ status'[r] = "pending"
                                => Covers(ProductOf(r), QuantityOf(r))
<1>1. IInv /\ [Next]_vars => [Admitted]_vars
  <2> SUFFICES ASSUME IInv, [Next]_vars,
                      NEW r \in Requests,
                      status[r] = "none", status'[r] = "pending"
               PROVE  Covers(ProductOf(r), QuantityOf(r))
    OBVIOUS
  <2> USE DEF IInv, StockInv
  <2>1. ASSUME NEW q \in Requests, PlaceOrder(q) \/ CrashRequest(q)
        PROVE  pc[r] = "saving"
    BY <2>1, RequestSaving DEF SavedInv
  <2>2. ASSUME NEW w \in Workers, Process(w) \/ CrashWorker(w)
        PROVE  FALSE
    BY <2>2, WorkerStatus
  <2> QED
    BY <2>1, <2>2, OtherStatus DEF Next, Terminated, SavingInv
<1> QED
  BY <1>1, FlowSafe, PTL DEF Spec, AdmittedWithStock
==============================================================================
