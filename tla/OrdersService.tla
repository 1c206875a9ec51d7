---------------------------- MODULE OrdersService ----------------------------
(***************************************************************************)
(* OrdersService.placeOrder: one action from each await to the next.       *)
(***************************************************************************)
EXTENDS InventoryService

\* A condition of the code is thrown: its own 'failed' count, and then the
\* one of the catch block that every throw passes through.
Reject(r, from) ==
    /\ RequestGoes(r, from, "rejected")
    /\ \E n \in (IF Fault("metrics") THEN 0..2 ELSE {2}) :
           tally' = [tally EXCEPT ![r] = @ + n]

\* An awaited call throws: the catch block counts it.
Fail(r, from) ==
    /\ RequestGoes(r, from, "errored")
    /\ \E n \in (IF Fault("metrics") THEN 0..1 ELSE {1}) :
           tally' = [tally EXCEPT ![r] = @ + n]

ReadProduct(r) ==
    LET p == ProductOf(r)
    IN  /\ \/ /\ sale[p] = "on"
              /\ Covers(p, QuantityOf(r))
              /\ RequestGoes(r, "idle", "locking")
              /\ read' = [read EXCEPT ![r] = stock[p]]
              /\ UNCHANGED tally
           \/ /\ sale[p] # "on" \/ ~Covers(p, QuantityOf(r))
              /\ Reject(r, "idle")
              /\ UNCHANGED read
           \/ /\ Fault("db")
              /\ Fail(r, "idle")
              /\ UNCHANGED read
        /\ UNCHANGED <<tableVars, queueVars, workerVars, lock, cart, gauge,
                       seen>>

AcquireLock(r) ==
    /\ \/ /\ TakeLock(ProductOf(r), r)
          /\ RequestGoes(r, "locking", "checking")
          /\ UNCHANGED tally
       \/ /\ LockRefused(ProductOf(r), r)
          /\ Reject(r, "locking")
    /\ UNCHANGED <<tableVars, queueVars, workerVars, cart, gauge, read, seen>>

\* Mutant: the order is saved on the strength of the first read.
RecheckSkipped(r) ==
    /\ RequestGoes(r, "checking", "saving")
    /\ UNCHANGED <<tableVars, queueVars, workerVars, lock, cart, metricVars,
                   read, seen>>

\* The second read, under the lock. If it throws, the lock is left behind.
RecheckStock(r) ==
    LET enough == Covers(ProductOf(r), QuantityOf(r))
    IN  /\ \/ /\ enough
              /\ RequestGoes(r, "checking", "saving")
              /\ UNCHANGED tally
           \/ /\ ~enough
              /\ RequestGoes(r, "checking", "denying")
              /\ UNCHANGED tally
           \/ /\ Fault("db")
              /\ Fail(r, "checking")
        /\ UNCHANGED <<tableVars, queueVars, workerVars, lock, cart, gauge,
                       read, seen>>

\* Mutant: the early exit forgets the lock.
DenyKeepingLock(r) ==
    /\ Reject(r, "denying")
    /\ UNCHANGED <<tableVars, queueVars, workerVars, lock, cart, gauge, read,
                   seen>>

Deny(r) ==
    /\ DropLock(ProductOf(r), r)
    /\ Reject(r, "denying")
    /\ UNCHANGED <<tableVars, queueVars, workerVars, cart, gauge, read, seen>>

\* orderRepository.save of the new order. If it throws, and it always does for
\* a row the table does not take, the lock is left behind; under "commit" the
\* row is there all the same.
SaveOrder(r) ==
    /\ \/ /\ cart[r].storable
          /\ status' = [status EXCEPT ![r] = "pending"]
          /\ \/ RequestGoes(r, "saving", "unlocking") /\ UNCHANGED tally
             \/ Fault("commit") /\ Fail(r, "saving")
       \/ /\ ~cart[r].storable \/ Fault("db")
          /\ Fail(r, "saving")
          /\ UNCHANGED status
    /\ UNCHANGED <<stock, sale, debits, queueVars, workerVars, lock, cart,
                   gauge, read, seen>>

Unlock(r) ==
    /\ DropLock(ProductOf(r), r)
    /\ RequestGoes(r, "unlocking", "enqueuing")
    /\ UNCHANGED <<tableVars, queueVars, workerVars, metricVars, cart, read,
                   seen>>

\* Mutant: a failing add is tried again, and again.
EnqueueAgain(r) ==
    /\ \/ /\ RequestGoes(r, "enqueuing", "rereading")
          /\ job' = [job EXCEPT ![r] = "waiting"]
       \/ /\ Fault("queue")
          /\ RequestGoes(r, "enqueuing", "unlocking")
          /\ UNCHANGED job
    /\ UNCHANGED <<tableVars, owner, tries, stalls, workerVars, lock, cart,
                   metricVars, read, seen>>

\* Mutant: an error of the queue is only logged.
EnqueueSilently(r) ==
    /\ RequestGoes(r, "enqueuing", "rereading")
    /\ \/ job' = [job EXCEPT ![r] = "waiting"]
       \/ Fault("queue") /\ UNCHANGED job
    /\ UNCHANGED <<tableVars, owner, tries, stalls, workerVars, lock, cart,
                   metricVars, read, seen>>

\* orderQueue.add, after the lock is gone. If it throws, the order stays
\* pending, with or without a job.
Enqueue(r) ==
    /\ \/ /\ job' = [job EXCEPT ![r] = "waiting"]
          /\ \/ RequestGoes(r, "enqueuing", "rereading") /\ UNCHANGED tally
             \/ Fault("queue") /\ Fail(r, "enqueuing")
       \/ /\ Fault("queue")
          /\ Fail(r, "enqueuing")
          /\ UNCHANGED job
    /\ UNCHANGED <<tableVars, owner, tries, stalls, workerVars, lock, cart,
                   gauge, read, seen>>

\* orderRepository.save of the order with its job id, first half: TypeORM
\* loads the row to find out which columns the entity changes.
Reread(r) ==
    /\ \/ /\ RequestGoes(r, "rereading", "resaving")
          /\ seen' = [seen EXCEPT ![r] = status[r]]
          /\ UNCHANGED tally
       \/ /\ Fault("db")
          /\ Fail(r, "rereading")
          /\ UNCHANGED seen
    /\ UNCHANGED <<tableVars, queueVars, workerVars, lock, cart, gauge, read>>

\* Second half: the UPDATE sets every column in which the entity, still
\* PENDING in memory, differs from the row that was loaded.
Resave(r) ==
    /\ \/ /\ OrderRowFree(r)
          /\ status' = [status EXCEPT
                            ![r] = IF seen[r] # "pending" THEN "pending" ELSE @]
          /\ \/ RequestGoes(r, "resaving", "responding") /\ UNCHANGED tally
             \/ Fault("commit") /\ Fail(r, "resaving")
       \/ /\ Fault("db")
          /\ Fail(r, "resaving")
          /\ UNCHANGED status
    /\ UNCHANGED <<stock, sale, debits, queueVars, workerVars, lock, cart,
                   gauge, read, seen>>

\* The metrics, the inventory level among them with the stock of the FIRST
\* read, and the queue position; a throw turns a queued order into an error.
Respond(r) ==
    /\ \/ /\ gauge' = [gauge EXCEPT ![ProductOf(r)] = read[r]]
          /\ \/ RequestGoes(r, "responding", "accepted") /\ UNCHANGED tally
             \/ (Fault("metrics") \/ Fault("queue")) /\ Fail(r, "responding")
       \/ /\ Fault("metrics")
          /\ Fail(r, "responding")
          /\ UNCHANGED gauge
    /\ UNCHANGED <<tableVars, queueVars, workerVars, lock, cart, read, seen>>

\* The process that runs the call dies.
CrashRequest(r) ==
    /\ Fault("crash")
    /\ pc[r] \notin Finished
    /\ pc' = [pc EXCEPT ![r] = "errored"]
    /\ UNCHANGED <<tableVars, queueVars, workerVars, metricVars, lock, cart,
                   read, seen>>

PlaceOrder(r) ==
    \/ ReadProduct(r) \/ AcquireLock(r) \/ RecheckStock(r) \/ Deny(r)
    \/ SaveOrder(r) \/ Unlock(r) \/ Enqueue(r) \/ Reread(r) \/ Resave(r)
    \/ Respond(r)
==============================================================================
