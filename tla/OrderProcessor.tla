---------------------------- MODULE OrderProcessor ----------------------------
(***************************************************************************)
(* OrderProcessor.process: one action from each await to the next.         *)
(***************************************************************************)
EXTENDS OrderQueue

\* Mutant: the worker relies on the conditional decrement alone.
AcquireNothing(w) ==
    /\ WorkerGoes(w, "locking", "starting")
    /\ UNCHANGED <<tableVars, queueVars, metricVars, requestVars, lock, cart,
                   wjob, wval>>

AcquireInWorker(w) ==
    /\ \/ /\ WorkerGoes(w, "locking", "starting")
          /\ TakeLock(ProductOf(wjob[w]), w)
       \/ /\ WorkerGoes(w, "locking", "givingUp")
          /\ LockRefused(ProductOf(wjob[w]), w)
    /\ UNCHANGED <<tableVars, queueVars, metricVars, requestVars, cart, wjob,
                   wval>>

\* orderRepository.update(orderId, FAILED), outside of the transaction.
SetFailed(w, from, to) ==
    /\ \/ /\ \/ WorkerGoes(w, from, to)
             \/ Fault("commit") /\ WorkerGoes(w, from, "throwing")
          /\ OrderRowFree(wjob[w])
          /\ status' = [status EXCEPT ![wjob[w]] = "failed"]
       \/ /\ WorkerGoes(w, from, "throwing")
          /\ Fault("db")
          /\ UNCHANGED status
    /\ UNCHANGED <<stock, sale, debits, queueVars, metricVars, requestVars,
                   lock, cart, wjob, wval>>

\* Without the lock the order has failed, and the job completes all the same.
GiveUp(w) == SetFailed(w, "givingUp", "finishing")

\* Connecting and BEGIN happen before the try block: if they throw, the lock
\* is left behind.
Begin(w) ==
    /\ \/ WorkerGoes(w, "starting", "marking")
       \/ Fault("db") /\ WorkerGoes(w, "starting", "throwing")
    /\ UNCHANGED <<tableVars, queueVars, metricVars, requestVars, lock, cart,
                   wjob, wval>>

\* The first write of the transaction, which takes the row lock of the order;
\* an enum type without the label refuses it.
MarkProcessing(w) ==
    /\ \/ /\ WorkerGoes(w, "marking", "reserving")
          /\ "processing" \in StatusColumn
          /\ OrderRowFree(wjob[w])
       \/ /\ WorkerGoes(w, "marking", "rollingBack")
          /\ "processing" \notin StatusColumn \/ Fault("db")
    /\ UNCHANGED <<tableVars, queueVars, metricVars, requestVars, lock, cart,
                   wjob, wval>>

\* Mutant: COMMIT comes before the last update of the status.
CommitEarly(w, outcome) ==
    LET o == wjob[w]
    IN  /\ status' = [status EXCEPT ![o] = "processing"]
        /\ IF wval[w] # None
           THEN /\ stock' = [stock EXCEPT ![ProductOf(o)] = wval[w]]
                /\ debits' = [debits EXCEPT ![o] = @ + 1]
           ELSE UNCHANGED <<stock, debits>>
        /\ wval' = [wval EXCEPT ![w] = None]

\* COMMIT publishes what the transaction wrote: the last status, and the
\* stock if the decrement is part of it.
Commit(w, outcome) ==
    LET o == wjob[w]
    IN  /\ status' = [status EXCEPT ![o] = outcome]
        /\ IF wval[w] # None
           THEN /\ stock' = [stock EXCEPT ![ProductOf(o)] = wval[w]]
                /\ debits' = [debits EXCEPT ![o] = @ + 1]
           ELSE UNCHANGED <<stock, debits>>
        /\ wval' = [wval EXCEPT ![w] = None]

\* Mutant: a COMMIT that throws makes the run begin its transaction again.
ConcludeAgain(w, from, outcome) ==
    /\ \/ /\ \/ WorkerGoes(w, from, "unlocking")
             \/ Fault("commit") /\ WorkerGoes(w, from, "starting")
          /\ Commit(w, outcome)
       \/ /\ WorkerGoes(w, from, "rollingBack")
          /\ Fault("db")
          /\ UNCHANGED <<status, stock, debits, wval>>
    /\ UNCHANGED <<sale, queueVars, metricVars, requestVars, lock, cart, wjob>>

\* The last update and the COMMIT. When a COMMIT that was applied throws,
\* the ROLLBACK of the catch block throws too, and the lock is left behind.
Conclude(w, from, outcome) ==
    /\ \/ /\ \/ WorkerGoes(w, from, "unlocking")
             \/ Fault("commit") /\ WorkerGoes(w, from, "throwing")
          /\ Commit(w, outcome)
       \/ /\ WorkerGoes(w, from, "rollingBack")
          /\ Fault("db")
          /\ UNCHANGED <<status, stock, debits, wval>>
    /\ UNCHANGED <<sale, queueVars, metricVars, requestVars, lock, cart, wjob>>

Confirm(w) == Conclude(w, "confirming", "confirmed")
Decline(w) == Conclude(w, "declining", "failed")

\* releaseLock, after the commit or at the end of the catch block.
Release(w, from, to) ==
    /\ WorkerGoes(w, from, to)
    /\ DropLock(ProductOf(wjob[w]), w)
    /\ UNCHANGED <<tableVars, queueVars, metricVars, requestVars, cart, wjob,
                   wval>>

\* Mutant: releaseLock does not catch the errors of the nodes.
UnlockOrThrow(w) ==
    \/ Release(w, "unlocking", "finishing")
    \/ Fault("lock") /\ Release(w, "unlocking", "rollingBack")

UnlockInWorker(w) == Release(w, "unlocking", "finishing")

\* Mutant: the catch block commits what there is.
RollbackForgotten(w) ==
    /\ WorkerGoes(w, "rollingBack", "markingFailed")
    /\ Commit(w, "failed")
    /\ UNCHANGED <<sale, queueVars, metricVars, requestVars, lock, cart, wjob>>

\* The catch block: roll back, mark the order failed, release, throw again.
\* PostgreSQL undoes a transaction whose ROLLBACK it never received.
Rollback(w) ==
    /\ \/ WorkerGoes(w, "rollingBack", "markingFailed")
       \/ Fault("db") /\ WorkerGoes(w, "rollingBack", "throwing")
    /\ wval' = [wval EXCEPT ![w] = None]
    /\ UNCHANGED <<tableVars, queueVars, metricVars, requestVars, lock, cart,
                   wjob>>

MarkFailed(w)  == SetFailed(w, "markingFailed", "unlockingFailed")
UnlockFailed(w) == Release(w, "unlockingFailed", "throwing")

\* The process that runs the worker dies and another one takes its place:
\* the transaction is undone, the locks stay until they run out.
CrashWorker(w) ==
    /\ Fault("crash")
    /\ wpc[w] # "idle"
    /\ wpc' = [wpc EXCEPT ![w] = "idle"]
    /\ wjob' = [wjob EXCEPT ![w] = None]
    /\ wval' = [wval EXCEPT ![w] = None]
    /\ UNCHANGED <<tableVars, queueVars, metricVars, requestVars, lock, cart>>

Process(w) ==
    \/ AcquireInWorker(w) \/ GiveUp(w) \/ Begin(w) \/ MarkProcessing(w)
    \/ Reserve(w) \/ RecordLevel(w) \/ Confirm(w) \/ Decline(w)
    \/ UnlockInWorker(w) \/ Rollback(w) \/ MarkFailed(w) \/ UnlockFailed(w)
    \/ JobCompleted(w) \/ JobFailed(w)
==============================================================================
