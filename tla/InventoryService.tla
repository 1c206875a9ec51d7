--------------------------- MODULE InventoryService ---------------------------
(***************************************************************************)
(* The products table: the conditional decrement a worker runs inside its  *)
(* transaction, and the two administrative writes.                         *)
(***************************************************************************)
EXTENDS ProductLock

\* The WHERE clause of the decrement, and the stock checks of placeOrder.
Covers(p, q) == stock[p] >= q

\* Mutant: the decrement has no stock condition.
ReserveUnchecked(w) ==
    LET p == ProductOf(wjob[w])
    IN  /\ WorkerGoes(w, "reserving", "recording")
        /\ ProductRowFree(p)
        /\ wval' = [wval EXCEPT ![w] = stock[p] - QuantityOf(wjob[w])]
        /\ UNCHANGED <<tableVars, queueVars, metricVars, requestVars, lock,
                       cart, wjob>>

\* Mutant: the stock is read, compared and written back, without a row lock.
ReserveByReading(w) ==
    LET p == ProductOf(wjob[w])
        q == QuantityOf(wjob[w])
    IN  /\ WorkerGoes(w, "reserving", "recording")
        /\ wval' = [wval EXCEPT ![w] = IF Covers(p, q) THEN stock[p] - q ELSE @]
        /\ UNCHANGED <<tableVars, queueVars, metricVars, requestVars, lock,
                       cart, wjob>>

Reserve(w) ==
    LET p == ProductOf(wjob[w])
        q == QuantityOf(wjob[w])
    IN  /\ \/ /\ WorkerGoes(w, "reserving", "recording")
              /\ Covers(p, q)
              /\ ProductRowFree(p)
              /\ wval' = [wval EXCEPT ![w] = stock[p] - q]
           \/ /\ WorkerGoes(w, "reserving", "recording")
              /\ ~Covers(p, q)
              /\ UNCHANGED wval
           \/ \* An error aborts the transaction: the next statement throws.
              /\ WorkerGoes(w, "reserving", "rollingBack")
              /\ Fault("db")
              /\ UNCHANGED wval
        /\ UNCHANGED <<tableVars, queueVars, metricVars, requestVars, lock,
                       cart, wjob>>

\* Mutant: the result of the reservation is not looked at.
RecordLevelOnly(w) ==
    /\ WorkerGoes(w, "recording", "confirming")
    /\ UNCHANGED <<tableVars, queueVars, metricVars, requestVars, lock, cart,
                   wjob, wval>>

\* The transaction reads the product back, its own update included, and
\* publishes the level. A metrics error makes the reservation return false
\* although the decrement stays in the open transaction.
RecordLevel(w) ==
    LET p == ProductOf(wjob[w])
        level == IF wval[w] # None THEN wval[w] ELSE stock[p]
    IN  /\ \/ /\ WorkerGoes(w, "recording",
                            IF wval[w] # None THEN "confirming" ELSE "declining")
              /\ gauge' = [gauge EXCEPT ![p] = level]
           \/ /\ Fault("metrics")
              /\ WorkerGoes(w, "recording", "declining")
              /\ UNCHANGED gauge
           \/ /\ Fault("db")
              /\ WorkerGoes(w, "recording", "rollingBack")
              /\ UNCHANGED gauge
        /\ UNCHANGED <<tableVars, queueVars, requestVars, lock, cart, tally,
                       wjob, wval>>

\* Mutant: an update that does not wait for open reservations.
UpdateProductAtOnce(p, s, active) ==
    /\ sale[p] # "absent"
    /\ stock' = [stock EXCEPT ![p] = IF s = None THEN @ ELSE s]
    /\ sale' = [sale EXCEPT ![p] = active]
    /\ UNCHANGED <<status, debits, queueVars, metricVars, requestVars,
                   workerVars, lock, cart>>

\* PUT /inventory: an absolute stock, the sale flag or both, without the
\* product lock; the row lock of an open reservation makes it wait.
UpdateProduct(p, s, active) ==
    /\ sale[p] # "absent"
    /\ ProductRowFree(p)
    /\ stock' = [stock EXCEPT ![p] = IF s = None THEN @ ELSE s]
    /\ sale' = [sale EXCEPT ![p] = active]
    /\ UNCHANGED <<status, debits, queueVars, metricVars, requestVars,
                   workerVars, lock, cart>>

\* POST /inventory: a product no request could find exists from now on.
CreateProduct(p, s, active) ==
    /\ sale[p] = "absent"
    /\ stock' = [stock EXCEPT ![p] = s]
    /\ sale' = [sale EXCEPT ![p] = active]
    /\ UNCHANGED <<status, debits, queueVars, metricVars, requestVars,
                   workerVars, lock, cart>>
==============================================================================
