----------------------------- MODULE ProductLock -----------------------------
(***************************************************************************)
(* RedlockService as its callers see it: one lock per product, which a     *)
(* quorum of the three Redis nodes grants to one holder at a time, which   *)
(* its holder gives back, and which runs out after its TTL.                *)
(***************************************************************************)
EXTENDS SaleState

Processes == Requests \cup Workers

\* Process h asks for the lock of product p and has no answer yet.
Acquiring(h, p) ==
    \/ h \in Requests /\ pc[h] = "locking" /\ ProductOf(h) = p
    \/ h \in Workers /\ wpc[h] = "locking" /\ ProductOf(wjob[h]) = p

\* Another asker may keep enough nodes from h for all of its attempts, and h
\* from it: keys of earlier attempts and late scripts count (RedlockNodes).
Contended(h, p) == \E g \in Processes \ {h} : Acquiring(g, p)

\* Mutant: the key is set whether or not it is there.
TakeLockBlindly(p, h) == lock' = [lock EXCEPT ![p] = h]

\* acquireLock returns a lock: the key was absent on a quorum.
TakeLock(p, h) == lock[p] = None /\ lock' = [lock EXCEPT ![p] = h]

\* acquireLock returns null: the retries are used up, or the nodes failed, or
\* they keep what an asker left that died.
LockRefused(p, h) ==
    /\ \/ lock[p] # None
       \/ Contended(h, p)
       \/ Fault("lock") \/ Fault("crash")
    /\ UNCHANGED lock

\* releaseLock deletes the key only if it still carries the caller's value;
\* it reports an error as false, which no caller looks at.
DropLock(p, h) ==
    \/ lock' = [lock EXCEPT ![p] = IF @ = h THEN None ELSE @]
    \/ Fault("lock") /\ UNCHANGED lock

\* Mutant: the TTL of a lock is renewed, whether or not its holder is there.
RenewAlways(p) == lock[p] # None /\ UNCHANGED vars

\* The TTL ends. A holder still inside its critical section has then been
\* slower than the TTL: nothing in the code extends a lock.
Expire(p) ==
    /\ lock[p] # None
    /\ ~Critical(lock[p], p) \/ Fault("slow")
    /\ lock' = [lock EXCEPT ![p] = None]
    /\ UNCHANGED <<tableVars, queueVars, metricVars, requestVars, workerVars,
                   cart>>
==============================================================================
