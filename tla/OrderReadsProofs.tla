--------------------------- MODULE OrderReadsProofs ---------------------------
(***************************************************************************)
(* Proofs about what getQueueStatus and getOrderMetrics put together from  *)
(* several reads, for any number of orders, jobs and workers, while        *)
(* nothing fails.                                                          *)
(***************************************************************************)
EXTENDS OrderReads, OrderFlowProofs, FiniteSetTheorems, SequenceTheorems

\* No fault, and an enum type that knows all labels: every transaction gets to
\* its COMMIT, and every job completes at its first attempt.
Smooth == Faults = {} /\ "processing" \in StatusColumn
NothingFails ==
    /\ \A o \in Requests : job[o] \notin {"delayed", "failed"}
    /\ \A w \in Workers : wpc[w] \notin {"rollingBack", "markingFailed",
                                         "unlockingFailed", "throwing"}

\* The job has committed what becomes of its order, and will not run again.
Concluded(o) ==
    \/ job[o] = "completed"
    \/ job[o] = "active" /\ wpc[owner[o]] \in {"unlocking", "finishing"}
OutcomesConcluded ==
    \A o \in Requests : status[o] \in {"confirmed", "failed"} => Concluded(o)

\* The line is of the waiting jobs, each of them once.
LineInv ==
    /\ line \in Seq(Requests)
    /\ \A i \in 1..Len(line) : job[line[i]] = "waiting"
    /\ \A o \in Requests :
           job[o] = "waiting" => \E i \in 1..Len(line) : line[i] = o
    /\ \A i, j \in 1..Len(line) : line[i] = line[j] => i = j
    /\ IsFiniteSet(ActiveJobs)

\* The call that reads has found what its next step goes by.
ReadingOK ==
    \/ reading = None
    \/ reading \in [of : Requests, step : {"asking", "answered"}, place : Nat]
    \/ reading \in [of : Requests, step : {"failed", "pending", "counted"},
                    columns : SUBSET {"confirmed", "failed", "pending"}]

Reads(o, step) == At(step) /\ reading.of = o

\* A job that was in the line has not moved back since, one that was not has
\* gone to a worker before.
PlaceInv ==
    \A o \in Requests :
        /\ Reads(o, "asking") =>
               /\ job[o] # "none"
               /\ reading.place = 0 => job[o] # "waiting"
               /\ job[o] = "waiting" => PlaceInLine(o) <= reading.place
        /\ Reads(o, "answered") =>
               /\ reading.place = 0 => job[o] = "completed"
               /\ job[o] = "waiting" =>
                      Cardinality(ActiveJobs) + PlaceInLine(o) <= reading.place

\* An order that a column counted as confirmed or failed is concluded, and is
\* so still, or its own call has saved it a second time since.
Resaved(o) == status[o] = "pending" /\ pc[o] \in {"responding", "accepted"}
Columns(o, step, columns) ==
    LET outcome == columns \ {"pending"}
    IN  /\ step = "failed" => "failed" \notin outcome
        /\ step # "counted" => "pending" \notin columns
        /\ ~ {"confirmed", "failed"} \subseteq outcome
        /\ outcome # {} => /\ Concluded(o)
                           /\ status[o] \in outcome \/ Resaved(o)
        /\ outcome # {} /\ "pending" \in columns => Resaved(o)
ColumnsInv ==
    \A o \in Requests, step \in {"failed", "pending", "counted"} :
        Reads(o, step) => Columns(o, step, reading.columns)

\* The inductive invariant of what is read while nothing fails.
ReadsInv == /\ NothingFails /\ OutcomesConcluded
            /\ LineInv /\ ReadingOK /\ PlaceInv /\ ColumnsInv
------------------------------------------------------------------------------
\* The order flow beside which the reads run is the order flow.
THEOREM ReadsKeepFlow == ReadsSpec => Spec
<1>1. ReadsInit => Init BY DEF ReadsInit
<1>2. [ReadsNext]_readsVars => [Next]_vars
  BY DEF ReadsNext, readsVars
<1> QED BY <1>1, <1>2, PTL DEF ReadsSpec, Spec

LEMMA SmoothFaults ==
    ASSUME Smooth
    PROVE  /\ \A kind \in FaultKinds : ~Fault(kind)
           /\ NoRepeat /\ "processing" \in StatusColumn
BY DEF Smooth, Fault, NoRepeat

\* A step of a call adds its job to the queue or leaves the queue alone, and
\* what it does to an order that is concluded is to save it again.
LEMMA SmoothRequest ==
    ASSUME IInv, Smooth, NEW r \in Requests, PlaceOrder(r) \/ CrashRequest(r)
    PROVE  /\ UNCHANGED <<wpc, wjob, owner>>
           /\ \/ UNCHANGED job
              \/ job[r] = "none" /\ job' = [job EXCEPT ![r] = "waiting"]
           /\ \A o \in Requests \ {r} : status'[o] = status[o] /\ pc'[o] = pc[o]
           /\ status'[r] # status[r] =>
                  /\ status'[r] = "pending"
                  /\ job[r] # "none" => pc'[r] = "responding"
           /\ pc[r] \in {"responding", "accepted"} => pc'[r] \in {"responding", "accepted"}
<1>1. \A kind \in FaultKinds : ~Fault(kind) BY SmoothFaults
<1>2. ~Fault("crash") /\ ~Fault("db") /\ ~Fault("metrics") /\ ~Fault("queue")
      /\ ~Fault("commit")
  BY <1>1 DEF FaultKinds
<1>t. TypeOK BY DEF IInv, StockInv
<1>3. UNCHANGED <<wpc, wjob>> BY <1>t, RequestFrame
<1>4. /\ UNCHANGED owner
      /\ \/ UNCHANGED job
         \/ pc[r] = "enqueuing" /\ job' = [job EXCEPT ![r] = "waiting"]
  BY <1>t, RequestQueueing
<1>5. pc[r] = "enqueuing" => job[r] = "none"
  BY DEF IInv, UnqueuedInv, UnqueuedPCs
<1>6. /\ \A q \in Requests \ {r} : pc'[q] = pc[q] /\ status'[q] = status[q]
      /\ status'[r] # status[r] => /\ status'[r] = "pending"
                                  /\ pc[r] \in {"saving", "resaving"}
  BY <1>t, RequestSaving
<1>7. pc[r] = "saving" => job[r] = "none"
  BY DEF IInv, UnqueuedInv, UnqueuedPCs, RequestLock
<1>8. /\ pc[r] \in {"responding", "accepted"} => pc'[r] \in {"responding", "accepted"}
      /\ pc[r] = "resaving" => pc'[r] = "responding"
  <2> USE DEF TypeOK, RequestGoes, Reject, Fail
  <2>1. CASE ReadProduct(r) \/ AcquireLock(r) \/ RecheckStock(r) \/ Deny(r)
    BY <1>t, <2>1 DEF ReadProduct, AcquireLock, RecheckStock, Deny
  <2>2. CASE SaveOrder(r) \/ Unlock(r) \/ Enqueue(r)
    BY <1>t, <2>2 DEF SaveOrder, Unlock, Enqueue
  <2>3. CASE Reread(r) \/ Resave(r) \/ Respond(r)
    BY <1>2, <1>t, <2>3 DEF Reread, Resave, Respond
  <2>4. CASE CrashRequest(r)
    BY <1>2, <2>4 DEF CrashRequest
  <2> QED BY <2>1, <2>2, <2>3, <2>4 DEF PlaceOrder
<1> QED BY <1>3, <1>4, <1>5, <1>6, <1>7, <1>8

\* A step of a worker leads to the conclusion of its job and then completes it.
LEMMA SmoothWorker ==
    ASSUME IInv, Smooth, NothingFails, OutcomesConcluded,
           NEW w \in Workers, Process(w) \/ CrashWorker(w)
    PROVE  /\ UNCHANGED pc
           /\ wpc'[w] \notin {"rollingBack", "markingFailed", "unlockingFailed", "throwing"}
           /\ \A v \in Workers \ {w} : wpc'[v] = wpc[v]
           /\ \A o \in Requests : status'[o] # status[o] =>
                  o = wjob[w] /\ wpc[w] \notin {"unlocking", "finishing"}
                              /\ wpc'[w] \in {"unlocking", "finishing"}
           /\ \/ UNCHANGED <<job, owner>> /\ wpc[w] \notin {"idle", "finishing"}
                 /\ (wpc[w] = "unlocking" => wpc'[w] = "finishing")
              \/ /\ wpc[w] = "finishing" /\ UNCHANGED status
                 /\ job' = [job EXCEPT ![wjob[w]] = "completed"]
                 /\ owner' = [owner EXCEPT ![wjob[w]] = None]
<1>1. \A kind \in FaultKinds : ~Fault(kind) BY SmoothFaults
<1>2. ~Fault("crash") /\ ~Fault("db") /\ ~Fault("metrics") /\ ~Fault("commit")
  BY <1>1 DEF FaultKinds
<1>t. TypeOK /\ WorkerInv BY DEF IInv, StockInv
<1>3. Process(w) BY <1>2 DEF CrashWorker
<1>o. wpc[w] # "idle" => /\ wjob[w] \in Requests
                         /\ job[wjob[w]] = "active" /\ owner[wjob[w]] = w
  BY <1>t, JobTypes, SmoothFaults, SaleAssumption DEF IInv, OwnerInv, NoRepeat
<1> USE <1>t, <1>2, SmoothFaults
    DEF TypeOK, WorkerGoes, NothingFails, tableVars, queueVars, requestVars
<1>4. CASE AcquireInWorker(w) \/ Begin(w) \/ MarkProcessing(w)
  BY <1>4 DEF AcquireInWorker, Begin, MarkProcessing
<1>5. CASE GiveUp(w) \/ MarkFailed(w)
  BY <1>5 DEF GiveUp, MarkFailed, SetFailed
<1>6. CASE Reserve(w) \/ RecordLevel(w)
  BY <1>6 DEF Reserve, RecordLevel
<1>7. CASE Confirm(w) \/ Decline(w)
  BY <1>o, <1>7 DEF Confirm, Decline, Conclude, Commit
<1>8. CASE UnlockInWorker(w) \/ Rollback(w) \/ UnlockFailed(w)
  BY <1>8 DEF UnlockInWorker, Rollback, UnlockFailed, Release
<1>9. CASE JobCompleted(w) \/ JobFailed(w)
  BY <1>o, <1>9 DEF JobCompleted, JobFailed
<1> QED BY <1>3, <1>4, <1>5, <1>6, <1>7, <1>8, <1>9 DEF Process

\* While nothing fails, no job waits for another attempt and none is taken
\* from its worker: what is left of the queue is that a worker takes a job.
LEMMA SmoothOther ==
    ASSUME IInv, Smooth, NothingFails,
           \/ \E w \in Workers, o \in Requests : TakeJob(w, o)
           \/ \E o \in Requests : Promote(o) \/ RecoverStalled(o)
           \/ \E p \in Products : Expire(p) \/ Administer(p)
           \/ UNCHANGED vars
    PROVE  /\ UNCHANGED <<status, pc>>
           /\ \/ UNCHANGED <<job, owner, wpc>>
              \/ \E w \in Workers, o \in Requests :
                     /\ job[o] = "waiting" /\ wpc[w] = "idle"
                     /\ job' = [job EXCEPT ![o] = "active"]
                     /\ owner' = [owner EXCEPT ![o] = w]
                     /\ wpc' = [wpc EXCEPT ![w] = "locking"]
<1> USE DEF tableVars, queueVars, requestVars, workerVars
<1>1. CASE \E w \in Workers, o \in Requests : TakeJob(w, o)
  BY <1>1 DEF TakeJob, WorkerGoes
<1>2. ASSUME NEW o \in Requests, Promote(o) \/ RecoverStalled(o)
      PROVE  FALSE
  <2>1. ~Promote(o) BY DEF Promote, NothingFails
  <2>2. job[o] = "active" => wjob[owner[o]] = o /\ ~Fault("slow")
    BY SmoothFaults DEF IInv, OwnerInv, NoRepeat, FaultKinds
  <2> QED BY <1>2, <2>1, <2>2 DEF RecoverStalled
<1>3. CASE \E p \in Products : Expire(p) \/ Administer(p)
  BY <1>3 DEF Expire, Administer, CreateProduct, UpdateProduct
<1>4. CASE UNCHANGED vars BY <1>4 DEF vars
<1> QED BY <1>1, <1>2, <1>3, <1>4

\* How one job goes on, and what the step does to a concluded order.
Moves(o) ==
    \/ job[o] = "none" /\ job' = [job EXCEPT ![o] = "waiting"]
    \/ job[o] = "waiting" /\ job' = [job EXCEPT ![o] = "active"]
    \/ job[o] = "active" /\ job' = [job EXCEPT ![o] = "completed"]
StaysConcluded(o) ==
    /\ Concluded(o) => /\ Concluded(o)'
                       /\ \/ status'[o] = status[o]
                          \/ status'[o] = "pending" /\ pc'[o] = "responding"
    /\ pc[o] \in {"responding", "accepted"} => pc'[o] \in {"responding", "accepted"}

\* One job at a time moves, none moves back, and an outcome is written by the
\* worker that brings its job to the end.
LEMMA SmoothStep ==
    ASSUME IInv, Smooth, NothingFails, OutcomesConcluded, [Next]_vars
    PROVE  /\ NothingFails' /\ OutcomesConcluded'
           /\ \A o \in Requests : StaysConcluded(o)
           /\ UNCHANGED job \/ \E o \in Requests : Moves(o)
<1>t. /\ job \in [Requests -> JobStates] /\ status \in [Requests -> Statuses]
      /\ owner \in [Requests -> Workers \cup {None}]
      /\ wpc \in [Workers -> WorkerPCs]
      /\ wjob \in [Workers -> Requests \cup {None}]
  BY DEF IInv, StockInv, TypeOK
<1>o. \A o \in Requests : job[o] = "active" => owner[o] \in Workers /\ wjob[owner[o]] = o
  BY SmoothFaults DEF IInv, OwnerInv, NoRepeat
<1> USE DEF NothingFails, OutcomesConcluded, StaysConcluded, Concluded
<1>1. ASSUME NEW r \in Requests, PlaceOrder(r) \/ CrashRequest(r)
      PROVE  /\ NothingFails' /\ OutcomesConcluded'
             /\ \A o \in Requests : StaysConcluded(o)
             /\ UNCHANGED job \/ \E o \in Requests : Moves(o)
  BY <1>t, <1>1, SmoothRequest DEF Moves
<1>2. ASSUME NEW w \in Workers, Process(w) \/ CrashWorker(w)
      PROVE  /\ NothingFails' /\ OutcomesConcluded'
             /\ \A o \in Requests : StaysConcluded(o)
             /\ UNCHANGED job \/ \E o \in Requests : Moves(o)
  <2>1. wpc[w] # "idle" => wjob[w] \in Requests /\ job[wjob[w]] = "active"
                           /\ owner[wjob[w]] = w
    BY <1>t, SmoothFaults, SaleAssumption
    DEF IInv, OwnerInv, NoRepeat, StockInv, WorkerInv
  <2>2. /\ UNCHANGED pc
        /\ \A v \in Workers \ {w} : wpc'[v] = wpc[v]
        /\ wpc'[w] \notin {"rollingBack", "markingFailed", "unlockingFailed", "throwing"}
        /\ \A o \in Requests : status'[o] # status[o] =>
               o = wjob[w] /\ wpc[w] \notin {"unlocking", "finishing"}
                           /\ wpc'[w] \in {"unlocking", "finishing"}
    BY <1>2, SmoothWorker
  <2>3. CASE UNCHANGED <<job, owner>> /\ wpc[w] \notin {"idle", "finishing"}
             /\ (wpc[w] = "unlocking" => wpc'[w] = "finishing")
    BY <1>t, <1>o, <2>1, <2>2, <2>3
  <2>4. CASE /\ wpc[w] = "finishing" /\ UNCHANGED status
             /\ job' = [job EXCEPT ![wjob[w]] = "completed"]
             /\ owner' = [owner EXCEPT ![wjob[w]] = None]
    <3>1. wjob[w] \in Requests /\ job[wjob[w]] = "active" BY <2>1, <2>4
    <3>2. /\ job'[wjob[w]] = "completed"
          /\ \A o \in Requests \ {wjob[w]} : job'[o] = job[o] /\ owner'[o] = owner[o]
      BY <1>t, <2>4, <3>1
    <3>3. \A o \in Requests : Concluded(o) => Concluded(o)'
      BY <1>o, <2>2, <3>2
    <3>4. NothingFails' /\ \A o \in Requests : StaysConcluded(o)
      BY <2>2, <2>4, <3>2, <3>3
    <3>5. OutcomesConcluded' BY <2>4, <3>3
    <3> QED BY <2>4, <3>1, <3>4, <3>5 DEF Moves
  <2> QED BY <1>2, <2>3, <2>4, SmoothWorker
<1>3. ASSUME \/ \E w \in Workers, o \in Requests : TakeJob(w, o)
             \/ \E o \in Requests : Promote(o) \/ RecoverStalled(o)
             \/ \E p \in Products : Expire(p) \/ Administer(p)
             \/ UNCHANGED vars
      PROVE  /\ NothingFails' /\ OutcomesConcluded'
             /\ \A o \in Requests : StaysConcluded(o)
             /\ UNCHANGED job \/ \E o \in Requests : Moves(o)
  <2>1. UNCHANGED <<status, pc>> BY <1>3, SmoothOther
  <2>2. CASE UNCHANGED <<job, owner, wpc>> BY <2>1, <2>2
  <2>3. ASSUME NEW w \in Workers, NEW o \in Requests,
               job[o] = "waiting", wpc[w] = "idle",
               job' = [job EXCEPT ![o] = "active"],
               owner' = [owner EXCEPT ![o] = w],
               wpc' = [wpc EXCEPT ![w] = "locking"]
        PROVE  /\ NothingFails' /\ OutcomesConcluded'
               /\ \A q \in Requests : StaysConcluded(q)
               /\ UNCHANGED job \/ \E q \in Requests : Moves(q)
    <3>1. /\ job'[o] = "active"
          /\ \A q \in Requests \ {o} : job'[q] = job[q] /\ owner'[q] = owner[q]
          /\ wpc'[w] = "locking"
          /\ \A v \in Workers \ {w} : wpc'[v] = wpc[v]
      BY <1>t, <2>3
    <3>2. \A q \in Requests : Concluded(q) => Concluded(q)'
      BY <1>o, <2>3, <3>1
    <3>3. NothingFails' /\ \A q \in Requests : StaysConcluded(q)
      BY <2>1, <3>1, <3>2
    <3>4. OutcomesConcluded' BY <2>1, <3>2
    <3> QED BY <2>3, <3>3, <3>4 DEF Moves
  <2> QED BY <1>3, <2>2, <2>3, SmoothOther
<1> QED BY <1>1, <1>2, <1>3 DEF Next, Terminated
------------------------------------------------------------------------------
\* In a line without repetitions, the place found of a job is the one it has.
Repeats(s) == \E i, j \in 1..Len(s) : s[i] = s[j] /\ i # j
PlaceOf(x, s) == CHOOSE i \in DOMAIN s : s[i] = x

LEMMA PlaceFound ==
    ASSUME NEW S, NEW s \in Seq(S), ~Repeats(s), NEW i \in 1..Len(s)
    PROVE  PlaceOf(s[i], s) = i
<1>1. DOMAIN s = 1..Len(s) BY LenProperties
<1> QED BY <1>1 DEF PlaceOf, Repeats

\* A line that grows at its end gives a new job the last place and leaves the
\* others where they are; one that loses its head moves each of them up by one.
LEMMA LineGrows ==
    ASSUME NEW S, NEW s \in Seq(S), ~Repeats(s),
           NEW x \in S, \A i \in 1..Len(s) : s[i] # x
    PROVE  LET t == Append(s, x)
           IN  /\ t \in Seq(S) /\ ~Repeats(t)
               /\ Len(t) = Len(s) + 1 /\ t[Len(t)] = x
               /\ \A i \in 1..Len(s) : t[i] = s[i]
BY AppendProperties DEF Repeats

LEMMA LineShrinks ==
    ASSUME NEW S, NEW s \in Seq(S), ~Repeats(s), s # <<>>
    PROVE  LET t == Tail(s)
           IN  /\ t \in Seq(S) /\ ~Repeats(t)
               /\ Len(s) \in Nat \ {0} /\ Head(s) = s[1]
               /\ Len(t) = Len(s) - 1
               /\ \A i \in 1..Len(t) : t[i] = s[i + 1]
<1>1. /\ Tail(s) \in Seq(S) /\ Len(Tail(s)) = Len(s) - 1
      /\ \A i \in 1..Len(Tail(s)) : Tail(s)[i] = s[i + 1]
      /\ Len(s) \in Nat \ {0}
  BY HeadTailProperties, EmptySeq
<1>2. ~Repeats(Tail(s)) BY <1>1 DEF Repeats
<1> QED BY <1>1, <1>2

\* The queue keeps its line: it stays the line of the waiting jobs, and none of
\* them falls back in it.
LEMMA LineStep ==
    ASSUME job \in [Requests -> JobStates], LineInv, KeepLine,
           UNCHANGED job \/ \E o \in Requests : Moves(o)
    PROVE  /\ LineInv'
           /\ \A o \in Requests : job[o] = "waiting" /\ job'[o] = "waiting" =>
                  PlaceInLine(o)' \in Nat /\ PlaceInLine(o)' <= PlaceInLine(o)
<1> DEFINE Joins(o) == job[o] # "waiting" /\ job'[o] = "waiting"
           Leaves(o) == job[o] = "waiting" /\ job'[o] # "waiting"
           Others(o) == \A q \in Requests \ {o} : job'[q] = job[q]
           Found == \A q \in Requests : job[q] = "waiting" =>
                        \E i \in 1..Len(line) : line[i] = q
           Goal == /\ line' \in Seq(Requests) /\ ~Repeats(line')
                   /\ \A i \in 1..Len(line') : job'[line'[i]] = "waiting"
                   /\ \A q \in Requests : job'[q] = "waiting" =>
                          \E i \in 1..Len(line') : line'[i] = q
                   /\ \A q \in Requests : job[q] = "waiting" /\ job'[q] = "waiting" =>
                          /\ PlaceOf(q, line') \in Nat
                          /\ PlaceOf(q, line') <= PlaceOf(q, line)
<1>1. /\ line \in Seq(Requests) /\ ~Repeats(line) /\ Found
      /\ \A i \in 1..Len(line) : line[i] \in Requests /\ job[line[i]] = "waiting"
      /\ Len(line) \in Nat
  BY ElementOfSeq, LenProperties DEF LineInv, Repeats
<1>2. \/ \A o \in Requests : job'[o] = job[o]
      \/ \E o \in Requests : Others(o) /\ (Joins(o) => job[o] = "none")
  BY DEF Moves
<1>m. \A o \in Requests : Joins(o) \/ Leaves(o) =>
          Others(o) /\ (Joins(o) => job[o] = "none")
  BY <1>2
<1>3. IsFiniteSet(ActiveJobs')
  <2>1. \/ ActiveJobs' \subseteq ActiveJobs
        \/ \E o \in Requests : ActiveJobs' \subseteq ActiveJobs \cup {o}
    BY <1>2 DEF ActiveJobs
  <2>2. \A o : IsFiniteSet(ActiveJobs \cup {o})
    BY FS_AddElement DEF LineInv
  <2> QED BY <2>1, <2>2, FS_Subset DEF LineInv
<1>4. ASSUME \A o \in Requests : ~Joins(o) /\ ~Leaves(o), line' = line
      PROVE  Goal
  <2>1. \A q \in Requests : (job'[q] = "waiting") <=> (job[q] = "waiting")
    BY <1>4
  <2>2. \A q \in Requests : job[q] = "waiting" => PlaceOf(q, line) \in Nat
    BY <1>1, PlaceFound
  <2>3. \A q \in Requests : job[q] = "waiting" =>
            PlaceOf(q, line) \in Nat /\ PlaceOf(q, line) <= PlaceOf(q, line)
    BY <2>2
  <2>4. line' = line BY <1>4
  <2> HIDE DEF Joins, Leaves
  <2> QED BY <1>1, <2>1, <2>3, <2>4
<1> HIDE DEF Goal
<1>5. ASSUME NEW o \in Requests, Joins(o),
             line' = IF job[o] = "active" THEN <<o>> \o line ELSE Append(line, o)
      PROVE  Goal
  <2>1. Others(o) /\ line' = Append(line, o) BY <1>m, <1>5
  <2>2. \A i \in 1..Len(line) : line[i] # o BY <1>1, <1>5
  <2>3. /\ line' \in Seq(Requests) /\ ~Repeats(line')
        /\ Len(line') = Len(line) + 1 /\ line'[Len(line')] = o
        /\ \A i \in 1..Len(line) : line'[i] = line[i]
    BY <1>1, <2>1, <2>2, LineGrows
  <2>4. ASSUME NEW i \in 1..Len(line') PROVE job'[line'[i]] = "waiting"
    BY <1>1, <1>5, <2>1, <2>2, <2>3
  <2>5. ASSUME NEW q \in Requests, job'[q] = "waiting"
        PROVE  \E i \in 1..Len(line') : line'[i] = q
    BY <1>1, <2>1, <2>3, <2>5
  <2>6. ASSUME NEW q \in Requests, job[q] = "waiting"
        PROVE  PlaceOf(q, line') \in Nat /\ PlaceOf(q, line') <= PlaceOf(q, line)
    <3>1. PICK i \in 1..Len(line) : line[i] = q BY <1>1, <2>6
    <3>2. PlaceOf(q, line) = i BY <1>1, <3>1, PlaceFound
    <3>3. i \in 1..Len(line') /\ line'[i] = q BY <1>1, <2>3, <3>1
    <3>4. PlaceOf(q, line') = i BY <2>3, <3>3, PlaceFound
    <3> QED BY <3>2, <3>4
  <2> QED BY <2>3, <2>4, <2>5, <2>6 DEF Goal
<1>6. ASSUME NEW o \in Requests, Leaves(o), o = Head(line), line' = Tail(line)
      PROVE  Goal
  <2>1. line # <<>>
    <3>1. PICK i \in 1..Len(line) : line[i] = o BY <1>1, <1>6
    <3> QED BY <1>1, <3>1
  <2>2. /\ line' \in Seq(Requests) /\ ~Repeats(line')
        /\ Len(line) \in Nat \ {0} /\ o = line[1]
        /\ Len(line') = Len(line) - 1
        /\ \A i \in 1..Len(line') : line'[i] = line[i + 1]
    BY <1>1, <1>6, <2>1, LineShrinks
  <2>3. Others(o) BY <1>m, <1>6
  <2>4. ASSUME NEW i \in 1..Len(line') PROVE job'[line'[i]] = "waiting"
    <3>1. i + 1 \in 1..Len(line) /\ i + 1 # 1 /\ 1 \in 1..Len(line) BY <2>2
    <3>2. line[i + 1] # o BY <1>1, <2>2, <3>1 DEF Repeats
    <3> QED BY <1>1, <2>2, <2>3, <3>1, <3>2
  <2>5. ASSUME NEW q \in Requests, job[q] = "waiting", job'[q] = "waiting"
        PROVE  /\ \E i \in 1..Len(line') : line'[i] = q
               /\ PlaceOf(q, line') \in Nat
               /\ PlaceOf(q, line') <= PlaceOf(q, line)
    <3>1. PICK i \in 1..Len(line) : line[i] = q BY <1>1, <2>5
    <3>2. i # 1 BY <1>6, <2>2, <2>5, <3>1
    <3>3. i - 1 \in 1..Len(line') /\ line'[i - 1] = q BY <2>2, <3>1, <3>2
    <3>4. PlaceOf(q, line) = i BY <1>1, <3>1, PlaceFound
    <3>5. PlaceOf(q, line') = i - 1 BY <2>2, <3>3, PlaceFound
    <3> QED BY <3>3, <3>4, <3>5
  <2>6. \A q \in Requests : job'[q] = "waiting" => job[q] = "waiting"
    BY <1>6, <2>3
  <2> QED BY <2>2, <2>4, <2>5, <2>6 DEF Goal
<1>7. Goal
  <2>1. \/ \E o \in Requests :
               /\ Joins(o)
               /\ line' = IF job[o] = "active" THEN <<o>> \o line ELSE Append(line, o)
        \/ \E o \in Requests : Leaves(o) /\ o = Head(line) /\ line' = Tail(line)
        \/ (\A o \in Requests : ~Joins(o) /\ ~Leaves(o)) /\ line' = line
    BY DEF KeepLine
  <2> HIDE DEF Joins, Leaves
  <2> QED BY <1>4, <1>5, <1>6, <2>1
<1>8. LineInv' BY <1>3, <1>7 DEF Goal, LineInv, Repeats
<1>9. ASSUME NEW o \in Requests, job[o] = "waiting", job'[o] = "waiting"
      PROVE  PlaceInLine(o)' \in Nat /\ PlaceInLine(o)' <= PlaceInLine(o)
  <2>1. PlaceInLine(o) = PlaceOf(o, line) /\ PlaceInLine(o)' = PlaceOf(o, line')
    BY <1>9 DEF PlaceInLine, PlaceOf
  <2> QED BY <1>7, <1>9, <2>1 DEF Goal
<1> QED BY <1>8, <1>9
------------------------------------------------------------------------------
LEMMA PlaceTypes ==
    ASSUME LineInv, NEW o \in Requests
    PROVE  /\ PlaceInLine(o) \in Nat
           /\ PlaceInLine(o) = 0 <=> job[o] # "waiting"
           /\ Cardinality(ActiveJobs) \in Nat
<1>1. ASSUME job[o] = "waiting" PROVE PlaceInLine(o) \in Nat \ {0}
  <2>1. PICK i \in 1..Len(line) : line[i] = o BY <1>1 DEF LineInv
  <2>2. PlaceOf(o, line) = i
    BY <2>1, PlaceFound DEF LineInv, Repeats
  <2>3. Len(line) \in Nat BY LenProperties DEF LineInv
  <2>4. PlaceInLine(o) = PlaceOf(o, line) BY <1>1 DEF PlaceInLine, PlaceOf
  <2> QED BY <2>2, <2>3, <2>4
<1>2. Cardinality(ActiveJobs) \in Nat BY FS_CardinalityType DEF LineInv
<1> QED BY <1>1, <1>2 DEF PlaceInLine

\* The two reads of getQueuePosition put together a place that is not ahead of
\* the one the job has by then.
LEMMA PositionStep ==
    ASSUME job \in [Requests -> JobStates],
           NothingFails, LineInv, ReadingOK, PlaceInv,
           getQueuePosition, UNCHANGED <<job, line>>
    PROVE  ReadingOK' /\ PlaceInv'
<1> USE DEF Answer, At, Reads
<1>0. UNCHANGED ActiveJobs /\ \A o \in Requests : PlaceInLine(o)' = PlaceInLine(o)
  BY DEF ActiveJobs, PlaceInLine
<1>1. ASSUME NEW o \in Requests, job[o] # "none",
             reading' = Answer(o, "asking", PlaceInLine(o))
      PROVE  ReadingOK' /\ PlaceInv'
  BY <1>0, <1>1, PlaceTypes DEF ReadingOK, PlaceInv
<1>2. ASSUME At("asking"),
             NEW place \in IF reading.place > 0
                           THEN {Cardinality(ActiveJobs) + reading.place}
                           ELSE PlacesAmongActive(reading.of),
             reading' = Answer(reading.of, "answered", place)
      PROVE  ReadingOK' /\ PlaceInv'
  <2> DEFINE o == reading.of
  <2>1. /\ o \in Requests /\ reading.place \in Nat /\ job[o] # "none"
        /\ reading.place = 0 => job[o] # "waiting"
        /\ job[o] = "waiting" => PlaceInLine(o) <= reading.place
    BY <1>2 DEF ReadingOK, PlaceInv
  <2>2. PlaceInLine(o) \in Nat /\ Cardinality(ActiveJobs) \in Nat
    BY <2>1, PlaceTypes
  <2>3. /\ place \in Nat
        /\ place = 0 => reading.place = 0 /\ job[o] # "active"
        /\ reading.place > 0 => place = Cardinality(ActiveJobs) + reading.place
    BY <1>2, <2>1, <2>2 DEF PlacesAmongActive, ActiveJobs
  <2>4. place = 0 => job[o] = "completed"
    BY <2>1, <2>3 DEF NothingFails, JobStates
  <2>5. job[o] = "waiting" => Cardinality(ActiveJobs) + PlaceInLine(o) <= place
    BY <2>1, <2>2, <2>3
  <2>6. ReadingOK' BY <1>2, <2>1, <2>3 DEF ReadingOK
  <2> QED BY <1>0, <1>2, <2>1, <2>4, <2>5, <2>6 DEF PlaceInv
<1> QED BY <1>1, <1>2 DEF getQueuePosition

\* The three counts of getOrderMetrics: an order in two columns was saved again
\* by its own call.
LEMMA CountStep ==
    ASSUME status \in [Requests -> Statuses], OutcomesConcluded,
           ReadingOK, ColumnsInv, getOrderMetrics,
           UNCHANGED <<job, owner, wpc, status, pc>>
    PROVE  ReadingOK' /\ ColumnsInv'
<1> USE DEF At, Reads
<1>0. \A o \in Requests : status[o] \in {"confirmed", "failed"} => Concluded(o)
  BY DEF OutcomesConcluded
<1>u. ASSUME NEW o \in Requests, NEW step \in {"failed", "pending", "counted"},
             NEW columns \in SUBSET {"confirmed", "failed", "pending"},
             reading' = [of |-> o, step |-> step, columns |-> columns],
             Columns(o, step, columns)
      PROVE  ReadingOK' /\ ColumnsInv'
  <2>1. Columns(o, step, columns)'
    BY <1>u DEF Columns, Concluded, Resaved
  <2>2. reading'.columns = columns BY <1>u
  <2>3. \A q, s : Reads(q, s)' => q = o /\ s = step BY <1>u
  <2>4. ReadingOK' BY <1>u DEF ReadingOK
  <2>5. ColumnsInv' BY <2>1, <2>2, <2>3 DEF ColumnsInv
  <2> QED BY <2>4, <2>5
<1> DEFINE Counted(columns, o, column) == columns \cup {c \in {column} : status[o] = c}
<1>1. ASSUME NEW o \in Requests, CountIn(o, {}, "confirmed", "failed")
      PROVE  ReadingOK' /\ ColumnsInv'
  <2>1. PICK columns : columns = Counted({}, o, "confirmed") OBVIOUS
  <2>2. reading' = [of |-> o, step |-> "failed", columns |-> columns]
    BY <1>1, <2>1 DEF CountIn
  <2>3. columns = {} \/ (columns = {"confirmed"} /\ status[o] = "confirmed")
    <3>1. \A c : c \in columns <=> (c = "confirmed" /\ status[o] = "confirmed")
      BY <2>1
    <3>2. CASE status[o] = "confirmed" BY <3>1, <3>2
    <3>3. CASE status[o] # "confirmed"
      <4>1. \A c : c \notin columns BY <3>1, <3>3
      <4>2. columns = {} BY <4>1
      <4> QED BY <4>2
    <3> QED BY <3>2, <3>3
  <2>4. Columns(o, "failed", columns) BY <1>0, <2>3 DEF Columns
  <2> QED BY <1>u, <2>2, <2>3, <2>4
<1>2. ASSUME At("failed"), CountIn(reading.of, reading.columns, "failed", "pending")
      PROVE  ReadingOK' /\ ColumnsInv'
  <2>1. PICK o \in Requests, before \in SUBSET {"confirmed", "failed", "pending"} :
            o = reading.of /\ before = reading.columns /\ Columns(o, "failed", before)
    BY <1>2 DEF ReadingOK, ColumnsInv
  <2>2. PICK columns : columns = Counted(before, o, "failed") OBVIOUS
  <2>3. reading' = [of |-> o, step |-> "pending", columns |-> columns]
    BY <1>2, <2>1, <2>2 DEF CountIn
  <2>4. /\ before \in {{}, {"confirmed"}}
        /\ before # {} => Concluded(o) /\ (status[o] = "confirmed" \/ Resaved(o))
    BY <2>1 DEF Columns
  <2>5. \/ columns = before
        \/ before = {} /\ columns = {"failed"} /\ status[o] = "failed"
    BY <2>2, <2>4 DEF Resaved
  <2>6. Columns(o, "pending", columns) BY <1>0, <2>4, <2>5 DEF Columns
  <2> QED BY <1>u, <2>3, <2>4, <2>5, <2>6
<1>3. ASSUME At("pending"), CountIn(reading.of, reading.columns, "pending", "counted")
      PROVE  ReadingOK' /\ ColumnsInv'
  <2>1. PICK o \in Requests, before \in SUBSET {"confirmed", "failed", "pending"} :
            o = reading.of /\ before = reading.columns /\ Columns(o, "pending", before)
    BY <1>3 DEF ReadingOK, ColumnsInv
  <2>2. PICK columns : columns = Counted(before, o, "pending") OBVIOUS
  <2>3. reading' = [of |-> o, step |-> "counted", columns |-> columns]
    BY <1>3, <2>1, <2>2 DEF CountIn
  <2>4. /\ before \in {{}, {"confirmed"}, {"failed"}}
        /\ before # {} => Concluded(o) /\ (status[o] \in before \/ Resaved(o))
    BY <2>1 DEF Columns
  <2>5. \/ columns = before
        \/ columns = before \cup {"pending"} /\ status[o] = "pending"
    BY <2>2
  <2>6. Columns(o, "counted", columns) BY <2>4, <2>5 DEF Columns
  <2> QED BY <1>u, <2>3, <2>4, <2>5, <2>6
<1> QED BY <1>1, <1>2, <1>3 DEF getOrderMetrics

\* Between the reads jobs and orders move on, and none of them back.
LEMMA MovesKeepReading ==
    ASSUME IInv, Smooth, ReadsInv, [Next]_vars, KeepLine, UNCHANGED reading,
           ~At("answered"), ~At("counted")
    PROVE  ReadsInv'
<1>1. /\ NothingFails' /\ OutcomesConcluded'
      /\ \A o \in Requests : StaysConcluded(o)
      /\ UNCHANGED job \/ \E o \in Requests : Moves(o)
  BY SmoothStep DEF ReadsInv
<1>t. job \in [Requests -> JobStates]
  BY DEF IInv, StockInv, TypeOK
<1>2. /\ LineInv'
      /\ \A o \in Requests : job[o] = "waiting" /\ job'[o] = "waiting" =>
             PlaceInLine(o)' \in Nat /\ PlaceInLine(o)' <= PlaceInLine(o)
  BY <1>t, <1>1, LineStep DEF ReadsInv
<1>3. ReadingOK' BY DEF ReadsInv, ReadingOK
<1>4. PlaceInv'
  <2> SUFFICES ASSUME NEW o \in Requests, Reads(o, "asking")'
               PROVE  /\ job'[o] # "none"
                      /\ reading.place = 0 => job'[o] # "waiting"
                      /\ job'[o] = "waiting" => PlaceInLine(o)' <= reading.place
    BY DEF PlaceInv, Reads, At
  <2>1. /\ job[o] # "none" /\ reading.place \in Nat
        /\ reading.place = 0 => job[o] # "waiting"
        /\ job[o] = "waiting" => PlaceInLine(o) <= reading.place
    BY DEF ReadsInv, PlaceInv, ReadingOK, Reads, At
  <2>2. job'[o] # "none" /\ (job'[o] = "waiting" => job[o] = "waiting")
    BY <1>t, <1>1, <2>1 DEF Moves
  <2>3. PlaceInLine(o) \in Nat BY PlaceTypes DEF ReadsInv
  <2> QED BY <1>2, <2>1, <2>2, <2>3
<1>5. ColumnsInv'
  <2> SUFFICES ASSUME NEW o \in Requests, NEW step \in {"failed", "pending", "counted"},
                      Reads(o, step)
               PROVE  Columns(o, step, reading.columns)'
    BY DEF ColumnsInv, Reads, At
  <2>1. Columns(o, step, reading.columns) BY DEF ReadsInv, ColumnsInv
  <2>2. Concluded(o) => /\ Concluded(o)'
                        /\ \/ status'[o] = status[o]
                           \/ status'[o] = "pending" /\ pc'[o] = "responding"
    BY <1>1 DEF StaysConcluded
  <2>3. Concluded(o) /\ Resaved(o) => Resaved(o)'
    BY <1>1 DEF StaysConcluded, Resaved
  <2>4. Concluded(o) => status'[o] = status[o] \/ Resaved(o)'
    BY <2>2 DEF Resaved
  <2>5. reading'.columns = reading.columns OBVIOUS
  <2> HIDE DEF Concluded, Resaved
  <2> QED BY <2>1, <2>2, <2>3, <2>4, <2>5 DEF Columns
<1> QED BY <1>1, <1>2, <1>3, <1>4, <1>5 DEF ReadsInv

LEMMA ReadsStep ==
    ASSUME IInv, Smooth, ReadsInv, [ReadsNext]_readsVars
    PROVE  ReadsInv'
<1>t. job \in [Requests -> JobStates] /\ status \in [Requests -> Statuses]
  BY DEF IInv, StockInv, TypeOK
<1>1. CASE ~At("answered") /\ ~At("counted") /\ Next /\ KeepLine /\ UNCHANGED reading
  BY <1>1, MovesKeepReading
<1>2. ASSUME UNCHANGED <<vars, line>>
      PROVE  /\ UNCHANGED <<job, owner, wpc, status, pc, line>>
             /\ NothingFails' /\ OutcomesConcluded' /\ LineInv'
  <2>1. UNCHANGED <<job, owner, wpc, status, pc, line>>
    BY <1>2 DEF vars, tableVars, queueVars, requestVars, workerVars
  <2> QED BY <2>1 DEF ReadsInv, NothingFails, OutcomesConcluded, Concluded,
     LineInv, ActiveJobs
<1>3. ASSUME getQueuePosition, UNCHANGED <<vars, line>>
      PROVE  ReadsInv'
  <2>1. ReadingOK' /\ PlaceInv' BY <1>t, <1>2, <1>3, PositionStep DEF ReadsInv
  <2>2. ColumnsInv'
    BY <1>3 DEF getQueuePosition, ColumnsInv, Reads, At, Answer
  <2> QED BY <1>2, <1>3, <2>1, <2>2 DEF ReadsInv
<1>4. ASSUME getOrderMetrics, UNCHANGED <<vars, line>>
      PROVE  ReadsInv'
  <2>1. ReadingOK' /\ ColumnsInv' BY <1>t, <1>2, <1>4, CountStep DEF ReadsInv
  <2>2. PlaceInv'
    BY <1>4 DEF getOrderMetrics, CountIn, PlaceInv, Reads, At
  <2> QED BY <1>2, <1>4, <2>1, <2>2 DEF ReadsInv
<1>5. ASSUME Return, UNCHANGED <<vars, line>>
      PROVE  ReadsInv'
  <2>1. ReadingOK' /\ PlaceInv' /\ ColumnsInv'
    BY <1>5 DEF Return, ReadingOK, PlaceInv, ColumnsInv, Reads, At
  <2> QED BY <1>2, <1>5, <2>1 DEF ReadsInv
<1>6. ASSUME UNCHANGED readsVars
      PROVE  ReadsInv'
  <2>1. UNCHANGED <<vars, line>> /\ UNCHANGED reading BY <1>6 DEF readsVars
  <2>2. UNCHANGED <<job, owner, wpc, status, pc, line>> BY <1>2, <2>1
  <2>3. ReadingOK' BY <2>1 DEF ReadsInv, ReadingOK
  <2>4. PlaceInv'
    BY <2>1, <2>2 DEF ReadsInv, PlaceInv, Reads, At, PlaceInLine, ActiveJobs
  <2>5. ColumnsInv'
    BY <2>1, <2>2 DEF ReadsInv, ColumnsInv, Reads, At, Columns, Concluded, Resaved
  <2> QED BY <1>2, <2>1, <2>3, <2>4, <2>5 DEF ReadsInv
<1> QED BY <1>1, <1>3, <1>4, <1>5, <1>6 DEF ReadsNext, getQueueStatus

LEMMA ReadsStart ==
    ASSUME ReadsInit, Smooth
    PROVE  ReadsInv
<1>1. NothingFails /\ OutcomesConcluded
  BY DEF ReadsInit, Init, NothingFails, OutcomesConcluded
<1>2. LineInv
  <2>1. ActiveJobs = {} BY DEF ReadsInit, Init, ActiveJobs
  <2>2. /\ line \in Seq(Requests) /\ Len(line) = 0
        /\ \A o \in Requests : job[o] # "waiting"
    BY EmptySeq DEF ReadsInit, Init
  <2> QED BY <2>1, <2>2, FS_EmptySet DEF LineInv
<1>3. ReadingOK /\ PlaceInv /\ ColumnsInv
  BY DEF ReadsInit, ReadingOK, PlaceInv, ColumnsInv, Reads, At
<1> QED BY <1>1, <1>2, <1>3 DEF ReadsInv

\* What the reads rest on while nothing fails, for any number of orders.
THEOREM ReadsInvariant == Smooth => (ReadsSpec => []ReadsInv)
<1> SUFFICES ASSUME Smooth PROVE ReadsSpec => []ReadsInv
  OBVIOUS
<1>1. ReadsInit => ReadsInv BY ReadsStart
<1>2. IInv /\ ReadsInv /\ [ReadsNext]_readsVars => ReadsInv'
  BY ReadsStep
<1>3. ReadsSpec => []IInv BY ReadsKeepFlow, FlowSafe, PTL
<1> QED BY <1>1, <1>2, <1>3, PTL DEF ReadsSpec

\* Position 0 is told of a job that is completed, and of no other.
THEOREM ZeroPosition ==
    "processing" \in StatusColumn => (ReadsSpec => []ZeroMeansCompleted)
<1> SUFFICES ASSUME "processing" \in StatusColumn
             PROVE  ReadsSpec => []ZeroMeansCompleted
  OBVIOUS
<1>1. CASE Faults # {}
  <2>1. ZeroMeansCompleted BY <1>1 DEF ZeroMeansCompleted
  <2> QED BY <2>1, PTL
<1>2. CASE Faults = {}
  <2>1. Smooth BY <1>2 DEF Smooth
  <2>2. ReadsInv => ZeroMeansCompleted
    BY DEF ReadsInv, ReadingOK, PlaceInv, Reads, At, ZeroMeansCompleted
  <2> QED BY <2>1, <2>2, ReadsInvariant, PTL
<1> QED BY <1>1, <1>2

\* Nobody in the line is told to be further ahead than it is by then.
THEOREM PositionIsHonest ==
    "processing" \in StatusColumn => (ReadsSpec => []NeverTooOptimistic)
<1> SUFFICES ASSUME "processing" \in StatusColumn
             PROVE  ReadsSpec => []NeverTooOptimistic
  OBVIOUS
<1>1. CASE Faults # {}
  <2>1. NeverTooOptimistic BY <1>1 DEF NeverTooOptimistic
  <2> QED BY <2>1, PTL
<1>2. CASE Faults = {}
  <2>1. Smooth BY <1>2 DEF Smooth
  <2>2. ReadsInv => NeverTooOptimistic
    BY DEF ReadsInv, ReadingOK, PlaceInv, Reads, At, NeverTooOptimistic
  <2> QED BY <2>1, <2>2, ReadsInvariant, PTL
<1> QED BY <1>1, <1>2

\* An order in two columns was saved a second time by its own call.
THEOREM CountedOnce ==
    "processing" \in StatusColumn => (ReadsSpec => []CountedTwiceOnlyIfSaved)
<1> SUFFICES ASSUME "processing" \in StatusColumn
             PROVE  ReadsSpec => []CountedTwiceOnlyIfSaved
  OBVIOUS
<1>1. CASE Faults # {}
  <2>1. CountedTwiceOnlyIfSaved BY <1>1 DEF CountedTwiceOnlyIfSaved
  <2> QED BY <2>1, PTL
<1>2. CASE Faults = {}
  <2>1. Smooth BY <1>2 DEF Smooth
  <2>2. ASSUME ReadsInv, At("counted"), Cardinality(reading.columns) > 1
        PROVE  pc[reading.of] \in {"responding", "accepted"}
    <3>1. PICK o \in Requests, columns \in SUBSET {"confirmed", "failed", "pending"} :
              /\ o = reading.of /\ columns = reading.columns
              /\ Columns(o, "counted", columns)
      BY <2>2 DEF ReadsInv, ReadingOK, ColumnsInv, Reads, At
    <3>2. columns # {} /\ \A c : columns # {c}
      <4>1. Cardinality({}) = 0 /\ \A c : Cardinality({c}) = 1
        BY FS_EmptySet, FS_Singleton
      <4>2. Cardinality(columns) > 1 BY <2>2, <3>1
      <4>3. columns # {} BY <4>1, <4>2
      <4>4. ASSUME NEW c, columns = {c} PROVE FALSE
        <5>1. Cardinality(columns) = 1 BY <4>1, <4>4
        <5> QED BY <4>2, <5>1
      <4> QED BY <4>3, <4>4
    <3>3. columns \ {"pending"} # {} /\ "pending" \in columns
      BY <3>1, <3>2 DEF Columns
    <3> QED BY <3>1, <3>3 DEF Columns, Resaved
  <2>3. ReadsInv => CountedTwiceOnlyIfSaved
    BY <2>2 DEF CountedTwiceOnlyIfSaved
  <2> QED BY <2>1, <2>3, ReadsInvariant, PTL
<1> QED BY <1>1, <1>2
==============================================================================
