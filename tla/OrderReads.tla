------------------------------ MODULE OrderReads ------------------------------
(***************************************************************************)
(* getQueueStatus and getOrderMetrics beside the order flow: what a client *)
(* is told of its job and of the orders is put together from several reads *)
(* of the queue or of the table, between which jobs and orders move. The   *)
(* queue keeps its waiting jobs in a line here.                            *)
(***************************************************************************)
EXTENDS OrderFlow, Sequences, FiniteSets

VARIABLES
    line,     \* the waiting jobs, the one to be taken next first
    reading   \* the call under way, and the one order it is watched for

readsVars == <<vars, line, reading>>

At(step) == reading # None /\ reading.step = step

Answer(o, step, place) == [of |-> o, step |-> step, place |-> place]

ActiveJobs == {o \in Requests : job[o] = "active"}

\* findIndex + 1, which makes 0 of a job that is not there.
PlaceInLine(o) ==
    IF job[o] = "waiting" THEN CHOOSE i \in DOMAIN line : line[i] = o ELSE 0

\* A job joins the line at its end, a stalled one at its head; a worker takes
\* the job at the head.
KeepLine ==
    LET Joins(o) == job[o] # "waiting" /\ job'[o] = "waiting"
        Leaves(o) == job[o] = "waiting" /\ job'[o] # "waiting"
    IN  \/ \E o \in Requests : /\ Joins(o)
                               /\ line' = IF job[o] = "active" THEN <<o>> \o line
                                                             ELSE Append(line, o)
        \/ \E o \in Requests : /\ Leaves(o)
                               /\ o = Head(line)
                               /\ line' = Tail(line)
        \/ /\ \A o \in Requests : ~Joins(o) /\ ~Leaves(o)
           /\ UNCHANGED line

\* The place among the active jobs, or 0: workers take jobs one by one, and
\* the model does not keep in which order they took those that are active.
PlacesAmongActive(o) ==
    IF o \in ActiveJobs THEN 1..Cardinality(ActiveJobs) ELSE {0}

\* Mutant: the active jobs are counted before the waiting ones are searched.
CountActiveFirst ==
    \/ /\ reading = None
       /\ \E o \in Requests :
              /\ job[o] # "none"
              /\ reading' = Answer(o, "asking", IF o \in ActiveJobs
                                                THEN 1
                                                ELSE Cardinality(ActiveJobs))
    \/ /\ At("asking")
       /\ LET p == PlaceInLine(reading.of)
          IN  reading' = Answer(reading.of, "answered",
                                IF p > 0 THEN reading.place + p ELSE 0)

\* Mutant: the place in the line is not counted from 1.
CountFromZero ==
    \/ /\ reading = None
       /\ \E o \in Requests :
              job[o] # "none" /\ reading' = Answer(o, "asking", PlaceInLine(o))
    \/ /\ At("asking")
       /\ \E place \in IF reading.place > 0
                       THEN {Cardinality(ActiveJobs) + reading.place - 1}
                       ELSE PlacesAmongActive(reading.of) :
              reading' = Answer(reading.of, "answered", place)

\* getWaiting, and then getActive.
getQueuePosition ==
    \/ /\ reading = None
       /\ \E o \in Requests :
              job[o] # "none" /\ reading' = Answer(o, "asking", PlaceInLine(o))
    \/ /\ At("asking")
       /\ \E place \in IF reading.place > 0
                       THEN {Cardinality(ActiveJobs) + reading.place}
                       ELSE PlacesAmongActive(reading.of) :
              reading' = Answer(reading.of, "answered", place)

\* The call returns.
Return == (At("answered") \/ At("counted")) /\ reading' = None

getQueueStatus == getQueuePosition \/ Return

\* count of the orders with one status: whether order o is among them.
CountIn(o, columns, column, next) ==
    reading' = [of |-> o, step |-> next,
                columns |-> columns \cup {c \in {column} : status[o] = c}]

\* Mutant: the columns are counted from the first status to the last.
CountPendingFirst ==
    \/ /\ reading = None
       /\ \E o \in Requests :
              status[o] # "none" /\ CountIn(o, {}, "pending", "failed")
    \/ At("failed") /\ CountIn(reading.of, reading.columns, "failed", "confirmed")
    \/ At("confirmed")
          /\ CountIn(reading.of, reading.columns, "confirmed", "counted")

\* The counts are queries of their own, of the confirmed orders, the failed
\* ones and the pending ones.
getOrderMetrics ==
    \/ /\ reading = None
       /\ \E o \in Requests :
              status[o] # "none" /\ CountIn(o, {}, "confirmed", "failed")
    \/ At("failed") /\ CountIn(reading.of, reading.columns, "failed", "pending")
    \/ At("pending") /\ CountIn(reading.of, reading.columns, "pending", "counted")

ReadsInit == Init /\ line = <<>> /\ reading = None

\* An answer is judged at the moment it is there: nothing moves between the
\* last read and the return.
ReadsNext ==
    \/ /\ ~At("answered") /\ ~At("counted")
       /\ Next /\ KeepLine
       /\ UNCHANGED reading
    \/ (getQueueStatus \/ getOrderMetrics) /\ UNCHANGED <<vars, line>>

ReadsSpec == ReadsInit /\ [][ReadsNext]_readsVars
------------------------------------------------------------------------------
\* The comment at orders.service.ts:211, "Job is completed or not found": as
\* long as nothing fails, position 0 is told of a completed job only, though
\* the job may go from the line to a worker between the two reads.
ZeroMeansCompleted ==
    Faults # {} \/ (At("answered") /\ reading.place = 0 => job[reading.of] = "completed")

\* Nobody is told to be further ahead than it is: when the answer is there,
\* a job still in the line has fewer jobs before it than the position says,
\* however many of them left the line between the two reads.
NeverTooOptimistic ==
    \/ Faults # {}
    \/ At("answered") /\ job[reading.of] = "waiting" =>
           Cardinality(ActiveJobs) + PlaceInLine(reading.of) <= reading.place

\* The columns of getOrderMetrics overlap for one reason only: as long as
\* nothing fails, an order is counted twice only after its own call saved it
\* a second time and put it back to PENDING.
CountedTwiceOnlyIfSaved ==
    \/ Faults # {}
    \/ At("counted") /\ Cardinality(reading.columns) > 1 =>
           pc[reading.of] \in {"responding", "accepted"}
==============================================================================
