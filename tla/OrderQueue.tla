------------------------------ MODULE OrderQueue ------------------------------
(***************************************************************************)
(* The BullMQ queue 'order-processing' with the options placeOrder gives   *)
(* its jobs: a library, modelled from how the code configures and uses it. *)
(***************************************************************************)
EXTENDS OrdersService

\* A worker that is free fetches a waiting job and takes its job lock.
TakeJob(w, o) ==
    /\ job[o] = "waiting"
    /\ WorkerGoes(w, "idle", "locking")
    /\ wjob' = [wjob EXCEPT ![w] = o]
    /\ job' = [job EXCEPT ![o] = "active"]
    /\ owner' = [owner EXCEPT ![o] = w]
    /\ UNCHANGED <<tableVars, metricVars, requestVars, lock, cart, tries,
                   stalls, wval>>

\* process(job) returned. A worker that lost the job lock cannot move the job.
JobCompleted(w) ==
    LET o == wjob[w]
    IN  /\ WorkerGoes(w, "finishing", "idle")
        /\ wjob' = [wjob EXCEPT ![w] = None]
        /\ IF owner[o] = w
           THEN /\ job' = [job EXCEPT ![o] = "completed"]
                /\ owner' = [owner EXCEPT ![o] = None]
           ELSE UNCHANGED <<job, owner>>
        /\ UNCHANGED <<tableVars, metricVars, requestVars, lock, cart, tries,
                       stalls, wval>>

\* Mutant: the attempts of a job are not counted.
JobFailedUncounted(w) ==
    LET o == wjob[w]
    IN  /\ WorkerGoes(w, "throwing", "idle")
        /\ wjob' = [wjob EXCEPT ![w] = None]
        /\ IF owner[o] = w
           THEN /\ job' = [job EXCEPT ![o] = "delayed"]
                /\ owner' = [owner EXCEPT ![o] = None]
           ELSE UNCHANGED <<job, owner>>
        /\ UNCHANGED <<tableVars, metricVars, requestVars, lock, cart, stalls,
                       tries, wval>>

\* process(job) threw: the job waits for its next attempt or is given up.
JobFailed(w) ==
    LET o == wjob[w]
    IN  /\ WorkerGoes(w, "throwing", "idle")
        /\ wjob' = [wjob EXCEPT ![w] = None]
        /\ IF owner[o] = w
           THEN /\ tries' = [tries EXCEPT ![o] = @ + 1]
                /\ job' = [job EXCEPT ![o] = IF tries[o] + 1 < MaxAttempts
                                             THEN "delayed" ELSE "failed"]
                /\ owner' = [owner EXCEPT ![o] = None]
           ELSE UNCHANGED <<job, owner, tries>>
        /\ UNCHANGED <<tableVars, metricVars, requestVars, lock, cart, stalls,
                       wval>>

\* The backoff of a failed attempt is over.
Promote(o) ==
    /\ job[o] = "delayed"
    /\ job' = [job EXCEPT ![o] = "waiting"]
    /\ UNCHANGED <<tableVars, metricVars, requestVars, workerVars, lock, cart,
                   owner, tries, stalls>>

\* Mutant: the stalls of a job are not counted.
RecoverUncounted(o) ==
    /\ job[o] = "active"
    /\ wjob[owner[o]] # o \/ Fault("slow")
    /\ owner' = [owner EXCEPT ![o] = None]
    /\ job' = [job EXCEPT ![o] = "waiting"]
    /\ UNCHANGED <<tableVars, metricVars, requestVars, workerVars, lock, cart,
                   tries, stalls>>

\* The job lock ran out: its worker died, or was paused and will go on.
RecoverStalled(o) ==
    /\ job[o] = "active"
    /\ wjob[owner[o]] # o \/ Fault("slow")
    /\ owner' = [owner EXCEPT ![o] = None]
    /\ IF stalls[o] < MaxStalls
       THEN /\ stalls' = [stalls EXCEPT ![o] = @ + 1]
            /\ job' = [job EXCEPT ![o] = "waiting"]
       ELSE /\ job' = [job EXCEPT ![o] = "failed"]
            /\ UNCHANGED stalls
    /\ UNCHANGED <<tableVars, metricVars, requestVars, workerVars, lock, cart,
                   tries>>
==============================================================================
