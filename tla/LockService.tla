----------------------------- MODULE LockService -----------------------------
(***************************************************************************)
(* What RedlockService promises of one product lock: a lease is granted    *)
(* while nobody else has one, and ends when it is given back or when its   *)
(* TTL does, which is after its holder is done unless that one is slow.    *)
(***************************************************************************)
CONSTANTS
    Askers,    \* the processes that call acquireLock and releaseLock
    Overrun    \* whether a holder may need longer than the TTL

VARIABLES
    asking,    \* processes in acquireLock
    relying,   \* processes acquireLock gave the lock, until they call releaseLock
    leases,    \* processes whose lease has not ended
    forgot     \* whether the nodes have forgotten a lease

serviceVars == <<asking, relying, leases, forgot>>

ServiceInit == asking = {} /\ relying = {} /\ leases = {} /\ forgot = FALSE

Ask(h) ==
    /\ h \notin asking \cup relying
    /\ asking' = asking \cup {h}
    /\ UNCHANGED <<relying, leases, forgot>>

\* A grant may arrive when its lease is over already.
Grant(h) ==
    /\ h \in asking
    /\ asking' = asking \ {h}
    /\ relying' = relying \cup {h}
    /\ \/ (leases = {} \/ forgot) /\ leases' = leases \cup {h}
       \/ Overrun /\ UNCHANGED leases
    /\ UNCHANGED forgot

Refuse(h) ==
    /\ h \in asking
    /\ asking' = asking \ {h}
    /\ UNCHANGED <<relying, leases, forgot>>

\* releaseLock, or an exception on the way there, which leaves the lease to
\* its TTL, as a failing release does.
GiveBack(h) ==
    /\ h \in relying
    /\ relying' = relying \ {h}
    /\ leases' \in {leases, leases \ {h}}
    /\ UNCHANGED <<asking, forgot>>

\* The TTL is over.
Lapse(h) ==
    /\ h \in leases
    /\ h \notin relying \/ Overrun
    /\ leases' = leases \ {h}
    /\ UNCHANGED <<asking, relying, forgot>>

Forget == forgot' = TRUE /\ UNCHANGED <<asking, relying, leases>>

ServiceNext ==
    \/ \E h \in Askers : Ask(h) \/ Grant(h) \/ Refuse(h) \/ GiveBack(h) \/ Lapse(h)
    \/ Forget

ServiceSpec == ServiceInit /\ [][ServiceNext]_serviceVars
------------------------------------------------------------------------------
\* What the callers make of it: two processes never rely on one lock, unless
\* one of them outlives its lease or the nodes forget it.
OneRelies == Overrun \/ forgot \/ \A g, h \in relying : g = h

\* The invariant it rests on: one lease at a time, and everybody who relies on
\* the lock has it.
LeaseInv ==
    /\ asking \subseteq Askers /\ relying \subseteq Askers /\ leases \subseteq Askers
    /\ forgot \/ \A g, h \in leases : g = h
    /\ Overrun \/ relying \subseteq leases
==============================================================================
