----------------------------- MODULE RedlockNodes -----------------------------
(***************************************************************************)
(* One product lock as the library redlock keeps it, with the settings of  *)
(* RedlockService: a script sent to every node at once, an attempt decided *)
(* by the first majority of answers, what is still on its way executed all *)
(* the same, attempts repeated, nothing taken back between two of them.    *)
(* Scripts of one call reach one node in the order they were sent in.      *)
(***************************************************************************)
EXTENDS Integers, FiniteSets

CONSTANTS
    Calls,      \* acquireLock calls, each with the random value of its lock
    Nodes,      \* the Redis nodes (3)
    Attempts,   \* attempts of an operation (retryCount + 1 = 11)
    Flaky,      \* nodes on which a script may fail, applied or not
    Volatile,   \* nodes that may restart without their keys
    None        \* no value

ASSUME RedlockAssumption ==
    /\ IsFiniteSet(Nodes)
    /\ Attempts \in Nat \ {0}
    /\ Flaky \subseteq Nodes
    /\ Volatile \subseteq Nodes
    /\ None \notin Calls

VARIABLES
    key,        \* the value of lock:product:<id> on each node, or None
    phase,      \* what a call is doing
    attempt,    \* its attempts of this operation so far
    acquires,   \* its acquire scripts on their way to each node
    releases,   \* its release scripts behind them
    for,        \* nodes that answered yes to the attempt under way
    against,    \* nodes that answered no, or with an error
    expired,    \* the TTL, counted from the start of the attempt, is over, or
                \* the lock is being given back
    erred,      \* history: nodes on which a script failed
    restarted,  \* history: nodes that lost their keys
    met         \* history: calls whose acquiring met scripts or keys of others

callVars == <<phase, attempt, for, against>>
nodeVars == <<key, erred, restarted>>
redlockVars == <<callVars, nodeVars, acquires, releases, expired, met>>

Returned == {"refused", "released", "unreleased"}
Phases   == {"idle", "acquiring", "held", "cleaning", "releasing"} \cup Returned

\* floor(n / 2) + 1
IsQuorum(answers) == 2 * Cardinality(answers) > Cardinality(Nodes)

\* Mutant: one node that says no is enough.
DeniedByOne(c) == against[c] # {}

\* The first majority decides an attempt.
Granted(c) == IsQuorum(for[c])
Denied(c)  == IsQuorum(against[c])

Enters(c, from, to) == phase[c] = from /\ phase' = [phase EXCEPT ![c] = to]

\* The script goes to all nodes, and their answers are counted afresh.
SendToAll(c, scripts) == [scripts EXCEPT ![c] = [n \in Nodes |-> @[n] + 1]]
CountFrom(c, k) == /\ attempt' = [attempt EXCEPT ![c] = k]
                   /\ for' = [for EXCEPT ![c] = {}]
                   /\ against' = [against EXCEPT ![c] = {}]

\* The first attempt, or the next one after a majority of refusals.
TryAcquire(c) ==
    /\ \/ Enters(c, "idle", "acquiring") /\ CountFrom(c, 1)
       \/ /\ Enters(c, "acquiring", "acquiring")
          /\ Denied(c)
          /\ attempt[c] < Attempts
          /\ CountFrom(c, attempt[c] + 1)
    /\ acquires' = SendToAll(c, acquires)
    /\ expired' = [expired EXCEPT ![c] = FALSE]
    /\ UNCHANGED <<nodeVars, releases>>

\* acquireLock returns the lock, whatever is left of its TTL.
Acquired(c) ==
    /\ Enters(c, "acquiring", "held")
    /\ Granted(c)
    /\ UNCHANGED <<attempt, for, against, nodeVars, acquires, releases, expired>>

\* Mutant: only the nodes that said yes to the last attempt are cleaned up.
CleanLastVotes(c) ==
    /\ Enters(c, "acquiring", "cleaning")
    /\ Denied(c)
    /\ attempt[c] = Attempts
    /\ CountFrom(c, 1)
    /\ releases' = [releases EXCEPT ![c] = [n \in Nodes |->
                                   IF n \in for[c] THEN @[n] + 1 ELSE @[n]]]
    /\ expired' = [expired EXCEPT ![c] = TRUE]
    /\ UNCHANGED <<nodeVars, acquires>>

\* The last attempt has failed: what the attempts left is released, once.
CleanUp(c) ==
    /\ Enters(c, "acquiring", "cleaning")
    /\ Denied(c)
    /\ attempt[c] = Attempts
    /\ CountFrom(c, 1)
    /\ releases' = SendToAll(c, releases)
    /\ expired' = [expired EXCEPT ![c] = TRUE]
    /\ UNCHANGED <<nodeVars, acquires>>

\* acquireLock returns null, however the cleaning went.
Refused(c) ==
    /\ Enters(c, "cleaning", "refused")
    /\ Granted(c) \/ Denied(c)
    /\ CountFrom(c, 0)
    /\ UNCHANGED <<nodeVars, acquires, releases, expired>>

\* releaseLock, and its next attempt: an expired key counts as a refusal.
TryRelease(c) ==
    /\ \/ Enters(c, "held", "releasing") /\ CountFrom(c, 1)
       \/ /\ Enters(c, "releasing", "releasing")
          /\ Denied(c)
          /\ attempt[c] < Attempts
          /\ CountFrom(c, attempt[c] + 1)
    /\ releases' = SendToAll(c, releases)
    /\ expired' = [expired EXCEPT ![c] = TRUE]
    /\ UNCHANGED <<nodeVars, acquires>>

\* releaseLock returns true, or false after the last attempt.
ReleaseReturns(c) ==
    /\ \/ Enters(c, "releasing", "released") /\ Granted(c)
       \/ /\ Enters(c, "releasing", "unreleased")
          /\ Denied(c)
          /\ attempt[c] = Attempts
    /\ CountFrom(c, 0)
    /\ UNCHANGED <<nodeVars, acquires, releases, expired>>

\* Only the answer to the last script sent is one to the attempt under way.
Answer(c, n, yes, last) ==
    LET counts == last /\ phase[c] \notin Returned
    IN  /\ for' = [for EXCEPT ![c] = IF counts /\ yes THEN @ \cup {n} ELSE @]
        /\ against' = [against EXCEPT
                           ![c] = IF counts /\ ~yes THEN @ \cup {n} ELSE @]

\* A node runs a script that leaves value new, or it fails, which is a no.
Run(c, n, new, yes, last) ==
    /\ \/ /\ key' = [key EXCEPT ![n] = new]
          /\ Answer(c, n, yes, last)
          /\ UNCHANGED erred
       \/ /\ n \in Flaky
          /\ key' \in {key, [key EXCEPT ![n] = new]}
          /\ Answer(c, n, FALSE, last)
          /\ erred' = erred \cup {n}
    /\ UNCHANGED <<phase, attempt, restarted, expired>>

\* Mutant: the script sets the key without looking.
RunBlindly(c, n) ==
    /\ acquires[c][n] > 0
    /\ acquires' = [acquires EXCEPT ![c][n] = @ - 1]
    /\ Run(c, n, c, TRUE, acquires[c][n] = 1 /\ releases[c][n] = 0)
    /\ UNCHANGED releases

\* The acquire script refuses if the key exists, be it the call's own.
RunAcquire(c, n) ==
    /\ acquires[c][n] > 0
    /\ acquires' = [acquires EXCEPT ![c][n] = @ - 1]
    /\ Run(c, n, IF key[n] = None THEN c ELSE key[n], key[n] = None,
           acquires[c][n] = 1 /\ releases[c][n] = 0)
    /\ UNCHANGED releases

\* The release script deletes the key only if it has the call's value.
RunRelease(c, n) ==
    /\ acquires[c][n] = 0 /\ releases[c][n] > 0
    /\ releases' = [releases EXCEPT ![c][n] = @ - 1]
    /\ Run(c, n, IF key[n] = c THEN None ELSE key[n], key[n] = c,
           releases[c][n] = 1)
    /\ UNCHANGED acquires

\* The answer of node n still backs a lease that call c may come to hold.
Backs(n, c) == /\ phase[c] \in {"acquiring", "held"}
               /\ ~expired[c]
               /\ n \in for[c]

\* The TTL of a key starts when the node sets it, after the call sent for it.
Expire(n) ==
    /\ key[n] # None
    /\ ~Backs(n, key[n])
    /\ key' = [key EXCEPT ![n] = None]
    /\ UNCHANGED <<callVars, erred, restarted, acquires, releases, expired>>

LeaseEnds(c) ==
    /\ phase[c] \in {"acquiring", "held"}
    /\ expired' = [expired EXCEPT ![c] = TRUE]
    /\ UNCHANGED <<callVars, nodeVars, acquires, releases>>

\* The nodes persist nothing but a snapshot now and then.
Restart(n) ==
    /\ n \in Volatile
    /\ key' = [key EXCEPT ![n] = None]
    /\ restarted' = restarted \cup {n}
    /\ UNCHANGED <<callVars, erred, acquires, releases, expired>>

\* Call c finds the key of another call on a node, or a script under way.
Meets(c) ==
    /\ phase'[c] = "acquiring"
    /\ \E n \in Nodes : \/ key'[n] \notin {None, c}
                        \/ \E d \in Calls \ {c} :
                               acquires'[d][n] + releases'[d][n] > 0

RedlockInit ==
    /\ key = [n \in Nodes |-> None]
    /\ phase = [c \in Calls |-> "idle"]
    /\ attempt = [c \in Calls |-> 0]
    /\ acquires = [c \in Calls |-> [n \in Nodes |-> 0]]
    /\ releases = [c \in Calls |-> [n \in Nodes |-> 0]]
    /\ for = [c \in Calls |-> {}]
    /\ against = [c \in Calls |-> {}]
    /\ expired = [c \in Calls |-> FALSE]
    /\ erred = {} /\ restarted = {} /\ met = {}

RedlockStep ==
    \/ \E c \in Calls : \/ TryAcquire(c) \/ Acquired(c) \/ CleanUp(c)
                        \/ Refused(c) \/ TryRelease(c) \/ ReleaseReturns(c)
                        \/ LeaseEnds(c)
                        \/ \E n \in Nodes : RunAcquire(c, n) \/ RunRelease(c, n)
    \/ \E n \in Nodes : Expire(n) \/ Restart(n)

RedlockNext == RedlockStep /\ met' = met \cup {c \in Calls : Meets(c)}

RedlockSpec == RedlockInit /\ [][RedlockNext]_redlockVars
------------------------------------------------------------------------------
\* A call holds the lock and its TTL, less the drift, has not passed.
HoldsLease(c) == phase[c] = "held" /\ ~expired[c]

\* The promise RedlockService gets from its majority of independent nodes: no
\* two calls hold a lease at one time, whatever scripts fail, come late or are
\* left over from earlier attempts, unless a node that gave its vote to both
\* restarted and forgot the first.
OneLease ==
    \A c, d \in Calls :
        HoldsLease(c) /\ HoldsLease(d) /\ c # d
            => for[c] \cap for[d] \cap restarted # {}

\* Scripts, votes and attempts add up to the promise of the lock: a lease is
\* granted while no other runs, as long as no node restarts.
Service == INSTANCE LockService WITH
               Askers  <- Calls,
               Overrun <- TRUE,
               asking  <- {c \in Calls : phase[c] \in {"acquiring", "cleaning"}},
               relying <- {c \in Calls : phase[c] = "held"},
               leases  <- {c \in Calls : HoldsLease(c)},
               forgot  <- restarted # {}
NodesServe ==
    /\ Service!ServiceInit
    /\ [][UNCHANGED Service!serviceVars \/ Service!ServiceNext]_redlockVars

\* README.md:47, "Can handle 1 Redis node failure out of 3": a call that meets
\* no other is not refused because a minority of the nodes fails.
LoneCallGranted ==
    2 * Cardinality(Flaky) < Cardinality(Nodes) =>
        \A c \in Calls : phase[c] \in {"cleaning", "refused"} => c \in met

\* Of two calls that ask while nobody else ever has, one is granted the lock,
\* as long as no node fails a script: what denies the first attempt of one is a
\* majority that has answered yes to the other.
OneOfTwoWins ==
    erred = {} =>
        \A c, d \in Calls :
            /\ c # d
            /\ {phase[c], phase[d]} \subseteq {"cleaning", "refused"}
            => \E e \in Calls \ {c, d} : phase[e] # "idle"

\* A call that was refused, or that gives its lock back, has no key on any node
\* that did not fail it, once its scripts have run: not from an earlier
\* attempt either, and not from a script that arrived after the decision.
NothingLeftBehind ==
    \A c \in Calls, n \in Nodes :
        /\ phase[c] \in {"cleaning", "releasing"} \cup Returned
        /\ acquires[c][n] + releases[c][n] = 0
        /\ key[n] = c
        => n \in erred

\* The last word of the call is a release script.
Over(c) == phase[c] \in {"cleaning", "releasing"} \cup Returned

RedlockTypeOK ==
    /\ key \in [Nodes -> Calls \cup {None}]
    /\ phase \in [Calls -> Phases]
    /\ attempt \in [Calls -> Nat]
    /\ acquires \in [Calls -> [Nodes -> Nat]]
    /\ releases \in [Calls -> [Nodes -> Nat]]
    /\ for \in [Calls -> SUBSET Nodes]
    /\ against \in [Calls -> SUBSET Nodes]
    /\ expired \in [Calls -> BOOLEAN]
    /\ erred \subseteq Nodes /\ restarted \subseteq Nodes /\ met \subseteq Calls

\* A vote whose lease runs has its key, and a lock has a quorum of votes.
VotesBacked ==
    \A c \in Calls :
        /\ \A n \in Nodes : Backs(n, c) => key[n] = c \/ n \in restarted
        /\ phase[c] = "held" => IsQuorum(for[c])

\* Release scripts come last, and each cleans its node or fails there.
ReleasesLast ==
    \A c \in Calls, n \in Nodes :
        IF Over(c)
        THEN /\ acquires[c][n] > 0 => releases[c][n] > 0
             /\ releases[c][n] = 0 /\ key[n] = c => n \in erred
        ELSE releases[c][n] = 0

\* A call that is acquiring has met nobody, and a minority is flaky.
LoneAttempt(c) == /\ phase[c] = "acquiring" /\ c \notin met
                  /\ 2 * Cardinality(Flaky) < Cardinality(Nodes)

\* The first script of a call finds no key of its own, and all that has not
\* voted for a call that met nobody is flaky.
FirstTry ==
    \A c \in Calls, n \in Nodes :
        /\ phase[c] = "idle" => acquires[c][n] = 0 /\ key[n] # c
        /\ phase[c] = "acquiring" => attempt[c] > 0
        /\ phase[c] = "acquiring" /\ attempt[c] = 1 /\ acquires[c][n] > 0
               => acquires[c][n] = 1 /\ key[n] # c
        /\ LoneAttempt(c) => attempt[c] = 1 /\ key[n] \in {None, c}
                                /\ against[c] \subseteq Flaky

\* The inductive invariant of the proofs.
RedlockInv == RedlockTypeOK /\ VotesBacked /\ ReleasesLast /\ FirstTry
==============================================================================
