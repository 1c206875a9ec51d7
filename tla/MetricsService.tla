---------------------------- MODULE MetricsService ----------------------------
(***************************************************************************)
(* The metrics in Redis. Every command is atomic, and between two commands *)
(* of one caller those of others may run: the interceptor records finished *)
(* HTTP requests, the services publish inventory levels, getMetrics reads, *)
(* clearMetrics deletes. The lists of the service all work alike and so do *)
(* its counters; one list, two counters and the counter per second remain. *)
(***************************************************************************)
EXTENDS Integers, Sequences, FiniteSets

CONSTANTS
    Calls,       \* HTTP requests whose metrics are recorded
    Unlucky,     \* those during whose recording Redis may fail
    Products,    \* products whose level is published
    Levels,      \* levels a publisher may have read
    KeepLast,    \* samples a list keeps (1000)
    MaxSecond,   \* bound on the clock
    MaxClears,   \* bound on the clearMetrics calls
    None

ASSUME MetricsAssumption ==
    /\ IsFiniteSet(Calls) /\ Unlucky \subseteq Calls
    /\ Levels \subseteq Nat
    /\ KeepLast \in Nat \ {0}
    /\ MaxSecond \in Nat
    /\ MaxClears \in Nat

VARIABLES
    at,         \* the next command of a call's recording
    second,     \* the second that is part of its throughput key
    failedAt,   \* history: the command whose failure ended the recording
    samples,    \* request_latency_all, newest first, as sample numbers
    pushed,     \* history: samples recorded so far
    forgotten,  \* history: samples recorded before the list last vanished
    count,      \* the counters; 0 is a key that is not there
    level,      \* inventory:<id>, None if it is not there
    expiring,   \* the keys that have a TTL
    now,        \* the clock, in seconds
    clearing,   \* what the clearMetrics call under way has listed, or None
    clears,     \* clearMetrics calls begun
    mark,       \* history: samples recorded before the last clear began
    todo,       \* products whose level the getMetrics call has yet to read
    report,     \* products whose level it returns
    missed      \* history: products that were without level meanwhile

recordVars == <<at, second, failedAt>>
listVars   == <<samples, pushed, forgotten>>
clearVars  == <<clearing, clears, mark>>
readVars   == <<todo, report, missed>>
metricsVars == <<recordVars, listVars, clearVars, readVars, count, level,
                 expiring, now>>

Latency   == <<"request_latency_all", 0>>
Requests  == <<"total_requests", 0>>
Errors    == <<"total_errors", 0>>
Throughput(s) == <<"throughput", s>>
Inventory(p)  == <<"inventory", p>>

Counters == {Requests, Errors} \cup {Throughput(s) : s \in 0..MaxSecond}
Keys     == {Latency} \cup Counters \cup {Inventory(p) : p \in Products}

Exists(k) == \/ k = Latency /\ samples # <<>>
             \/ k \in Counters /\ count[k] > 0
             \/ \E p \in Products : k = Inventory(p) /\ level[p] # None

Goes(c, from, to) == at[c] = from /\ at' = [at EXCEPT ![c] = to]

\* lPush
Push(c) ==
    /\ Goes(c, "push", "trim")
    /\ samples' = <<pushed + 1>> \o samples
    /\ pushed' = pushed + 1
    /\ UNCHANGED <<second, failedAt, forgotten, clearVars, readVars, count,
                   level, expiring, now>>

\* Mutant: lTrim(key, -1000, -1) keeps the other end of the list.
TrimTail(c) ==
    /\ Goes(c, "trim", "keepSamples")
    /\ samples' = IF Len(samples) > KeepLast
                  THEN SubSeq(samples, Len(samples) - KeepLast + 1, Len(samples))
                  ELSE samples
    /\ UNCHANGED <<second, failedAt, pushed, forgotten, clearVars, readVars,
                   count, level, expiring, now>>

\* lTrim(key, 0, 999)
Trim(c) ==
    /\ Goes(c, "trim", "keepSamples")
    /\ samples' = IF Len(samples) > KeepLast
                  THEN SubSeq(samples, 1, KeepLast)
                  ELSE samples
    /\ UNCHANGED <<second, failedAt, pushed, forgotten, clearVars, readVars,
                   count, level, expiring, now>>

\* incr, which creates a missing key without a TTL
CountIn(c, from, to, k) ==
    /\ Goes(c, from, to)
    /\ count' = [count EXCEPT ![k] = @ + 1]
    /\ UNCHANGED <<failedAt, listVars, clearVars, readVars, level, expiring, now>>

\* expire, which does nothing to a missing key
KeepKey(c, from, to, k) ==
    /\ Goes(c, from, to)
    /\ expiring' = IF Exists(k) THEN expiring \cup {k} ELSE expiring
    /\ UNCHANGED <<second, failedAt, listVars, clearVars, readVars, count,
                   level, now>>

recordRequestLatency(c) ==
    Push(c) \/ Trim(c) \/ KeepKey(c, "keepSamples", "count", Latency)

\* After the count, an error is recorded if the request ended in one.
recordRequestCount(c) ==
    \/ CountIn(c, "count", "keepCount", Requests) /\ UNCHANGED second
    \/ KeepKey(c, "keepCount", "error", Requests)
    \/ KeepKey(c, "keepCount", "throughput", Requests)

recordError(c) ==
    \/ CountIn(c, "error", "keepError", Errors) /\ UNCHANGED second
    \/ KeepKey(c, "keepError", "throughput", Errors)

\* Mutant: each of the two commands computes its key.
ThroughputKeyTwice(c) ==
    \/ /\ CountIn(c, "throughput", "keepThroughput", Throughput(now))
       /\ second' = [second EXCEPT ![c] = now]
    \/ KeepKey(c, "keepThroughput", "done", Throughput(now))

\* The key of the second is computed once, for both commands.
updateThroughput(c) ==
    \/ /\ CountIn(c, "throughput", "keepThroughput", Throughput(now))
       /\ second' = [second EXCEPT ![c] = now]
    \/ KeepKey(c, "keepThroughput", "done", Throughput(second[c]))

\* The catch block of recordRequestMetrics ends a recording that throws.
RecordingFails(c) ==
    /\ c \in Unlucky
    /\ at[c] # "done"
    /\ at' = [at EXCEPT ![c] = "done"]
    /\ failedAt' = [failedAt EXCEPT ![c] = at[c]]
    /\ UNCHANGED <<second, listVars, clearVars, readVars, count, level,
                   expiring, now>>

recordRequestMetrics(c) ==
    \/ recordRequestLatency(c) \/ recordRequestCount(c) \/ recordError(c)
    \/ updateThroughput(c) \/ RecordingFails(c)
------------------------------------------------------------------------------
Without(levels) == {p \in Products : levels[p] = None}

\* A getMetrics call under way takes note of the levels that go.
Watch(levels) ==
    missed' = IF todo = {} THEN missed ELSE missed \cup Without(levels)

\* The keys ks are gone, and their TTLs with them.
Delete(ks) ==
    /\ samples' = IF Latency \in ks THEN <<>> ELSE samples
    /\ forgotten' = IF Latency \in ks THEN pushed ELSE forgotten
    /\ count' = [k \in Counters |-> IF k \in ks THEN 0 ELSE count[k]]
    /\ level' = [p \in Products |-> IF Inventory(p) \in ks THEN None ELSE level[p]]
    /\ expiring' = expiring \ ks
    /\ Watch(level')
    /\ UNCHANGED <<recordVars, pushed, todo, report, now>>

\* An hour has passed since the last expire or set of the key.
KeyExpires(k) == k \in expiring /\ Delete({k}) /\ UNCHANGED clearVars

\* set with EX: the level and its TTL come in one command.
recordInventoryLevel(p, stock) ==
    /\ level' = [level EXCEPT ![p] = stock]
    /\ expiring' = expiring \cup {Inventory(p)}
    /\ Watch(level')
    /\ UNCHANGED <<recordVars, listVars, clearVars, todo, report, count, now>>

\* clearMetrics: keys, and then del of what there was.
ListKeys ==
    /\ clearing = None
    /\ clears < MaxClears
    /\ clears' = clears + 1
    /\ clearing' = [keys |-> {k \in Keys : Exists(k)}, pushes |-> pushed]
    /\ UNCHANGED <<recordVars, listVars, readVars, count, level, expiring,
                   now, mark>>

\* Mutant: the keys are left to their TTLs.
DeleteNothing ==
    /\ clearing # None
    /\ mark' = clearing.pushes
    /\ clearing' = None
    /\ UNCHANGED <<recordVars, listVars, readVars, count, level, expiring,
                   now, clears>>

DeleteListed ==
    /\ clearing # None
    /\ Delete(clearing.keys)
    /\ mark' = clearing.pushes
    /\ clearing' = None
    /\ UNCHANGED clears

\* getMetrics: keys of the levels, and then one get after the other.
ListLevels ==
    /\ todo = {}
    /\ todo' = Products \ Without(level)
    /\ missed' = Without(level)
    /\ report' = {}
    /\ UNCHANGED <<recordVars, listVars, clearVars, count, level, expiring, now>>

\* Mutant: the level is parsed before it is tested, and 0 is no level.
GetPositive(p) ==
    /\ p \in todo
    /\ todo' = todo \ {p}
    /\ report' = IF level[p] \in {None, 0} THEN report ELSE report \cup {p}
    /\ UNCHANGED <<recordVars, listVars, clearVars, missed, count, level,
                   expiring, now>>

GetLevel(p) ==
    /\ p \in todo
    /\ todo' = todo \ {p}
    /\ report' = IF level[p] = None THEN report ELSE report \cup {p}
    /\ UNCHANGED <<recordVars, listVars, clearVars, missed, count, level,
                   expiring, now>>

NextSecond ==
    /\ now < MaxSecond
    /\ now' = now + 1
    /\ UNCHANGED <<recordVars, listVars, clearVars, readVars, count, level,
                   expiring>>

MetricsInit ==
    /\ at = [c \in Calls |-> "push"]
    /\ second = [c \in Calls |-> 0]
    /\ failedAt = [c \in Calls |-> "none"]
    /\ samples = <<>> /\ pushed = 0 /\ forgotten = 0
    /\ count = [k \in Counters |-> 0]
    /\ level = [p \in Products |-> None]
    /\ expiring = {}
    /\ now = 0
    /\ clearing = None /\ clears = 0 /\ mark = 0
    /\ todo = {} /\ report = {}
    /\ missed = Products

MetricsNext ==
    \/ \E c \in Calls : recordRequestMetrics(c)
    \/ \E p \in Products, stock \in Levels : recordInventoryLevel(p, stock)
    \/ \E k \in Keys : KeyExpires(k)
    \/ ListKeys \/ DeleteListed
    \/ ListLevels \/ \E p \in Products : GetLevel(p)
    \/ NextSecond

MetricsSpec == MetricsInit /\ [][MetricsNext]_metricsVars
------------------------------------------------------------------------------
\* The recordings whose lTrim is due, or failed.
Untrimmed == {c \in Calls : "trim" \in {at[c], failedAt[c]}}

\* lPush and lTrim of several recordings interleave, and some never trim: a
\* list still holds the newest samples without a gap, as many as it may keep,
\* and never more than that and one for each trim that is due or failed.
NewestKept ==
    /\ \A i \in DOMAIN samples : samples[i] = pushed + 1 - i
    /\ Len(samples) >= KeepLast \/ Len(samples) = pushed - forgotten
    /\ Len(samples) - KeepLast <= Cardinality(Untrimmed)

\* The command that gives key k its TTL is due in call c, or failed there.
TTLDue(c, k) ==
    \E step \in {at[c], failedAt[c]} :
        \/ k = Latency  /\ step \in {"trim", "keepSamples"}
        \/ k = Requests /\ step = "keepCount"
        \/ k = Errors   /\ step = "keepError"
        \/ k = Throughput(second[c]) /\ step = "keepThroughput"

\* No key is there for ever: one without a TTL belongs to a recording that is
\* about to set it, or that failed at it, whatever was deleted in between.
EveryKeyExpires ==
    \A k \in Keys : Exists(k) => k \in expiring \/ \E c \in Calls : TTLDue(c, k)

\* No sample that was recorded before clearMetrics began outlives the call.
ClearForgets == \A i \in DOMAIN samples : samples[i] > mark

\* getMetrics reports the level of every product, sold out or not, that had
\* one published all the while the call ran.
ReportIsComplete == todo = {} => Products \subseteq report \cup missed

Steps == {"push", "trim", "keepSamples", "count", "keepCount", "error",
          "keepError", "throughput", "keepThroughput", "done"}

MetricsTypeOK ==
    /\ at \in [Calls -> Steps]
    /\ second \in [Calls -> 0..MaxSecond]
    /\ failedAt \in [Calls -> Steps \cup {"none"}]
    /\ samples \in Seq(Nat)
    /\ pushed \in Nat /\ forgotten \in Nat /\ mark \in Nat /\ clears \in Nat
    /\ count \in [Counters -> Nat]
    /\ level \in [Products -> Levels \cup {None}]
    /\ expiring \subseteq Keys
    /\ now \in 0..MaxSecond
    /\ clearing \in {None} \cup [keys : SUBSET Keys, pushes : Nat]
    /\ todo \subseteq Products /\ report \subseteq Products
    /\ missed \subseteq Products

\* A recording fails once, and that is its end.
FailureInv == \A c \in Calls : failedAt[c] # "none" => at[c] = "done"

\* The samples that the clear under way will not delete are newer than it.
ClearInv ==
    /\ ClearForgets
    /\ mark <= pushed /\ forgotten <= pushed
    /\ clearing # None =>
           /\ clearing.pushes <= pushed
           /\ \/ Latency \in clearing.keys
              \/ \A i \in DOMAIN samples : samples[i] > clearing.pushes

\* A level yet to be read is there, or was missed.
ReportInv ==
    /\ Products \subseteq todo \cup report \cup missed
    /\ \A p \in todo \ missed : level[p] # None

\* The inductive invariant of the proofs.
MetricsInv == /\ MetricsTypeOK /\ FailureInv /\ NewestKept /\ EveryKeyExpires
              /\ ClearInv /\ ReportInv
==============================================================================
