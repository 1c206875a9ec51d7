----------------------------- MODULE MetricsProofs -----------------------------
(***************************************************************************)
(* Proofs about MetricsService for any sets of recordings, products and    *)
(* levels, lists of any length, and any number of seconds and clears.      *)
(***************************************************************************)
EXTENDS MetricsService, FiniteSetTheorems, TLAPS

\* The keys are what their names say, and no two of them are the same.
LEMMA KeysDiffer ==
    /\ Latency \notin Counters /\ Requests \in Counters /\ Errors \in Counters
    /\ Requests # Errors
    /\ \A s \in 0..MaxSecond : /\ Throughput(s) \in Counters
                               /\ Throughput(s) \notin {Requests, Errors}
    /\ \A s, t \in 0..MaxSecond : Throughput(s) = Throughput(t) => s = t
    /\ \A p \in Products : Inventory(p) \notin Counters \cup {Latency}
    /\ \A p, q \in Products : Inventory(p) = Inventory(q) => p = q
    /\ Keys = {Latency} \cup Counters \cup {Inventory(p) : p \in Products}
BY DEF Latency, Requests, Errors, Throughput, Inventory, Counters, Keys

LEMMA InitInv == MetricsInit => MetricsInv
<1> SUFFICES ASSUME MetricsInit PROVE MetricsInv OBVIOUS
<1> USE MetricsAssumption DEF MetricsInit
<1>1. MetricsTypeOK BY DEF MetricsTypeOK, Steps
<1>2. FailureInv BY DEF FailureInv
<1>3. NewestKept
  <2>1. Untrimmed = {} BY DEF Untrimmed
  <2>2. Cardinality(Untrimmed) = 0 BY <2>1, FS_EmptySet
  <2> QED BY <2>2 DEF NewestKept
<1>4. EveryKeyExpires BY KeysDiffer DEF EveryKeyExpires, Exists
<1>5. ClearInv /\ ReportInv BY DEF ClearInv, ClearForgets, ReportInv
<1> QED BY <1>1, <1>2, <1>3, <1>4, <1>5 DEF MetricsInv
------------------------------------------------------------------------------
\* A step of a recording that leaves the list alone and has no trim behind or
\* before it does not disturb what is said of the list.
LEMMA ListUntouched ==
    ASSUME MetricsInv, UNCHANGED <<samples, pushed, forgotten>>,
           Untrimmed' = Untrimmed
    PROVE  NewestKept'
BY DEF MetricsInv, NewestKept

\* Counting: a recording that joins or leaves the untrimmed ones.
LEMMA UntrimmedFinite == IsFiniteSet(Untrimmed) /\ Cardinality(Untrimmed) \in Nat
<1>1. Untrimmed \subseteq Calls BY DEF Untrimmed
<1>2. IsFiniteSet(Untrimmed) BY <1>1, MetricsAssumption, FS_Subset
<1> QED BY <1>2, FS_CardinalityType
------------------------------------------------------------------------------
\* lPush: the new sample comes before the others, and a trim is due.
LEMMA PushInv ==
    ASSUME MetricsInv, NEW c \in Calls, Push(c)
    PROVE  MetricsInv'
<1> USE DEF MetricsInv, MetricsTypeOK, Push, Goes, clearVars, readVars
<1>1. /\ samples' = <<pushed + 1>> \o samples
      /\ samples' \in Seq(Nat)
      /\ Len(samples') = Len(samples) + 1
      /\ samples'[1] = pushed + 1
      /\ \A i \in DOMAIN samples' : i > 1 => /\ i - 1 \in DOMAIN samples
                                             /\ samples'[i] = samples[i - 1]
  OBVIOUS
<1>2. MetricsTypeOK' BY <1>1 DEF Steps
<1>3. FailureInv' BY DEF FailureInv
<1>4. NewestKept'
  <2>1. c \notin Untrimmed BY DEF Untrimmed, FailureInv
  <2>2. Untrimmed' = Untrimmed \cup {c} BY DEF Untrimmed
  <2>3. Cardinality(Untrimmed') = Cardinality(Untrimmed) + 1
    BY <2>1, <2>2, UntrimmedFinite, FS_AddElement
  <2>4. \A i \in DOMAIN samples' : samples'[i] = pushed' + 1 - i
    BY <1>1 DEF NewestKept
  <2>5. Len(samples') >= KeepLast \/ Len(samples') = pushed' - forgotten'
    BY <1>1, MetricsAssumption DEF NewestKept
  <2>6. Len(samples') - KeepLast <= Cardinality(Untrimmed')
    BY <1>1, <2>3, UntrimmedFinite, MetricsAssumption DEF NewestKept
  <2> QED BY <2>4, <2>5, <2>6 DEF NewestKept
<1>5. EveryKeyExpires'
  <2>1. \A j \in Keys : ~TTLDue(c, j)
    BY DEF TTLDue, FailureInv
  <2>2. TTLDue(c, Latency)' BY DEF TTLDue
  <2> SUFFICES ASSUME NEW j \in Keys, Exists(j)', j \notin expiring', j # Latency
               PROVE  \E d \in Calls : TTLDue(d, j)'
    BY <2>2 DEF EveryKeyExpires
  <2>3. Exists(j) BY DEF Exists
  <2>4. PICK d \in Calls : TTLDue(d, j) BY <2>3 DEF EveryKeyExpires
  <2> QED BY <2>1, <2>4 DEF TTLDue
<1>6. ClearInv'
  BY <1>1 DEF ClearInv, ClearForgets
<1>7. ReportInv' BY DEF ReportInv
<1> QED BY <1>2, <1>3, <1>4, <1>5, <1>6, <1>7

\* lTrim: the list loses its oldest samples, if any.
LEMMA TrimInv ==
    ASSUME MetricsInv, NEW c \in Calls, Trim(c)
    PROVE  MetricsInv'
<1> USE DEF MetricsInv, MetricsTypeOK, Trim, Goes, clearVars, readVars
<1>1. /\ samples' \in Seq(Nat)
      /\ Len(samples') = IF Len(samples) > KeepLast THEN KeepLast ELSE Len(samples)
      /\ \A i \in DOMAIN samples' : i \in DOMAIN samples /\ samples'[i] = samples[i]
      /\ samples' # <<>> => samples # <<>>
  BY MetricsAssumption
<1>2. MetricsTypeOK' BY <1>1 DEF Steps
<1>3. FailureInv' BY DEF FailureInv
<1>4. NewestKept'
  <2>1. Len(samples') - KeepLast <= 0 BY <1>1, MetricsAssumption
  <2>2. Cardinality(Untrimmed') \in Nat
    <3>1. Untrimmed' \subseteq Calls BY DEF Untrimmed
    <3>2. IsFiniteSet(Untrimmed') BY <3>1, MetricsAssumption, FS_Subset
    <3> QED BY <3>2, FS_CardinalityType
  <2>3. \A i \in DOMAIN samples' : samples'[i] = pushed' + 1 - i
    BY <1>1 DEF NewestKept
  <2>4. Len(samples') >= KeepLast \/ Len(samples') = pushed' - forgotten'
    BY <1>1, MetricsAssumption DEF NewestKept
  <2> QED BY <1>1, <2>1, <2>2, <2>3, <2>4, MetricsAssumption DEF NewestKept
<1>5. EveryKeyExpires'
  <2>1. \A j \in Keys, d \in Calls : TTLDue(d, j) => TTLDue(d, j)'
    BY DEF TTLDue, FailureInv
  <2>2. \A j \in Keys : Exists(j)' => Exists(j) BY <1>1 DEF Exists
  <2> QED BY <2>1, <2>2 DEF EveryKeyExpires
<1>6. ClearInv' BY <1>1 DEF ClearInv, ClearForgets
<1>7. ReportInv' BY DEF ReportInv
<1> QED BY <1>2, <1>3, <1>4, <1>5, <1>6, <1>7

\* incr: the TTL of the counter is the next command.
LEMMA CountInInv ==
    ASSUME MetricsInv, NEW c \in Calls, NEW from \in Steps, NEW to \in Steps,
           NEW k \in Counters, CountIn(c, from, to, k),
           second' \in [Calls -> 0..MaxSecond],
           \A d \in Calls \ {c} : second'[d] = second[d],
           "trim" \notin {from, to}, from # "done", TTLDue(c, k)',
           \A j \in Keys : ~TTLDue(c, j)
    PROVE  MetricsInv'
<1> USE DEF MetricsInv, MetricsTypeOK, CountIn, Goes, listVars, clearVars, readVars
<1>1. MetricsTypeOK'
  <2>1. count' \in [Counters -> Nat] OBVIOUS
  <2>2. at' \in [Calls -> Steps] OBVIOUS
  <2> QED BY <2>1, <2>2
<1>2. FailureInv' BY DEF FailureInv
<1>3. NewestKept'
  <2>1. Untrimmed' = Untrimmed BY DEF Untrimmed, FailureInv
  <2> QED BY <2>1, ListUntouched
<1>4. EveryKeyExpires'
  <2> SUFFICES ASSUME NEW j \in Keys, Exists(j)', j \notin expiring'
               PROVE  \E d \in Calls : TTLDue(d, j)'
    BY DEF EveryKeyExpires
  <2>1. CASE j = k BY <2>1
  <2>2. CASE j # k
    <3>1. Exists(j) BY <2>2 DEF Exists
    <3>2. PICK d \in Calls : TTLDue(d, j) BY <3>1 DEF EveryKeyExpires
    <3>3. d # c BY <3>2
    <3> QED BY <3>2, <3>3 DEF TTLDue
  <2> QED BY <2>1, <2>2
<1>5. ClearInv' BY DEF ClearInv, ClearForgets
<1>6. ReportInv' BY DEF ReportInv
<1> QED BY <1>1, <1>2, <1>3, <1>4, <1>5, <1>6

\* expire: the key that the recording still owed its TTL has it, or is gone.
LEMMA KeepKeyInv ==
    ASSUME MetricsInv, NEW c \in Calls, NEW from \in Steps, NEW to \in Steps,
           NEW k \in Keys, KeepKey(c, from, to, k),
           "trim" \notin {from, to}, from # "done",
           \A j \in Keys : TTLDue(c, j) => j = k
    PROVE  MetricsInv'
<1> USE DEF MetricsInv, MetricsTypeOK, KeepKey, Goes, listVars, clearVars, readVars
<1>1. MetricsTypeOK' OBVIOUS
<1>2. FailureInv' BY DEF FailureInv
<1>3. NewestKept'
  <2>1. Untrimmed' = Untrimmed BY DEF Untrimmed, FailureInv
  <2> QED BY <2>1, ListUntouched
<1>4. EveryKeyExpires'
  <2> SUFFICES ASSUME NEW j \in Keys, Exists(j)', j \notin expiring'
               PROVE  \E d \in Calls : TTLDue(d, j)'
    BY DEF EveryKeyExpires
  <2>1. Exists(j) /\ j \notin expiring /\ j # k BY DEF Exists
  <2>2. PICK d \in Calls : TTLDue(d, j) BY <2>1 DEF EveryKeyExpires
  <2>3. d # c BY <2>1, <2>2
  <2> QED BY <2>2, <2>3 DEF TTLDue
<1>5. ClearInv' BY DEF ClearInv, ClearForgets
<1>6. ReportInv' BY DEF ReportInv
<1> QED BY <1>1, <1>2, <1>3, <1>4, <1>5, <1>6

\* A recording that ends in an error.
LEMMA RecordingFailsInv ==
    ASSUME MetricsInv, NEW c \in Calls, RecordingFails(c)
    PROVE  MetricsInv'
<1> USE DEF MetricsInv, MetricsTypeOK, RecordingFails, listVars, clearVars, readVars
<1>1. MetricsTypeOK' BY DEF Steps
<1>2. FailureInv' BY DEF FailureInv
<1>3. NewestKept'
  <2>1. Untrimmed' = Untrimmed BY DEF Untrimmed, FailureInv
  <2> QED BY <2>1, ListUntouched
<1>4. EveryKeyExpires'
  <2>1. \A j \in Keys, d \in Calls : TTLDue(d, j) => TTLDue(d, j)'
    BY DEF TTLDue, FailureInv, Steps
  <2>2. \A j \in Keys : Exists(j)' => Exists(j) BY DEF Exists
  <2> QED BY <2>1, <2>2 DEF EveryKeyExpires
<1>5. ClearInv' BY DEF ClearInv, ClearForgets
<1>6. ReportInv' BY DEF ReportInv
<1> QED BY <1>1, <1>2, <1>3, <1>4, <1>5, <1>6

\* A step of the interceptor's recording.
LEMMA RecordingInv ==
    ASSUME MetricsInv, NEW c \in Calls, recordRequestMetrics(c)
    PROVE  MetricsInv'
<1> USE KeysDiffer
<1>a. /\ \A j \in Keys : TTLDue(c, j) =>
            at[c] \in {"trim", "keepSamples", "keepCount", "keepError", "keepThroughput", "done"}
      /\ at[c] # "done" => failedAt[c] = "none"
      /\ second[c] \in 0..MaxSecond /\ now \in 0..MaxSecond
      /\ second \in [Calls -> 0..MaxSecond]
  BY DEF TTLDue, MetricsInv, FailureInv, MetricsTypeOK
<1>1. CASE recordRequestLatency(c)
  <2>1. CASE KeepKey(c, "keepSamples", "count", Latency)
    <3>1. at[c] = "keepSamples" BY <2>1 DEF KeepKey, Goes
    <3>2. \A j \in Keys : TTLDue(c, j) => j = Latency BY <1>a, <3>1 DEF TTLDue
    <3> QED BY <2>1, <3>2, KeepKeyInv DEF Steps
  <2> QED BY <1>1, <2>1, PushInv, TrimInv DEF recordRequestLatency
<1>2. CASE recordRequestCount(c)
  <2>1. CASE CountIn(c, "count", "keepCount", Requests) /\ UNCHANGED second
    <3>1. at[c] = "count" /\ at'[c] = "keepCount"
      BY <2>1 DEF CountIn, Goes, MetricsInv, MetricsTypeOK
    <3>2. TTLDue(c, Requests)' /\ \A j \in Keys : ~TTLDue(c, j)
      BY <1>a, <3>1 DEF TTLDue
    <3> QED BY <1>a, <2>1, <3>2, CountInInv DEF Steps
  <2>2. ASSUME NEW to \in {"error", "throughput"}, KeepKey(c, "keepCount", to, Requests)
        PROVE  MetricsInv'
    <3>1. at[c] = "keepCount" BY <2>2 DEF KeepKey, Goes
    <3>2. \A j \in Keys : TTLDue(c, j) => j = Requests BY <1>a, <3>1 DEF TTLDue
    <3> QED BY <2>2, <3>2, KeepKeyInv DEF Steps
  <2> QED BY <1>2, <2>1, <2>2 DEF recordRequestCount
<1>3. CASE recordError(c)
  <2>1. CASE CountIn(c, "error", "keepError", Errors) /\ UNCHANGED second
    <3>1. at[c] = "error" /\ at'[c] = "keepError"
      BY <2>1 DEF CountIn, Goes, MetricsInv, MetricsTypeOK
    <3>2. TTLDue(c, Errors)' /\ \A j \in Keys : ~TTLDue(c, j)
      BY <1>a, <3>1 DEF TTLDue
    <3> QED BY <1>a, <2>1, <3>2, CountInInv DEF Steps
  <2>2. CASE KeepKey(c, "keepError", "throughput", Errors)
    <3>1. at[c] = "keepError" BY <2>2 DEF KeepKey, Goes
    <3>2. \A j \in Keys : TTLDue(c, j) => j = Errors BY <1>a, <3>1 DEF TTLDue
    <3> QED BY <2>2, <3>2, KeepKeyInv DEF Steps
  <2> QED BY <1>3, <2>1, <2>2 DEF recordError
<1>4. CASE updateThroughput(c)
  <2>1. CASE /\ CountIn(c, "throughput", "keepThroughput", Throughput(now))
             /\ second' = [second EXCEPT ![c] = now]
    <3>0. PICK s \in 0..MaxSecond : s = now BY <1>a
    <3>1. at[c] = "throughput" /\ at'[c] = "keepThroughput"
      BY <2>1 DEF CountIn, Goes, MetricsInv, MetricsTypeOK
    <3>2. second'[c] = s /\ second' \in [Calls -> 0..MaxSecond]
      BY <1>a, <2>1, <3>0
    <3>3. TTLDue(c, Throughput(s))' BY <3>1, <3>2 DEF TTLDue, Throughput
    <3>4. \A j \in Keys : ~TTLDue(c, j) BY <1>a, <3>1 DEF TTLDue
    <3>5. \A d \in Calls \ {c} : second'[d] = second[d] BY <1>a, <2>1
    <3>6. CountIn(c, "throughput", "keepThroughput", Throughput(s))
      BY <2>1, <3>0
    <3>7. Throughput(s) \in Counters BY DEF Counters
    <3> QED BY <3>2, <3>3, <3>4, <3>5, <3>6, <3>7, CountInInv DEF Steps
  <2>2. CASE KeepKey(c, "keepThroughput", "done", Throughput(second[c]))
    <3>1. at[c] = "keepThroughput" BY <2>2 DEF KeepKey, Goes
    <3>2. \A j \in Keys : TTLDue(c, j) => j = Throughput(second[c])
      BY <1>a, <3>1 DEF TTLDue
    <3> QED BY <1>a, <2>2, <3>2, KeepKeyInv DEF Steps
  <2> QED BY <1>4, <2>1, <2>2 DEF updateThroughput
<1> QED BY <1>1, <1>2, <1>3, <1>4, RecordingFailsInv DEF recordRequestMetrics
------------------------------------------------------------------------------
\* Keys that are deleted owe no TTL, and what they leave is newer.
LEMMA DeleteInv ==
    ASSUME MetricsInv, NEW ks \in SUBSET Keys, Delete(ks),
           \/ UNCHANGED clearVars
           \/ /\ clearing # None /\ ks = clearing.keys
              /\ mark' = clearing.pushes /\ clearing' = None /\ clears' = clears
    PROVE  MetricsInv'
<1> USE DEF MetricsInv, MetricsTypeOK, Delete, recordVars, clearVars
<1>1. MetricsTypeOK'
  <2>1. samples' \in Seq(Nat) OBVIOUS
  <2>2. count' \in [Counters -> Nat] OBVIOUS
  <2>3. level' \in [Products -> Levels \cup {None}] OBVIOUS
  <2>4. missed' \subseteq Products BY DEF Watch, Without
  <2> QED BY <2>1, <2>2, <2>3, <2>4
<1>2. FailureInv' BY DEF FailureInv
<1>3. NewestKept'
  <2>1. Untrimmed' = Untrimmed BY DEF Untrimmed
  <2>2. CASE Latency \notin ks BY <2>1, <2>2, ListUntouched
  <2>3. CASE Latency \in ks
    <3>1. samples' = <<>> /\ forgotten' = pushed' BY <2>3
    <3> QED BY <2>1, <3>1, UntrimmedFinite, MetricsAssumption DEF NewestKept
  <2> QED BY <2>2, <2>3
<1>4. EveryKeyExpires'
  <2>1. \A j \in Keys : Exists(j)' => Exists(j) /\ j \notin ks
    BY KeysDiffer DEF Exists
  <2>2. \A j \in Keys, d \in Calls : TTLDue(d, j)' <=> TTLDue(d, j) BY DEF TTLDue
  <2> QED BY <2>1, <2>2 DEF EveryKeyExpires
<1>5. ClearInv'
  <2>1. \A i \in DOMAIN samples' : i \in DOMAIN samples /\ samples'[i] = samples[i]
    OBVIOUS
  <2> QED BY <2>1 DEF ClearInv, ClearForgets
<1>6. ReportInv' BY DEF ReportInv, Watch, Without
<1> QED BY <1>1, <1>2, <1>3, <1>4, <1>5, <1>6

\* A level is published with its TTL.
LEMMA LevelInv ==
    ASSUME MetricsInv, NEW p \in Products, NEW stock \in Levels,
           recordInventoryLevel(p, stock)
    PROVE  MetricsInv'
<1> USE DEF MetricsInv, MetricsTypeOK, recordInventoryLevel, recordVars, listVars,
            clearVars
<1>1. MetricsTypeOK'
  <2>1. Inventory(p) \in Keys BY KeysDiffer
  <2>2. missed' \subseteq Products BY DEF Watch, Without
  <2> QED BY <2>1, <2>2
<1>2. FailureInv' BY DEF FailureInv
<1>3. NewestKept'
  <2>1. Untrimmed' = Untrimmed BY DEF Untrimmed
  <2> QED BY <2>1, ListUntouched
<1>4. EveryKeyExpires'
  <2>1. \A j \in Keys : Exists(j)' => Exists(j) \/ j \in expiring'
    BY KeysDiffer DEF Exists
  <2>2. \A j \in Keys, d \in Calls : TTLDue(d, j)' <=> TTLDue(d, j) BY DEF TTLDue
  <2> QED BY <2>1, <2>2 DEF EveryKeyExpires
<1>5. ClearInv' BY DEF ClearInv, ClearForgets
<1>6. ReportInv' BY DEF ReportInv, Watch, Without
<1> QED BY <1>1, <1>2, <1>3, <1>4, <1>5, <1>6

\* Steps that change neither recordings nor keys.
LEMMA ReadingInv ==
    ASSUME MetricsInv,
           ListKeys \/ ListLevels \/ (\E p \in Products : GetLevel(p)) \/ NextSecond
    PROVE  MetricsInv'
<1> USE DEF MetricsInv, MetricsTypeOK, ListKeys, ListLevels, GetLevel, NextSecond,
            recordVars, listVars, clearVars, readVars
<1>1. UNCHANGED <<recordVars, listVars, count, level, expiring, mark>>
  OBVIOUS
<1>2. MetricsTypeOK'
  <2>1. CASE ListKeys BY <2>1
  <2>2. CASE ListLevels BY <2>2 DEF Without
  <2>3. CASE \E p \in Products : GetLevel(p) BY <2>3
  <2>4. CASE NextSecond BY <2>4, MetricsAssumption
  <2> QED BY <2>1, <2>2, <2>3, <2>4
<1>3. FailureInv' BY <1>1 DEF FailureInv
<1>4. NewestKept'
  <2>1. Untrimmed' = Untrimmed BY <1>1 DEF Untrimmed
  <2> QED BY <1>1, <2>1, ListUntouched
<1>5. EveryKeyExpires'
  BY <1>1 DEF EveryKeyExpires, Exists, TTLDue
<1>6. ClearInv'
  <2>1. CASE ListKeys
    <3>1. clearing' = [keys |-> {k \in Keys : Exists(k)}, pushes |-> pushed]
      BY <2>1
    <3>2. samples # <<>> => Latency \in clearing'.keys
      BY <3>1, KeysDiffer DEF Exists
    <3> QED BY <1>1, <3>1, <3>2 DEF ClearInv, ClearForgets
  <2>2. CASE UNCHANGED clearVars BY <1>1, <2>2 DEF ClearInv, ClearForgets
  <2> QED BY <2>1, <2>2
<1>7. ReportInv'
  <2>1. CASE ListLevels BY <2>1 DEF ReportInv, Without
  <2>2. CASE \E p \in Products : GetLevel(p) BY <2>2 DEF ReportInv
  <2>3. CASE UNCHANGED readVars BY <1>1, <2>3 DEF ReportInv
  <2> QED BY <2>1, <2>2, <2>3
<1> QED BY <1>2, <1>3, <1>4, <1>5, <1>6, <1>7

\* Every step keeps the invariant.
LEMMA NextInv == MetricsInv /\ [MetricsNext]_metricsVars => MetricsInv'
<1> SUFFICES ASSUME MetricsInv, [MetricsNext]_metricsVars PROVE MetricsInv'
  OBVIOUS
<1>1. CASE UNCHANGED metricsVars
  <2> USE <1>1 DEF metricsVars, recordVars, listVars, clearVars, readVars, MetricsInv
  <2>1. Untrimmed' = Untrimmed BY DEF Untrimmed
  <2>2. NewestKept' BY <2>1, ListUntouched
  <2>3. MetricsTypeOK' /\ FailureInv' BY DEF MetricsTypeOK, FailureInv
  <2>4. EveryKeyExpires' BY DEF EveryKeyExpires, Exists, TTLDue
  <2>5. ClearInv' /\ ReportInv' BY DEF ClearInv, ClearForgets, ReportInv
  <2> QED BY <2>2, <2>3, <2>4, <2>5
<1>2. CASE \E k \in Keys : KeyExpires(k)
  BY <1>2, DeleteInv DEF KeyExpires
<1>3. CASE DeleteListed
  <2>1. clearing # None /\ clearing.keys \in SUBSET Keys
    BY <1>3 DEF DeleteListed, MetricsInv, MetricsTypeOK
  <2> QED BY <1>3, <2>1, DeleteInv DEF DeleteListed
<1>4. CASE MetricsNext
  BY <1>2, <1>3, <1>4, RecordingInv, LevelInv, ReadingInv DEF MetricsNext
<1> QED BY <1>1, <1>4

\* The inductive invariant, its type part included, holds throughout.
THEOREM MetricsInvariant == MetricsSpec => []MetricsInv
BY InitInv, NextInv, PTL DEF MetricsSpec

\* However recordings interleave and fail, a list holds its newest samples.
THEOREM ListsKeepTheNewest == MetricsSpec => []NewestKept
<1>1. MetricsInv => NewestKept BY DEF MetricsInv
<1> QED BY <1>1, MetricsInvariant, PTL

\* A key without a TTL is one whose recording is about to set it, or failed.
THEOREM NoKeyForEver == MetricsSpec => []EveryKeyExpires
<1>1. MetricsInv => EveryKeyExpires BY DEF MetricsInv
<1> QED BY <1>1, MetricsInvariant, PTL

\* No sample from before a clear outlives it.
THEOREM ClearedIsForgotten == MetricsSpec => []ClearForgets
<1>1. MetricsInv => ClearForgets BY DEF MetricsInv, ClearInv
<1> QED BY <1>1, MetricsInvariant, PTL

\* A report leaves out no level that was there all the while.
THEOREM ReportsAreComplete == MetricsSpec => []ReportIsComplete
<1>1. MetricsInv => ReportIsComplete
  BY DEF MetricsInv, ReportInv, ReportIsComplete
<1> QED BY <1>1, MetricsInvariant, PTL
==============================================================================
