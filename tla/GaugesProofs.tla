----------------------------- MODULE GaugesProofs -----------------------------
(***************************************************************************)
(* Proofs about the gauges that overlapping ticks and unawaited recordings *)
(* leave behind, for every set of sockets and whatever the queue counts.   *)
(***************************************************************************)
EXTENDS GatewayProofs, FiniteSetTheorems

\* The gauges and the commands have what recordMetric writes.
Values == Counts \cup Nat \cup {None}
Commands == [op : Gauges \cup {"get"}, of : Clients, value : Values]
TicksTypeOK ==
    /\ line \in Seq(Commands)
    /\ reading \subseteq Clients
    /\ gauge \in [Gauges -> Values]
    /\ torn \in BOOLEAN
    /\ IsFiniteSet(ActiveConnections)

\* The command records gauge g, or reads it, in the present second.
Touches(cmd, g) == cmd.op = g /\ cmd.value # None

\* None of the first n commands of s records gauge g.
NoneOf(s, n, g) == \A i \in 1..n : ~Touches(s[i], g)

\* The last of the first n commands of s that record gauge g leaves it with v.
LastLeaves(s, n, g, v) ==
    \A i \in 1..n :
        Touches(s[i], g) /\ (\A j \in 1..n : i < j => ~Touches(s[j], g))
            => s[i].value = v

\* The active jobs that line s still records end with those that belong to ql,
\* the queue length recorded last; if it records none, aj does.
Ahead(s, ql, aj) ==
    /\ LastLeaves(s, Len(s), "active_jobs", ql)
    /\ NoneOf(s, Len(s), "active_jobs") => ql = aj
LengthIsAhead ==
    torn \/ Ahead(line, gauge["queue_length"], gauge["active_jobs"])

\* What gauge ac of the connections, None or a size, is to a get that follows
\* the first n commands of s.
Shows(s, n, ac, size) ==
    /\ LastLeaves(s, n, "active_connections", size)
    /\ NoneOf(s, n, "active_connections") => ac \in {None, size}

\* Each get of s finds the size it was sent at, one sent now finds that of now.
InOrder(s, ac, size) ==
    /\ \A i \in 1..Len(s) :
           Touches(s[i], "get") => Shows(s, i - 1, ac, s[i].value)
    /\ Shows(s, Len(s), ac, size)
SizesInOrder ==
    InOrder(line, gauge["active_connections"], Cardinality(ActiveConnections))

\* The inductive invariant of the gauges.
TicksInv == TicksTypeOK /\ LengthIsAhead /\ SizesInOrder
------------------------------------------------------------------------------
\* The line after its oldest command is answered.
LEMMA TailFacts ==
    ASSUME NEW s \in Seq(Commands), s # <<>>
    PROVE  /\ Tail(s) \in Seq(Commands) /\ Len(Tail(s)) = Len(s) - 1
           /\ Len(s) \in Nat \ {0}
           /\ \A i \in 1..(Len(s) - 1) : Tail(s)[i] = s[i + 1]
           /\ Head(s) = s[1] /\ Head(s) \in Commands
OBVIOUS

\* The line after a command is sent.
LEMMA AppendFacts ==
    ASSUME NEW s \in Seq(Commands), NEW x \in Commands
    PROVE  /\ Append(s, x) \in Seq(Commands) /\ Len(Append(s, x)) = Len(s) + 1
           /\ Len(s) \in Nat
           /\ \A i \in 1..Len(s) : Append(s, x)[i] = s[i]
           /\ Append(s, x)[Len(s) + 1] = x
           /\ s \o <<x>> = Append(s, x)
OBVIOUS

\* What the line still does to a gauge when its oldest command is answered.
LEMMA DropFirst ==
    ASSUME NEW s \in Seq(Commands), s # <<>>, NEW n \in Nat, n < Len(s),
           NEW g, NEW v
    PROVE  /\ LastLeaves(s, n + 1, g, v) => LastLeaves(Tail(s), n, g, v)
           /\ NoneOf(Tail(s), n, g) /\ ~Touches(Head(s), g) => NoneOf(s, n + 1, g)
           /\ NoneOf(Tail(s), n, g) /\ Touches(Head(s), g) /\ LastLeaves(s, n + 1, g, v)
                  => Head(s).value = v
<1>1. /\ \A i \in 1..n : Tail(s)[i] = s[i + 1] /\ i + 1 \in 1..(n + 1)
      /\ Head(s) = s[1] /\ 1 \in 1..(n + 1)
      /\ \A j \in 1..(n + 1) : j # 1 => j - 1 \in 1..n /\ s[j] = Tail(s)[j - 1]
  <2>1. \A i \in 1..n : i \in 1..(Len(s) - 1) BY TailFacts
  <2> QED BY <2>1, TailFacts
<1>2. ASSUME LastLeaves(s, n + 1, g, v) PROVE LastLeaves(Tail(s), n, g, v)
  <2> SUFFICES ASSUME NEW i \in 1..n, Touches(Tail(s)[i], g),
                      \A j \in 1..n : i < j => ~Touches(Tail(s)[j], g)
               PROVE  Tail(s)[i].value = v
    BY DEF LastLeaves
  <2>1. \A j \in 1..(n + 1) : i + 1 < j => ~Touches(s[j], g)
    <3> TAKE j \in 1..(n + 1)
    <3> HAVE i + 1 < j
    <3>1. j # 1 /\ i < j - 1 OBVIOUS
    <3> QED BY <1>1, <3>1
  <2> QED BY <1>1, <1>2, <2>1 DEF LastLeaves
<1>3. NoneOf(Tail(s), n, g) => \A j \in 1..(n + 1) : j # 1 => ~Touches(s[j], g)
  BY <1>1 DEF NoneOf
<1>4. NoneOf(Tail(s), n, g) /\ ~Touches(Head(s), g) => NoneOf(s, n + 1, g)
  BY <1>1, <1>3 DEF NoneOf
<1>5. NoneOf(Tail(s), n, g) /\ Touches(Head(s), g) /\ LastLeaves(s, n + 1, g, v)
          => Head(s).value = v
  BY <1>1, <1>3 DEF LastLeaves
<1> QED BY <1>2, <1>4, <1>5

\* What the line does to a gauge when a command joins it.
LEMMA AddLast ==
    ASSUME NEW s \in Seq(Commands), NEW x \in Commands, NEW g, NEW v
    PROVE  /\ \A n \in 0..Len(s) :
                  /\ LastLeaves(s, n, g, v) => LastLeaves(Append(s, x), n, g, v)
                  /\ NoneOf(Append(s, x), n, g) => NoneOf(s, n, g)
           /\ Touches(x, g)
                  => /\ LastLeaves(Append(s, x), Len(s) + 1, g, x.value)
                     /\ ~NoneOf(Append(s, x), Len(s) + 1, g)
           /\ ~Touches(x, g) /\ LastLeaves(s, Len(s), g, v)
                  => LastLeaves(Append(s, x), Len(s) + 1, g, v)
           /\ NoneOf(Append(s, x), Len(s) + 1, g) => NoneOf(s, Len(s), g)
<1> DEFINE t == Append(s, x)
<1>1. /\ Len(s) \in Nat /\ \A i \in 1..Len(s) : t[i] = s[i]
      /\ t[Len(s) + 1] = x
  BY AppendFacts
<1> HIDE DEF t
<1>2. ASSUME NEW n \in 0..Len(s)
      PROVE  /\ LastLeaves(s, n, g, v) => LastLeaves(t, n, g, v)
             /\ NoneOf(t, n, g) => NoneOf(s, n, g)
  <2>1. \A i \in 1..n : t[i] = s[i] BY <1>1
  <2> QED BY <2>1 DEF LastLeaves, NoneOf
<1>3. Touches(x, g) => /\ LastLeaves(t, Len(s) + 1, g, x.value)
                       /\ ~NoneOf(t, Len(s) + 1, g)
  <2>1. Len(s) + 1 \in 1..(Len(s) + 1) BY <1>1
  <2>2. \A i \in 1..(Len(s) + 1) : i = Len(s) + 1 \/ i < Len(s) + 1 BY <1>1
  <2> QED BY <1>1, <2>1, <2>2 DEF LastLeaves, NoneOf
<1>4. /\ ~Touches(x, g) /\ LastLeaves(s, Len(s), g, v)
             => LastLeaves(t, Len(s) + 1, g, v)
      /\ NoneOf(t, Len(s) + 1, g) => NoneOf(s, Len(s), g)
  <2>1. \A i \in 1..(Len(s) + 1) : i = Len(s) + 1 \/ i \in 1..Len(s) BY <1>1
  <2>2. \A i \in 1..Len(s) : i \in 1..(Len(s) + 1) BY <1>1
  <2> QED BY <1>1, <2>1, <2>2 DEF LastLeaves, NoneOf
<1> QED BY <1>2, <1>3, <1>4 DEF t
------------------------------------------------------------------------------
\* The oldest command is answered; if it records the active jobs, they are set.
LEMMA AheadTail ==
    ASSUME NEW s \in Seq(Commands), s # <<>>, NEW ql, NEW aj, Ahead(s, ql, aj),
           NEW new, new = IF Touches(Head(s), "active_jobs")
                          THEN Head(s).value ELSE aj
    PROVE  Ahead(Tail(s), ql, new)
<1>1. /\ Len(Tail(s)) \in Nat /\ Len(Tail(s)) < Len(s) /\ Len(Tail(s)) + 1 = Len(s)
  BY TailFacts
<1> QED BY <1>1, DropFirst DEF Ahead

\* A command that records no active jobs joins the line.
LEMMA AheadAppend ==
    ASSUME NEW s \in Seq(Commands), NEW x \in Commands, NEW ql, NEW aj,
           Ahead(s, ql, aj), ~Touches(x, "active_jobs")
    PROVE  Ahead(Append(s, x), ql, aj)
BY AddLast, AppendFacts DEF Ahead

\* The recording of the active jobs joins the line as their length is set.
LEMMA AheadRecord ==
    ASSUME NEW s \in Seq(Commands), NEW x \in Commands, NEW aj,
           Touches(x, "active_jobs")
    PROVE  Ahead(Append(s, x), x.value, aj)
<1>1. /\ LastLeaves(Append(s, x), Len(s) + 1, "active_jobs", x.value)
      /\ ~NoneOf(Append(s, x), Len(s) + 1, "active_jobs")
  BY AddLast
<1> QED BY <1>1, AppendFacts DEF Ahead

\* The oldest command is answered; if it records the connections, they are set.
LEMMA InOrderTail ==
    ASSUME NEW s \in Seq(Commands), s # <<>>, NEW ac, NEW size, InOrder(s, ac, size),
           NEW new, new = IF Touches(Head(s), "active_connections")
                          THEN Head(s).value ELSE ac
    PROVE  InOrder(Tail(s), new, size)
<1>1. ASSUME NEW n \in Nat, n < Len(s), NEW v, Shows(s, n + 1, ac, v)
      PROVE  Shows(Tail(s), n, new, v)
  BY <1>1, DropFirst DEF Shows
<1>2. Shows(Tail(s), Len(Tail(s)), new, size)
  <2>1. Len(Tail(s)) \in Nat /\ Len(Tail(s)) < Len(s) /\ Len(Tail(s)) + 1 = Len(s)
    BY TailFacts
  <2> QED BY <1>1, <2>1 DEF InOrder
<1>3. ASSUME NEW i \in 1..Len(Tail(s)), Touches(Tail(s)[i], "get")
      PROVE  Shows(Tail(s), i - 1, new, Tail(s)[i].value)
  <2>1. /\ Tail(s)[i] = s[i + 1] /\ i + 1 \in 1..Len(s) /\ (i + 1) - 1 = (i - 1) + 1
        /\ i - 1 \in Nat /\ i - 1 < Len(s)
    BY TailFacts
  <2>2. Shows(s, (i + 1) - 1, ac, s[i + 1].value) BY <1>3, <2>1 DEF InOrder
  <2> QED BY <1>1, <2>1, <2>2
<1> QED BY <1>2, <1>3 DEF InOrder

\* A command joins the line that records no connections, and if it is a get, it
\* should find the size of now.
LEMMA InOrderAppend ==
    ASSUME NEW s \in Seq(Commands), NEW x \in Commands, NEW ac, NEW size,
           InOrder(s, ac, size), ~Touches(x, "active_connections"),
           Touches(x, "get") => x.value = size
    PROVE  InOrder(Append(s, x), ac, size)
<1> DEFINE t == Append(s, x)
<1>1. /\ Len(s) \in Nat /\ Len(t) = Len(s) + 1 /\ t[Len(s) + 1] = x
      /\ \A i \in 1..Len(s) : t[i] = s[i]
  BY AppendFacts
<1>2. /\ \A n \in 0..Len(s) : \A v : Shows(s, n, ac, v) => Shows(t, n, ac, v)
      /\ \A v : Shows(s, Len(s), ac, v) => Shows(t, Len(s) + 1, ac, v)
  BY AddLast DEF Shows
<1> HIDE DEF t
<1>3. ASSUME NEW i \in 1..Len(t), Touches(t[i], "get")
      PROVE  Shows(t, i - 1, ac, t[i].value)
  <2>1. CASE i \in 1..Len(s)
    <3>1. i - 1 \in 0..Len(s) BY <1>1, <2>1
    <3> QED BY <1>1, <1>2, <1>3, <2>1, <3>1 DEF InOrder
  <2>2. CASE i = Len(s) + 1
    <3>1. i - 1 = Len(s) /\ Len(s) \in 0..Len(s) BY <1>1, <2>2
    <3> QED BY <1>1, <1>2, <1>3, <2>2, <3>1 DEF InOrder
  <2> QED BY <1>1, <2>1, <2>2
<1>4. Shows(t, Len(t), ac, size) BY <1>1, <1>2 DEF InOrder
<1> QED BY <1>3, <1>4 DEF InOrder, t

\* The recording of a new size joins the line.
LEMMA InOrderRecord ==
    ASSUME NEW s \in Seq(Commands), NEW x \in Commands, NEW ac, NEW size,
           InOrder(s, ac, size), Touches(x, "active_connections")
    PROVE  InOrder(Append(s, x), ac, x.value)
<1> DEFINE t == Append(s, x)
<1>1. /\ Len(s) \in Nat /\ Len(t) = Len(s) + 1 /\ t[Len(s) + 1] = x
      /\ \A i \in 1..Len(s) : t[i] = s[i]
  BY AppendFacts
<1>2. /\ \A n \in 0..Len(s) : \A v : Shows(s, n, ac, v) => Shows(t, n, ac, v)
      /\ Shows(t, Len(s) + 1, ac, x.value)
  BY AddLast DEF Shows
<1> HIDE DEF t
<1>3. ASSUME NEW i \in 1..Len(t), Touches(t[i], "get")
      PROVE  Shows(t, i - 1, ac, t[i].value)
  <2>1. i \in 1..Len(s) BY <1>1, <1>3 DEF Touches
  <2>2. i - 1 \in 0..Len(s) BY <1>1, <2>1
  <2> QED BY <1>1, <1>2, <1>3, <2>1, <2>2 DEF InOrder
<1>4. Shows(t, Len(t), ac, x.value) BY <1>1, <1>2
<1> QED BY <1>3, <1>4 DEF InOrder, t
------------------------------------------------------------------------------
\* The two invariants say of the line and the gauges what the lemmas do.
LEMMA InvOfLine ==
    /\ LengthIsAhead
           <=> torn \/ Ahead(line, gauge["queue_length"], gauge["active_jobs"])
    /\ SizesInOrder
           <=> InOrder(line, gauge["active_connections"], Cardinality(ActiveConnections))
BY DEF LengthIsAhead, SizesInOrder

\* The same of the next state.
LEMMA InvOfLineNext ==
    /\ LengthIsAhead'
           <=> torn' \/ Ahead(line', gauge'["queue_length"], gauge'["active_jobs"])
    /\ SizesInOrder'
           <=> InOrder(line', gauge'["active_connections"], Cardinality(ActiveConnections'))
BY DEF LengthIsAhead, Ahead, SizesInOrder, InOrder, LastLeaves, NoneOf, Shows, Touches

\* A step that touches neither the line nor the gauges, and no connection.
LEMMA TicksRest ==
    ASSUME TicksInv, UNCHANGED <<line, gauge, torn>>, reading' \subseteq Clients,
           ActiveConnections' = ActiveConnections
    PROVE  TicksInv'
<1>1. TicksTypeOK' BY DEF TicksInv, TicksTypeOK
<1> QED BY <1>1, InvOfLine, InvOfLineNext DEF TicksInv

\* A command that records no gauge of interest is sent.
LEMMA SendInv ==
    ASSUME TicksInv, NEW x \in Commands, line' = Append(line, x),
           UNCHANGED <<gauge, torn>>, reading' \subseteq Clients,
           ActiveConnections' = ActiveConnections,
           ~Touches(x, "active_jobs"), ~Touches(x, "active_connections"),
           Touches(x, "get") => x.value = Cardinality(ActiveConnections)
    PROVE  TicksInv'
<1>1. line \in Seq(Commands) BY DEF TicksInv, TicksTypeOK
<1>2. TicksTypeOK' BY <1>1, AppendFacts DEF TicksInv, TicksTypeOK
<1>3. torn \/ Ahead(line', gauge["queue_length"], gauge["active_jobs"])
  BY <1>1, InvOfLine, AheadAppend DEF TicksInv
<1>4. InOrder(line', gauge["active_connections"], Cardinality(ActiveConnections))
  BY <1>1, InvOfLine, InOrderAppend DEF TicksInv
<1> QED BY <1>2, <1>3, <1>4, InvOfLineNext DEF TicksInv

\* A socket comes or goes, and the new size is sent.
LEMMA RecordSizeInv ==
    ASSUME TicksInv, NEW c \in Clients, phase' \in [Clients -> {"new", "connected", "gone"}],
           \A d \in Clients \ {c} : phase'[d] = phase[d],
           recordActiveConnections(c, Cardinality(ActiveConnections'))
    PROVE  TicksInv'
<1> DEFINE size == Cardinality(ActiveConnections')
           x == Command("active_connections", c, size)
<1>1. line \in Seq(Commands) BY DEF TicksInv, TicksTypeOK
<1>2. IsFiniteSet(ActiveConnections')
  <2>1. ActiveConnections' \subseteq ActiveConnections \cup {c}
    BY DEF ActiveConnections
  <2>2. IsFiniteSet(ActiveConnections \cup {c})
    BY FS_AddElement DEF TicksInv, TicksTypeOK
  <2> QED BY <2>1, <2>2, FS_Subset
<1>3. size \in Nat BY <1>2, FS_CardinalityType
<1> HIDE DEF size
<1>4. x \in Commands /\ Touches(x, "active_connections") /\ ~Touches(x, "active_jobs")
      /\ x.value = size
  BY <1>3, TicksAssumption DEF Commands, Command, Values, Gauges, Touches
<1>5. line' = Append(line, x) /\ UNCHANGED <<reading, gauge, torn>>
  BY DEF recordActiveConnections, size
<1> HIDE DEF x
<1>6. TicksTypeOK'
  BY <1>1, <1>2, <1>4, <1>5, AppendFacts DEF TicksInv, TicksTypeOK
<1>7. torn \/ Ahead(line', gauge["queue_length"], gauge["active_jobs"])
  BY <1>1, <1>4, <1>5, InvOfLine, AheadAppend DEF TicksInv
<1>8. InOrder(line', gauge["active_connections"], size)
  BY <1>1, <1>4, <1>5, InvOfLine, InOrderRecord DEF TicksInv
<1> QED BY <1>5, <1>6, <1>7, <1>8, InvOfLineNext DEF TicksInv, size

\* The oldest command leaves the line, and sets the gauge it records; a
\* recording of active jobs may be lost, but is remembered.
LEMMA PopInv ==
    ASSUME TicksInv, line # <<>>, line' = Tail(line), reading' \subseteq Clients,
           ActiveConnections' = ActiveConnections,
           gauge' \in [Gauges -> Values], torn' \in BOOLEAN, torn => torn',
           gauge'["queue_length"] = gauge["queue_length"],
           gauge'["active_connections"]
               = IF Touches(Head(line), "active_connections")
                 THEN Head(line).value ELSE gauge["active_connections"],
           torn' \/ gauge'["active_jobs"]
                        = IF Touches(Head(line), "active_jobs")
                          THEN Head(line).value ELSE gauge["active_jobs"]
    PROVE  TicksInv'
<1>1. line \in Seq(Commands) BY DEF TicksInv, TicksTypeOK
<1>2. TicksTypeOK' BY <1>1, TailFacts DEF TicksInv, TicksTypeOK
<1>3. torn' \/ Ahead(line', gauge'["queue_length"], gauge'["active_jobs"])
  BY <1>1, InvOfLine, AheadTail DEF TicksInv
<1>4. InOrder(line', gauge'["active_connections"], Cardinality(ActiveConnections))
  BY <1>1, InvOfLine, InOrderTail DEF TicksInv
<1> QED BY <1>2, <1>3, <1>4, InvOfLineNext DEF TicksInv

\* What an answer sets, and what not.
LEMMA SetFacts ==
    ASSUME TicksTypeOK, line # <<>>, Set(Head(line)), Head(line).op \in Gauges
    PROVE  /\ gauge' \in [Gauges -> Values]
           /\ \A g \in Gauges :
                  gauge'[g] = IF Touches(Head(line), g) THEN Head(line).value ELSE gauge[g]
<1>1. Head(line).value \in Values
  BY TailFacts DEF TicksTypeOK, Commands
<1> QED BY <1>1 DEF TicksTypeOK, Set, Touches

\* The gets are answered: no gauge changes.
LEMMA getMetricsInv ==
    ASSUME TicksInv, getMetrics
    PROVE  TicksInv'
<1>1. /\ line # <<>> /\ Head(line).op = "get" /\ line' = Tail(line) \o <<>>
      /\ UNCHANGED <<gauge, torn, phase>> /\ reading' = reading \cup {Head(line).of}
  BY DEF getMetrics, Answer, gatewayVars
<1>2. line' = Tail(line) /\ Head(line).of \in Clients
  <2>1. Tail(line) \in Seq(Commands) /\ Head(line) \in Commands
    BY <1>1, TailFacts DEF TicksInv, TicksTypeOK
  <2> QED BY <1>1, <2>1 DEF Commands
<1>3. reading' \subseteq Clients BY <1>1, <1>2 DEF TicksInv, TicksTypeOK
<1>4. ActiveConnections' = ActiveConnections BY <1>1 DEF ActiveConnections
<1>5. ~Touches(Head(line), "active_jobs") /\ ~Touches(Head(line), "active_connections")
  BY <1>1 DEF Touches
<1> QED BY <1>1, <1>2, <1>3, <1>4, <1>5, PopInv DEF TicksInv, TicksTypeOK

\* The second key is written: the two gauges are of one count again.
LEMMA RecordLastInv ==
    ASSUME TicksInv, RecordActive \/ RecordConnections
    PROVE  TicksInv'
<1>1. /\ line # <<>> /\ Head(line).op \in {"active_jobs", "active_connections"}
      /\ line' = Tail(line) \o <<>> /\ Set(Head(line))
      /\ UNCHANGED <<reading, torn, phase>>
  BY DEF RecordActive, RecordConnections, Answer, gatewayVars
<1>2. line' = Tail(line)
  BY <1>1, TailFacts DEF TicksInv, TicksTypeOK
<1>3. /\ gauge' \in [Gauges -> Values]
      /\ \A g \in Gauges :
             gauge'[g] = IF Touches(Head(line), g) THEN Head(line).value ELSE gauge[g]
  BY <1>1, SetFacts DEF TicksInv, Gauges
<1>4. ActiveConnections' = ActiveConnections BY <1>1 DEF ActiveConnections
<1>5. gauge'["queue_length"] = gauge["queue_length"]
  BY <1>1, <1>3 DEF Touches, Gauges
<1>6. reading' \subseteq Clients /\ torn' \in BOOLEAN /\ torn' = torn
  BY <1>1 DEF TicksInv, TicksTypeOK
<1>7. "active_connections" \in Gauges /\ "active_jobs" \in Gauges BY DEF Gauges
<1> QED BY <1>1, <1>2, <1>3, <1>4, <1>5, <1>6, <1>7, PopInv

\* The first key is written, and the second, of the same count, joins the line.
LEMMA RecordLengthInv ==
    ASSUME TicksInv, RecordLength
    PROVE  TicksInv'
<1> DEFINE y == [Head(line) EXCEPT !.op = "active_jobs"]
<1>1. /\ line # <<>> /\ Head(line).op = "queue_length"
      /\ line' = Tail(line) \o <<y>> /\ Set(Head(line))
      /\ UNCHANGED <<reading, torn, phase>>
  BY DEF RecordLength, Answer, gatewayVars
<1>2. line \in Seq(Commands) BY DEF TicksInv, TicksTypeOK
<1>3. Tail(line) \in Seq(Commands) /\ Head(line) \in Commands
  BY <1>1, <1>2, TailFacts
<1>4. y \in Commands /\ y.op = "active_jobs" /\ y.value = Head(line).value
  BY <1>3 DEF Commands, Gauges
<1> HIDE DEF y
<1>5. line' = Append(Tail(line), y) BY <1>1, <1>3, <1>4, AppendFacts
<1>6. /\ gauge' \in [Gauges -> Values]
      /\ \A g \in Gauges :
             gauge'[g] = IF Touches(Head(line), g) THEN Head(line).value ELSE gauge[g]
  BY <1>1, SetFacts DEF TicksInv, Gauges
<1>7. /\ gauge'["active_jobs"] = gauge["active_jobs"]
      /\ gauge'["active_connections"] = gauge["active_connections"]
      /\ gauge'["queue_length"] = IF Head(line).value = None
                                  THEN gauge["queue_length"] ELSE Head(line).value
  BY <1>1, <1>6 DEF Touches, Gauges
<1>8. TicksTypeOK'
  <2>1. ActiveConnections' = ActiveConnections BY <1>1 DEF ActiveConnections
  <2> QED BY <1>1, <1>3, <1>4, <1>5, <1>6, <2>1, AppendFacts DEF TicksInv, TicksTypeOK
<1>9. torn \/ Ahead(line', gauge'["queue_length"], gauge'["active_jobs"])
  <2>1. CASE Head(line).value = None
    <3>1. torn \/ Ahead(Tail(line), gauge["queue_length"], gauge["active_jobs"])
      BY <1>1, <1>2, InvOfLine, AheadTail DEF TicksInv, Touches
    <3>2. ~Touches(y, "active_jobs") BY <1>4, <2>1 DEF Touches
    <3> QED BY <1>3, <1>4, <1>5, <1>7, <2>1, <3>1, <3>2, AheadAppend
  <2>2. CASE Head(line).value # None
    <3>1. Touches(y, "active_jobs") BY <1>4, <2>2 DEF Touches
    <3> QED BY <1>3, <1>4, <1>5, <1>7, <2>2, <3>1, AheadRecord
  <2> QED BY <2>1, <2>2
<1>10. InOrder(line', gauge'["active_connections"], Cardinality(ActiveConnections'))
  <2>1. InOrder(Tail(line), gauge["active_connections"], Cardinality(ActiveConnections))
    BY <1>1, <1>2, InvOfLine, InOrderTail DEF TicksInv, Touches
  <2>2. ~Touches(y, "active_connections") /\ ~Touches(y, "get")
    BY <1>4 DEF Touches
  <2>3. ActiveConnections' = ActiveConnections BY <1>1 DEF ActiveConnections
  <2> QED BY <1>3, <1>4, <1>5, <1>7, <2>1, <2>2, <2>3, InOrderAppend
<1> QED BY <1>1, <1>8, <1>9, <1>10, InvOfLineNext DEF TicksInv

\* A tick ends early: what it had not recorded yet is remembered as torn.
LEMMA TickFailsInv ==
    ASSUME TicksInv, NEW c \in Clients, TickFails(c)
    PROVE  TicksInv'
<1>1. ActiveConnections' = ActiveConnections /\ gauge' = gauge
  BY DEF TickFails, gatewayVars, ActiveConnections
<1>2. CASE reading' = reading \ {c} /\ UNCHANGED <<line, torn>>
  BY <1>1, <1>2, TicksRest DEF TicksInv, TicksTypeOK
<1>3. CASE /\ line # <<>> /\ Head(line).op # "active_connections"
           /\ line' = Tail(line) /\ reading' = reading
           /\ torn' = (torn \/ Head(line).op = "active_jobs")
  <2>1. ~Touches(Head(line), "active_connections") BY <1>3 DEF Touches
  <2>2. torn' \in BOOLEAN /\ (torn => torn')
        /\ (torn' \/ ~Touches(Head(line), "active_jobs"))
    BY <1>3 DEF Touches, TicksInv, TicksTypeOK
  <2> QED BY <1>1, <1>3, <2>1, <2>2, PopInv DEF TicksInv, TicksTypeOK
<1> QED BY <1>2, <1>3 DEF TickFails

\* Another second begins: nothing is recorded in it yet, nor will be by what is
\* under way.
LEMMA NextSecondInv ==
    ASSUME TicksInv, NextSecond
    PROVE  TicksInv'
<1>1. line \in Seq(Commands) /\ Len(line) \in Nat BY DEF TicksInv, TicksTypeOK
<1>2. /\ line' = [i \in 1..Len(line) |-> [line[i] EXCEPT !.value = None]]
      /\ gauge' = [g \in Gauges |-> None] /\ torn' = FALSE
      /\ UNCHANGED <<reading, phase>>
  BY <1>1 DEF NextSecond, gatewayVars
<1>3. \A i \in 1..Len(line) : /\ [line[i] EXCEPT !.value = None] \in Commands
                              /\ [line[i] EXCEPT !.value = None].value = None
  <2> TAKE i \in 1..Len(line)
  <2>1. line[i] \in Commands BY <1>1
  <2> QED BY <2>1 DEF Commands, Values
<1>4. /\ line' \in Seq(Commands) /\ Len(line') = Len(line)
      /\ \A i \in 1..Len(line') : line'[i].value = None
  <2> DEFINE new(i) == [line[i] EXCEPT !.value = None]
  <2>1. \A i \in 1..Len(line) : new(i) \in Commands /\ new(i).value = None
    BY <1>3
  <2>2. line' = [i \in 1..Len(line) |-> new(i)] BY <1>2
  <2> HIDE DEF new
  <2> QED BY <1>1, <2>1, <2>2
<1>5. ActiveConnections' = ActiveConnections BY <1>2 DEF ActiveConnections
<1>6. TicksTypeOK'
  BY <1>2, <1>4, <1>5 DEF TicksInv, TicksTypeOK, Values
<1>7. \A i \in 1..Len(line') : \A g : ~Touches(line'[i], g) BY <1>4 DEF Touches
<1>8. Ahead(line', gauge'["queue_length"], gauge'["active_jobs"])
  BY <1>2, <1>7 DEF Ahead, LastLeaves, NoneOf, Gauges
<1>9. \A n \in Nat : \A v : n <= Len(line') => Shows(line', n, gauge'["active_connections"], v)
  <2>1. gauge'["active_connections"] = None BY <1>2 DEF Gauges
  <2>2. \A n \in Nat : n <= Len(line') => 1..n \subseteq 1..Len(line') BY <1>1, <1>4
  <2> QED BY <1>7, <2>1, <2>2 DEF Shows, LastLeaves, NoneOf
<1>10. InOrder(line', gauge'["active_connections"], Cardinality(ActiveConnections'))
  BY <1>1, <1>4, <1>7, <1>9 DEF InOrder
<1> QED BY <1>6, <1>8, <1>10, InvOfLineNext DEF TicksInv

LEMMA TicksInitInv == TicksInit => TicksInv
<1> SUFFICES ASSUME TicksInit PROVE TicksInv OBVIOUS
<1>1. ActiveConnections = {} BY DEF TicksInit, GatewayInit, ActiveConnections
<1>2. TicksTypeOK
  <2>1. IsFiniteSet(ActiveConnections) BY <1>1, FS_EmptySet
  <2>2. gauge \in [Gauges -> Values] BY DEF TicksInit, Values
  <2>3. line \in Seq(Commands) /\ reading \subseteq Clients BY DEF TicksInit
  <2>4. torn \in BOOLEAN BY DEF TicksInit
  <2> QED BY <2>1, <2>2, <2>3, <2>4 DEF TicksTypeOK
<1>3. Len(line) = 0 /\ gauge = [g \in Gauges |-> None] BY DEF TicksInit
<1>4. LengthIsAhead
  BY <1>3 DEF LengthIsAhead, Ahead, LastLeaves, Gauges
<1>5. SizesInOrder
  BY <1>3 DEF SizesInOrder, InOrder, Shows, LastLeaves, NoneOf, Gauges
<1> QED BY <1>2, <1>4, <1>5 DEF TicksInv

\* Every step keeps the invariant.
LEMMA TicksNextInv ==
    ASSUME GatewayTypeOK, TicksInv, [TicksNext]_<<gatewayVars, ticksVars>>
    PROVE  TicksInv'
<1>1. CASE UNCHANGED <<gatewayVars, ticksVars>>
  BY <1>1, TicksRest DEF gatewayVars, ticksVars, ActiveConnections, TicksInv, TicksTypeOK
<1>2. ASSUME NEW c \in Clients, Connect(c) \/ Disconnect(c)
      PROVE  TicksInv'
  <2>1. /\ phase' \in [Clients -> {"new", "connected", "gone"}]
        /\ \A d \in Clients \ {c} : phase'[d] = phase[d]
    BY <1>2 DEF Connect, Disconnect, handleConnection, handleDisconnect, GatewayTypeOK
  <2>2. recordActiveConnections(c, Cardinality(ActiveConnections'))
    BY <1>2 DEF Connect, Disconnect
  <2> QED BY <2>1, <2>2, RecordSizeInv
<1>3. ASSUME NEW c \in Clients, Tick(c)
      PROVE  TicksInv'
  <2> DEFINE x == Command("get", c, Cardinality(ActiveConnections))
  <2>1. /\ line' = Append(line, x) /\ UNCHANGED <<gauge, torn, reading, phase>>
    BY <1>3 DEF Tick, gatewayVars
  <2>2. Cardinality(ActiveConnections) \in Nat
    BY FS_CardinalityType DEF TicksInv, TicksTypeOK
  <2>3. x \in Commands /\ x.value = Cardinality(ActiveConnections) /\ x.op = "get"
    BY <2>2 DEF Command, Commands, Values
  <2>4. ActiveConnections' = ActiveConnections BY <2>1 DEF ActiveConnections
  <2> HIDE DEF x
  <2>5. ~Touches(x, "active_jobs") /\ ~Touches(x, "active_connections")
    BY <2>3 DEF Touches
  <2> QED BY <2>1, <2>3, <2>4, <2>5, SendInv DEF TicksInv, TicksTypeOK
<1>4. ASSUME NEW c \in Clients, getJobCounts(c)
      PROVE  TicksInv'
  <2>1. PICK v \in Counts : line' = Append(line, Command("queue_length", c, v))
    BY <1>4 DEF getJobCounts
  <2> DEFINE x == Command("queue_length", c, v)
  <2>2. UNCHANGED <<gauge, torn, phase>> /\ reading' = reading \ {c}
    BY <1>4 DEF getJobCounts, gatewayVars
  <2>3. x \in Commands /\ x.op = "queue_length"
    BY DEF Command, Commands, Values, Gauges
  <2>4. ActiveConnections' = ActiveConnections BY <2>2 DEF ActiveConnections
  <2>5. line' = Append(line, x) BY <2>1
  <2> HIDE DEF x
  <2>6. /\ ~Touches(x, "active_jobs") /\ ~Touches(x, "active_connections")
        /\ ~Touches(x, "get")
    BY <2>3 DEF Touches
  <2> QED BY <2>2, <2>3, <2>4, <2>5, <2>6, SendInv DEF TicksInv, TicksTypeOK
<1>5. ASSUME NEW c \in Clients, UNCHANGED ticksVars,
             \/ Subscribe(c) \/ StartInterval(c) \/ SubscribeFails(c)
             \/ handleUnsubscription(c)
      PROVE  TicksInv'
  <2>1. phase' = phase
    BY <1>5 DEF Subscribe, StartInterval, SubscribeFails, handleUnsubscription
  <2> QED BY <1>5, <2>1, TicksRest
          DEF ticksVars, ActiveConnections, TicksInv, TicksTypeOK
<1> QED BY <1>1, <1>2, <1>3, <1>4, <1>5, TickFailsInv, getMetricsInv,
           RecordLastInv, RecordLengthInv, NextSecondInv DEF TicksNext, Serve

\* The inductive invariant of the gauges, types included, holds throughout.
THEOREM GaugesInvariant == TicksSpec => []TicksInv
<1>1. GatewayInv => GatewayTypeOK BY DEF GatewayInv
<1>2. TicksSpec => []GatewayTypeOK BY <1>1, GatewayCorrect, TicksKeepTimers, PTL
<1>3. GatewayTypeOK /\ TicksInv /\ [TicksNext]_<<gatewayVars, ticksVars>> => TicksInv'
  BY TicksNextInv
<1> QED BY <1>2, <1>3, TicksInitInv, PTL DEF TicksSpec

\* However many ticks overlap and straddle the seconds, once no recording is
\* under way the two gauges of a second are of one count of the jobs.
THEOREM GaugesOfOneCount == TicksSpec => []GaugesAgree
<1>1. TicksInv => GaugesAgree
  <2> SUFFICES ASSUME TicksInv, ~torn,
                      \A i \in DOMAIN line :
                          ~(line[i].op = "active_jobs" /\ line[i].value # None)
               PROVE  gauge["queue_length"] = gauge["active_jobs"]
    BY DEF GaugesAgree
  <2>1. DOMAIN line = 1..Len(line) BY DEF TicksInv, TicksTypeOK
  <2> QED BY <2>1 DEF TicksInv, LengthIsAhead, Ahead, NoneOf, Touches
<1> QED BY <1>1, GaugesInvariant, PTL

\* A report is never stale by a connection: the recordings that nobody awaits
\* overtake no get, and no get overtakes them.
THEOREM ReportsAreCurrent == TicksSpec => []ConnectionsAreCurrent
<1>1. TicksInv => ConnectionsAreCurrent
  <2> SUFFICES ASSUME TicksInv, line # <<>>, Head(line).op = "get",
                      Head(line).value # None
               PROVE  gauge["active_connections"] \in {None, Head(line).value}
    BY DEF ConnectionsAreCurrent
  <2>1. 1 \in 1..Len(line) /\ Head(line) = line[1] /\ Touches(line[1], "get")
    BY TailFacts DEF TicksInv, TicksTypeOK, Touches
  <2>2. Shows(line, 1 - 1, gauge["active_connections"], line[1].value)
    BY <2>1 DEF TicksInv, SizesInOrder, InOrder
  <2> QED BY <2>1, <2>2 DEF Shows, NoneOf
<1> QED BY <1>1, GaugesInvariant, PTL
==============================================================================
