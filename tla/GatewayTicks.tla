------------------------------ MODULE GatewayTicks ------------------------------
(***************************************************************************)
(* What the gateway does to the gauges of the present second: each tick of *)
(* an interval reads the metrics, takes the job counts, records them and   *)
(* emits an update; connections are recorded as they come and go. All that *)
(* goes over the one Redis connection of the process, whose commands are   *)
(* answered in the order they were sent in, so a tick sends its next one   *)
(* when the one before is answered.                                        *)
(***************************************************************************)
EXTENDS MonitoringGateway, Sequences, FiniteSets

CONSTANTS
    Counts,     \* what getJobCounts may say
    None

ASSUME TicksAssumption == None \notin Counts \cup Nat

VARIABLES
    line,       \* the commands sent and not answered, oldest first
    reading,    \* sockets whose tick reads the levels and the job counts
    gauge,      \* the gauges of the present second, None if not recorded
    torn        \* history: a recording of this second ended halfway

ticksVars == <<line, reading, gauge, torn>>

Gauges == {"queue_length", "active_jobs", "active_connections"}

\* A command and its caller, with what it records (a get: what it should
\* find), or None if the second of its key is over.
Command(op, c, value) == [op |-> op, of |-> c, value |-> value]

\* Nobody reads the key of a second that is over.
Set(cmd) == gauge' = IF cmd.value = None THEN gauge
                     ELSE [gauge EXCEPT ![cmd.op] = cmd.value]

\* The oldest command is answered, and its caller sends another, or none.
Answer(op, more) ==
    /\ line # <<>> /\ Head(line).op = op
    /\ line' = Tail(line) \o more

ActiveConnections == {c \in Clients : phase[c] = "connected"}

\* Nobody awaits recordActiveConnections.
recordActiveConnections(c, size) ==
    /\ line' = Append(line, Command("active_connections", c, size))
    /\ UNCHANGED <<reading, gauge, torn>>

Connect(c) == /\ handleConnection(c)
              /\ recordActiveConnections(c, Cardinality(ActiveConnections'))

\* Mutant: the size is taken before the socket is deleted.
DisconnectLate(c) ==
    /\ handleDisconnect(c)
    /\ recordActiveConnections(c, Cardinality(ActiveConnections))

Disconnect(c) == /\ handleDisconnect(c)
                 /\ recordActiveConnections(c, Cardinality(ActiveConnections'))

\* No tick of the socket is under way.
Rests(c) ==
    /\ c \notin reading
    /\ \A i \in DOMAIN line : line[i].of # c \/ line[i].op = "active_connections"

\* A timer fires, and getMetrics sends its gets. Bound: one tick of a socket
\* at a time; ticks of two sockets overlap as two of one socket would.
Tick(c) ==
    /\ Rests(c)
    /\ live[c] # {}
    /\ line' = Append(line, Command("get", c, Cardinality(ActiveConnections)))
    /\ UNCHANGED <<gatewayVars, reading, gauge, torn>>

\* The gets are answered. The levels are read one by one, however many.
getMetrics ==
    /\ Answer("get", <<>>)
    /\ reading' = reading \cup {Head(line).of}
    /\ UNCHANGED <<gatewayVars, gauge, torn>>

\* The job counts come; recordQueueMetrics computes its second and begins.
getJobCounts(c) ==
    /\ c \in reading
    /\ reading' = reading \ {c}
    /\ \E v \in Counts :
           line' = Append(line, Command("queue_length", c, v))
    /\ UNCHANGED <<gatewayVars, gauge, torn>>

\* Mutant: the second is computed anew for the second key.
RecordLengthThenLook ==
    /\ line # <<>>
    /\ \E v \in Counts :
        /\ Head(line).value \in {v, None}
        /\ Answer("queue_length", <<Command("active_jobs", Head(line).of, v)>>)
    /\ Set(Head(line))
    /\ UNCHANGED <<gatewayVars, reading, torn>>

\* recordQueueMetrics, first key
RecordLength ==
    /\ Answer("queue_length", <<[Head(line) EXCEPT !.op = "active_jobs"]>>)
    /\ Set(Head(line))
    /\ UNCHANGED <<gatewayVars, reading, torn>>

\* recordQueueMetrics, second key; then the update is emitted.
RecordActive ==
    /\ Answer("active_jobs", <<>>)
    /\ Set(Head(line))
    /\ UNCHANGED <<gatewayVars, reading, torn>>

RecordConnections ==
    /\ Answer("active_connections", <<>>)
    /\ Set(Head(line))
    /\ UNCHANGED <<gatewayVars, reading, torn>>

\* Mutant: the error reaches the interval and ends it.
TickFailsForGood(c) ==
    /\ c \in Unlucky \cap reading
    /\ reading' = reading \ {c}
    /\ live' = [live EXCEPT ![c] = {}]
    /\ UNCHANGED <<phase, intervals, awaiting, settled, wants, line, gauge, torn>>

\* Redis or the queue throws: the catch block ends the tick, not the interval.
TickFails(c) ==
    /\ c \in Unlucky
    /\ \/ /\ c \in reading
          /\ reading' = reading \ {c}
          /\ UNCHANGED <<line, torn>>
       \/ /\ line # <<>> /\ Head(line).of = c
          /\ Head(line).op # "active_connections"
          /\ line' = Tail(line)
          /\ torn' = (torn \/ Head(line).op = "active_jobs")
          /\ UNCHANGED reading
    /\ UNCHANGED <<gatewayVars, gauge>>

\* From here on the keys are those of another second.
NextSecond ==
    /\ gauge' = [g \in Gauges |-> None]
    /\ line' = [i \in DOMAIN line |-> [line[i] EXCEPT !.value = None]]
    /\ torn' = FALSE
    /\ UNCHANGED <<gatewayVars, reading>>

TicksInit == /\ GatewayInit
             /\ line = <<>> /\ reading = {}
             /\ gauge = [g \in Gauges |-> None]
             /\ torn = FALSE

Serve == getMetrics \/ RecordLength \/ RecordActive \/ RecordConnections

TicksNext ==
    \/ \E c \in Clients :
        \/ Connect(c) \/ Disconnect(c)
        \/ Tick(c) \/ getJobCounts(c) \/ TickFails(c)
        \/ /\ Subscribe(c) \/ StartInterval(c) \/ SubscribeFails(c)
              \/ handleUnsubscription(c)
           /\ UNCHANGED ticksVars
    \/ Serve \/ NextSecond

\* Redis answers and timers fire; no client is obliged to do anything.
TicksFairness ==
    /\ WF_<<gatewayVars, ticksVars>>(Serve)
    /\ \A c \in Clients :
        /\ WF_<<gatewayVars, ticksVars>>(Tick(c))
        /\ WF_<<gatewayVars, ticksVars>>(getJobCounts(c))
        /\ WF_<<gatewayVars, ticksVars>>(StartInterval(c) /\ UNCHANGED ticksVars)

TicksSpec == /\ TicksInit /\ [][TicksNext]_<<gatewayVars, ticksVars>>
             /\ TicksFairness
------------------------------------------------------------------------------
\* Ticks of several sockets overlap, and some straddle two seconds: once no
\* recording of this second is under way, its queue length and its active jobs
\* come from one and the same getJobCounts, unless a recording failed halfway.
GaugesAgree ==
    \/ torn
    \/ \E i \in DOMAIN line :
           line[i].op = "active_jobs" /\ line[i].value # None
    \/ gauge["queue_length"] = gauge["active_jobs"]

\* recordActiveConnections is not awaited, and yet a report has the number of
\* connections as it was when the report was asked for, or none at all when
\* nobody came or went in its second.
ConnectionsAreCurrent ==
    line # <<>> /\ Head(line).op = "get" /\ Head(line).value # None
        => gauge["active_connections"] \in {None, Head(line).value}

\* The update of a tick is about to be sent to the socket.
Updates(c) == /\ line # <<>> /\ Head(line).of = c
              /\ Head(line).op = "active_jobs"

\* A subscription of the socket came back later than its last timer.
Failed(c) == c \in Unlucky /\ intervals[c] # settled[c]

\* A socket whose last word is to subscribe, and whose subscription did not
\* fail, goes on being sent updates, however often its events overlapped and
\* other sockets' ticks fail, and even after ticks of its own did: only if they
\* go on failing for ever may the updates stop.
UpdatesKeepComing ==
    \A c \in Clients :
        \/ []<>(~wants[c] \/ Failed(c) \/ Updates(c))
        \/ []<><<TickFails(c)>>_<<gatewayVars, ticksVars>>
==============================================================================
