-------------------------- MODULE MonitoringGateway --------------------------
(***************************************************************************)
(* The websocket gateway: per socket, the interval that streams metrics.   *)
(* subscribe-metrics awaits Redis between clearing the old interval and    *)
(* storing the new one, and other events of the socket may come meanwhile. *)
(***************************************************************************)
EXTENDS Integers

CONSTANTS
    Clients,        \* socket ids, each used for one connection
    MaxSubscribes,  \* bound on the subscribe-metrics events of a socket
    Hasty,          \* sockets whose events may come while they await Redis
    Unlucky         \* sockets on whose behalf getMetrics may throw

ASSUME GatewayAssumption ==
    /\ MaxSubscribes \in Nat
    /\ Hasty \subseteq Clients
    /\ Unlucky \subseteq Clients

VARIABLES
    phase,      \* whether the socket is yet to come, connected or gone
    intervals,  \* the map entry of the socket: a timer, 0 if it has none
    live,       \* timers of the socket that tick
    awaiting,   \* handleSubscription calls that await getMetrics
    settled,    \* calls that came back: the n-th one creates timer n
    wants       \* history: the socket's last word was subscribe-metrics

gatewayVars == <<phase, intervals, live, awaiting, settled, wants>>

\* Whether an event of the socket may come now.
MayCome(c) == phase[c] = "connected" /\ (c \in Hasty \/ awaiting[c] = 0)

\* clearInterval of the timer in the map, if there is one.
ClearStored(c) == live' = [live EXCEPT ![c] = @ \ {intervals[c]}]

handleConnection(c) ==
    /\ phase[c] = "new"
    /\ phase' = [phase EXCEPT ![c] = "connected"]
    /\ UNCHANGED <<intervals, live, awaiting, settled, wants>>

handleDisconnect(c) ==
    /\ MayCome(c)
    /\ phase' = [phase EXCEPT ![c] = "gone"]
    /\ ClearStored(c)
    /\ intervals' = [intervals EXCEPT ![c] = 0]
    /\ wants' = [wants EXCEPT ![c] = FALSE]
    /\ UNCHANGED <<awaiting, settled>>

\* Mutant: a second subscription does not clear the first.
SubscribeTwice(c) ==
    /\ MayCome(c)
    /\ settled[c] + awaiting[c] < MaxSubscribes
    /\ awaiting' = [awaiting EXCEPT ![c] = @ + 1]
    /\ wants' = [wants EXCEPT ![c] = TRUE]
    /\ UNCHANGED <<phase, intervals, live, settled>>

\* handleSubscription up to its await. The map keeps the cleared timer.
Subscribe(c) ==
    /\ MayCome(c)
    /\ settled[c] + awaiting[c] < MaxSubscribes
    /\ ClearStored(c)
    /\ awaiting' = [awaiting EXCEPT ![c] = @ + 1]
    /\ wants' = [wants EXCEPT ![c] = TRUE]
    /\ UNCHANGED <<phase, intervals, settled>>

\* Mutant: the new timer is not put into the map.
StartUnstored(c) ==
    /\ awaiting[c] > 0
    /\ awaiting' = [awaiting EXCEPT ![c] = @ - 1]
    /\ settled' = [settled EXCEPT ![c] = @ + 1]
    /\ live' = [live EXCEPT ![c] = @ \cup {settled[c] + 1}]
    /\ UNCHANGED <<phase, intervals, wants>>

\* handleSubscription after its await: whatever happened meanwhile, a timer
\* starts and replaces the map entry.
StartInterval(c) ==
    /\ awaiting[c] > 0
    /\ awaiting' = [awaiting EXCEPT ![c] = @ - 1]
    /\ settled' = [settled EXCEPT ![c] = @ + 1]
    /\ live' = [live EXCEPT ![c] = @ \cup {settled[c] + 1}]
    /\ intervals' = [intervals EXCEPT ![c] = settled[c] + 1]
    /\ UNCHANGED <<phase, wants>>

\* getMetrics throws: the subscription ends without a timer.
SubscribeFails(c) ==
    /\ c \in Unlucky
    /\ awaiting[c] > 0
    /\ awaiting' = [awaiting EXCEPT ![c] = @ - 1]
    /\ settled' = [settled EXCEPT ![c] = @ + 1]
    /\ UNCHANGED <<phase, intervals, live, wants>>

\* Mutant: the map entry is deleted and its timer left running.
UnsubscribeEntry(c) ==
    /\ MayCome(c)
    /\ intervals' = [intervals EXCEPT ![c] = 0]
    /\ wants' = [wants EXCEPT ![c] = FALSE]
    /\ UNCHANGED <<phase, live, awaiting, settled>>

handleUnsubscription(c) ==
    /\ MayCome(c)
    /\ ClearStored(c)
    /\ intervals' = [intervals EXCEPT ![c] = 0]
    /\ wants' = [wants EXCEPT ![c] = FALSE]
    /\ UNCHANGED <<phase, awaiting, settled>>

GatewayInit ==
    /\ phase = [c \in Clients |-> "new"]
    /\ intervals = [c \in Clients |-> 0]
    /\ live = [c \in Clients |-> {}]
    /\ awaiting = [c \in Clients |-> 0]
    /\ settled = [c \in Clients |-> 0]
    /\ wants = [c \in Clients |-> FALSE]

GatewayNext ==
    \E c \in Clients :
        \/ handleConnection(c) \/ handleDisconnect(c)
        \/ Subscribe(c) \/ StartInterval(c) \/ SubscribeFails(c)
        \/ handleUnsubscription(c)

GatewaySpec == GatewayInit /\ [][GatewayNext]_gatewayVars
------------------------------------------------------------------------------
\* The maps of the gateway hold timers that exist.
GatewayTypeOK ==
    /\ phase \in [Clients -> {"new", "connected", "gone"}]
    /\ intervals \in [Clients -> Nat]
    /\ live \in [Clients -> SUBSET Nat]
    /\ awaiting \in [Clients -> Nat]
    /\ settled \in [Clients -> Nat]
    /\ wants \in [Clients -> BOOLEAN]

\* A socket has at most one ticking timer, and it is the one the map can
\* still clear, unless its events overlap a pending subscription.
OneStream == \A c \in Clients \ Hasty : live[c] \subseteq {intervals[c]}

\* No timer ticks for a socket that is gone or that unsubscribed, once its
\* subscriptions have settled, unless its events overlap one.
StopMeansStop ==
    \A c \in Clients \ Hasty : awaiting[c] = 0 /\ ~wants[c] => live[c] = {}

\* However its events overlap, a socket whose last word was to subscribe has
\* a ticking timer, and the map knows it, once its subscriptions have settled.
SubscribedIsServed ==
    \A c \in Clients \ Unlucky :
        wants[c] /\ awaiting[c] = 0 => intervals[c] \in live[c]

\* The inductive invariant of the proofs: a patient socket that awaits has no
\* timer and wants one.
GatewayInv ==
    /\ GatewayTypeOK
    /\ OneStream /\ StopMeansStop /\ SubscribedIsServed
    /\ \A c \in Clients \ Hasty :
           awaiting[c] > 0 => awaiting[c] = 1 /\ live[c] = {} /\ wants[c]

\* docs/monitoring.md:185, "Automatic cleanup on disconnect": no timer ticks
\* for a socket that is gone. A disconnect during the await of a subscription
\* comes before the timer it should have cleared.
GoneIsSilent == \A c \in Clients : phase[c] = "gone" => live[c] = {}
==============================================================================
