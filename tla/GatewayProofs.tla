---------------------------- MODULE GatewayProofs ----------------------------
(***************************************************************************)
(* Proofs about the timers of MonitoringGateway for every set of sockets,  *)
(* and that the gateway with its ticks is still that gateway.              *)
(***************************************************************************)
EXTENDS GatewayTicks, TLAPS

LEMMA GatewayInitInv == GatewayInit => GatewayInv
BY GatewayAssumption
   DEF GatewayInit, GatewayInv, GatewayTypeOK, OneStream, StopMeansStop,
       SubscribedIsServed

\* A socket connects.
LEMMA handleConnectionInv ==
    ASSUME GatewayInv, NEW c \in Clients, handleConnection(c)
    PROVE  GatewayInv'
<1> USE GatewayAssumption DEF GatewayInv, GatewayTypeOK, handleConnection
<1>1. GatewayTypeOK'
  OBVIOUS
<1>2. OneStream' /\ StopMeansStop'
  BY DEF OneStream, StopMeansStop
<1>3. SubscribedIsServed'
  BY DEF SubscribedIsServed
<1>4. \A d \in Clients \ Hasty :
          awaiting'[d] > 0 => awaiting'[d] = 1 /\ live'[d] = {} /\ wants'[d]
  BY DEF OneStream
<1> QED BY <1>1, <1>2, <1>3, <1>4

\* A socket disconnects: nothing of a patient one is pending.
LEMMA handleDisconnectInv ==
    ASSUME GatewayInv, NEW c \in Clients, handleDisconnect(c)
    PROVE  GatewayInv'
<1> USE GatewayAssumption DEF GatewayInv, GatewayTypeOK, handleDisconnect, MayCome, ClearStored
<1>1. GatewayTypeOK'
  OBVIOUS
<1>2. OneStream' /\ StopMeansStop'
  BY DEF OneStream, StopMeansStop
<1>3. SubscribedIsServed'
  BY DEF SubscribedIsServed
<1>4. \A d \in Clients \ Hasty :
          awaiting'[d] > 0 => awaiting'[d] = 1 /\ live'[d] = {} /\ wants'[d]
  BY DEF OneStream
<1> QED BY <1>1, <1>2, <1>3, <1>4

\* A subscription begins: the stored timer, a patient socket's only one, is gone.
LEMMA SubscribeInv ==
    ASSUME GatewayInv, NEW c \in Clients, Subscribe(c)
    PROVE  GatewayInv'
<1> USE GatewayAssumption DEF GatewayInv, GatewayTypeOK, Subscribe, MayCome, ClearStored
<1>1. GatewayTypeOK'
  OBVIOUS
<1>2. OneStream' /\ StopMeansStop'
  BY DEF OneStream, StopMeansStop
<1>3. SubscribedIsServed'
  BY DEF SubscribedIsServed
<1>4. \A d \in Clients \ Hasty :
          awaiting'[d] > 0 => awaiting'[d] = 1 /\ live'[d] = {} /\ wants'[d]
  BY DEF OneStream
<1> QED BY <1>1, <1>2, <1>3, <1>4

\* A subscription ends with a timer that the map knows.
LEMMA StartIntervalInv ==
    ASSUME GatewayInv, NEW c \in Clients, StartInterval(c)
    PROVE  GatewayInv'
<1> USE GatewayAssumption DEF GatewayInv, GatewayTypeOK, StartInterval
<1>1. GatewayTypeOK'
  OBVIOUS
<1>2. OneStream' /\ StopMeansStop'
  BY DEF OneStream, StopMeansStop
<1>3. SubscribedIsServed'
  BY DEF SubscribedIsServed
<1>4. \A d \in Clients \ Hasty :
          awaiting'[d] > 0 => awaiting'[d] = 1 /\ live'[d] = {} /\ wants'[d]
  BY DEF OneStream
<1> QED BY <1>1, <1>2, <1>3, <1>4

\* A subscription fails, on behalf of an unlucky socket only.
LEMMA SubscribeFailsInv ==
    ASSUME GatewayInv, NEW c \in Clients, SubscribeFails(c)
    PROVE  GatewayInv'
<1> USE GatewayAssumption DEF GatewayInv, GatewayTypeOK, SubscribeFails
<1>1. GatewayTypeOK'
  OBVIOUS
<1>2. OneStream' /\ StopMeansStop'
  BY DEF OneStream, StopMeansStop
<1>3. SubscribedIsServed'
  BY DEF SubscribedIsServed
<1>4. \A d \in Clients \ Hasty :
          awaiting'[d] > 0 => awaiting'[d] = 1 /\ live'[d] = {} /\ wants'[d]
  BY DEF OneStream
<1> QED BY <1>1, <1>2, <1>3, <1>4

\* A socket unsubscribes.
LEMMA handleUnsubscriptionInv ==
    ASSUME GatewayInv, NEW c \in Clients, handleUnsubscription(c)
    PROVE  GatewayInv'
<1> USE GatewayAssumption DEF GatewayInv, GatewayTypeOK, handleUnsubscription, MayCome, ClearStored
<1>1. GatewayTypeOK'
  OBVIOUS
<1>2. OneStream' /\ StopMeansStop'
  BY DEF OneStream, StopMeansStop
<1>3. SubscribedIsServed'
  BY DEF SubscribedIsServed
<1>4. \A d \in Clients \ Hasty :
          awaiting'[d] > 0 => awaiting'[d] = 1 /\ live'[d] = {} /\ wants'[d]
  BY DEF OneStream
<1> QED BY <1>1, <1>2, <1>3, <1>4

\* Every step keeps the invariant.
LEMMA GatewayNextInv == GatewayInv /\ [GatewayNext]_gatewayVars => GatewayInv'
<1> SUFFICES ASSUME GatewayInv, [GatewayNext]_gatewayVars PROVE GatewayInv'
  OBVIOUS
<1>1. CASE UNCHANGED gatewayVars
  BY <1>1 DEF gatewayVars, GatewayInv, GatewayTypeOK, OneStream, StopMeansStop,
              SubscribedIsServed
<1>2. CASE GatewayNext
  BY <1>2, handleConnectionInv, handleDisconnectInv, SubscribeInv,
     StartIntervalInv, SubscribeFailsInv, handleUnsubscriptionInv
     DEF GatewayNext
<1> QED BY <1>1, <1>2

\* The timers are kept as they should be, whatever the sockets do.
THEOREM GatewayCorrect == GatewaySpec => []GatewayInv
BY GatewayInitInv, GatewayNextInv, PTL DEF GatewaySpec

\* The gateway that also ticks and records gauges implements the one that only
\* keeps timers: no tick, answer or failure touches them.
THEOREM TicksKeepTimers == TicksSpec => GatewaySpec
<1>1. TicksInit => GatewayInit BY DEF TicksInit
<1>2. [TicksNext]_<<gatewayVars, ticksVars>> => [GatewayNext]_gatewayVars
  BY DEF TicksNext, GatewayNext, Connect, Disconnect, Tick, TickFails,
         getJobCounts, Serve, getMetrics, RecordLength, RecordActive,
         RecordConnections, NextSecond
<1> QED BY <1>1, <1>2, PTL DEF TicksSpec, GatewaySpec

\* A socket whose events do not overlap its subscriptions has at most one
\* ticking timer, the one in the map.
THEOREM AtMostOneStream == TicksSpec => []OneStream
<1>1. GatewayInv => OneStream BY DEF GatewayInv
<1> QED BY <1>1, GatewayCorrect, TicksKeepTimers, PTL

\* Such a socket has none once it is gone or unsubscribed.
THEOREM StoppedIsSilent == TicksSpec => []StopMeansStop
<1>1. GatewayInv => StopMeansStop BY DEF GatewayInv
<1> QED BY <1>1, GatewayCorrect, TicksKeepTimers, PTL

\* Any socket whose last word was to subscribe has a timer the map knows.
THEOREM SubscribersAreServed == TicksSpec => []SubscribedIsServed
<1>1. GatewayInv => SubscribedIsServed BY DEF GatewayInv
<1> QED BY <1>1, GatewayCorrect, TicksKeepTimers, PTL
==============================================================================
