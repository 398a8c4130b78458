---- MODULE KeepAliveProof ----
(* What the ages and pings of KeepAlive guarantee for every keepalive, every *)
(* interval of advertisements and all kinds of behaviour.                    *)
EXTENDS KeepAlive, TLAPS

USE DurationAssumption, AdIntervalAssumption, ModesAssumption

(* Pings leave Duration + 1 seconds after one another, no later ...          *)
PingsInTime ==
  cstate = "connected" =>
    /\ pings = 0 => cage <= cping
    /\ pings = 1 => cage <= (Duration + 1) + cping
    /\ pings = 2 => cage <= 2 * (Duration + 1) + cping
    /\ pings = 3 => cage <= 3 * (Duration + 1) + cping

(* (a client that has turned in this second has sent the ping that was due)  *)
Turned == "client" \in turned /\ cstate = "connected" => ~SendAnotherPing(cping)

(* ... and no sooner; so there are at most four until contact is lost.       *)
PingsApart ==
  LostContact(cage) \/
    /\ pings = 0 => cage >= cping
    /\ pings = 1 => cage >= (Duration + 1) + cping
    /\ pings = 2 => cage >= 2 * (Duration + 1) + cping
    /\ pings = 3 => cage >= 3 * (Duration + 1) + cping
    /\ pings = 4 => cage >= 4 * (Duration + 1) + cping

(* Of a client that does not publish the gateway hears by its pings only.    *)
NoPublish == "publishing" \notin mode => "PUBLISH" \notin toGateway
Stamped == "publishing" \notin mode /\ gstate = "connected" => gage <= gsilence

ClientInv == pings \in 0 .. 4 /\ PingsInTime /\ Turned /\ PingsApart
GatewayInv == NoPublish /\ Stamped
IInv == TypeOK /\ ClientInv /\ GatewayInv

LEMMA IInvInit == Init => IInv
BY DEF Init, IInv, TypeOK, ClientInv, GatewayInv, PingsInTime, Turned, PingsApart, NoPublish,
       Stamped, SendAnotherPing, LostContact, Limit

(* The second that passes, seen from the client.                             *)
LEMMA TickClient ==
  ASSUME TypeOK, ClientInv, Tick
  PROVE  ClientInv' /\ cage' \in 0 .. Limit + 1 /\ cping' \in 0 .. Duration + 1
<1> USE DEF TypeOK, ClientInv, Tick, Older, Limit
<1>1. cage' \in 0 .. Limit + 1 /\ cping' \in 0 .. Duration + 1 /\ pings' \in 0 .. 4
  OBVIOUS
<1>2. PingsInTime'
  <2> SUFFICES ASSUME cstate = "connected"
               PROVE  PingsInTime'
    BY DEF PingsInTime
  <2>1. cping' = cping + 1
    BY DEF Turned, SendAnotherPing
  <2>2. cage' <= cage + 1
    OBVIOUS
  <2> QED
    BY <2>1, <2>2 DEF PingsInTime
<1>3. PingsApart'
  <2>1. cping' <= cping + 1
    OBVIOUS
  <2>2. CASE LostContact(cage)
    BY <2>2 DEF PingsApart, LostContact
  <2>3. CASE ~LostContact(cage)
    <3>1. cage' = cage + 1
      BY <2>3 DEF LostContact
    <3> QED
      BY <2>1, <2>3, <3>1 DEF PingsApart
  <2> QED
    BY <2>2, <2>3
<1>4. Turned'
  BY DEF Turned
<1> QED
  BY <1>1, <1>2, <1>3, <1>4

LEMMA PingClient ==
  ASSUME TypeOK, ClientInv, Ping
  PROVE  ClientInv'
<1> USE DEF TypeOK, ClientInv, Ping, Limit, LostContact, SendAnotherPing
<1>1. pings' \in 0 .. 4
  BY DEF PingsApart
<1>2. PingsInTime'
  BY DEF PingsInTime
<1>3. PingsApart'
  BY DEF PingsApart
<1>4. Turned'
  BY DEF Turned
<1> QED
  BY <1>1, <1>2, <1>3, <1>4

(* The client hears of its gateway.                                          *)
LEMMA HearsClient ==
  ASSUME TypeOK, ClientInv, ClientHears, UNCHANGED <<cstate, turned>>
  PROVE  ClientInv'
BY DEF TypeOK, ClientInv, ClientHears, PingsInTime, PingsApart, Turned, SendAnotherPing

(* A step that leaves the client's stamps alone and does not connect it; if  *)
(* the client takes a turn, no ping was due.                                 *)
LEMMA QuietClient ==
  ASSUME TypeOK, ClientInv, UNCHANGED <<cage, cping, pings>>,
         cstate' = "connected" => cstate = "connected",
         \/ "client" \in turned' => "client" \in turned
         \/ cstate' = "connected" => ~SendAnotherPing(cping)
  PROVE  ClientInv'
BY DEF TypeOK, ClientInv, PingsInTime, PingsApart, Turned, SendAnotherPing, LostContact
----------------------------------------------------------------------------
LEMMA IInvStep ==
  ASSUME IInv, [Next]_vars
  PROVE  IInv'
<1> USE DEF IInv
<1>1. CASE ClientLost
  <2>1. ClientInv'
    BY <1>1, QuietClient DEF ClientLost
  <2>2. TypeOK' /\ GatewayInv'
    BY <1>1 DEF ClientLost, gatewayVars, TypeOK, GatewayInv, NoPublish, Stamped
  <2> QED
    BY <2>1, <2>2
<1>2. CASE Ping
  <2>1. ClientInv'
    BY <1>2, PingClient
  <2>2. toGateway' \subseteq {"PINGREQ", "PUBLISH"} /\ ("PUBLISH" \in toGateway' => "PUBLISH" \in toGateway)
    BY <1>2 DEF Ping, Written, TypeOK
  <2>3. TypeOK' /\ GatewayInv'
    BY <1>2, <2>1, <2>2
    DEF Ping, gatewayVars, TypeOK, ClientInv, GatewayInv, NoPublish, Stamped
  <2> QED
    BY <2>1, <2>3
<1>3. CASE ClientQuiet
  <2>1. ClientInv'
    BY <1>3, QuietClient DEF ClientQuiet, clientVars
  <2>2. TypeOK' /\ GatewayInv'
    BY <1>3 DEF ClientQuiet, clientVars, gatewayVars, TypeOK, GatewayInv, NoPublish, Stamped
  <2> QED
    BY <2>1, <2>2
<1>4. CASE Publish
  <2>1. ClientInv'
    BY <1>4, QuietClient DEF Publish, clientVars
  <2>2. toGateway' \subseteq {"PINGREQ", "PUBLISH"}
    BY <1>4 DEF Publish, Written, TypeOK
  <2>3. TypeOK' /\ GatewayInv'
    BY <1>4, <2>2 DEF Publish, clientVars, gatewayVars, TypeOK, GatewayInv, NoPublish, Stamped
  <2> QED
    BY <2>1, <2>3
<1>5. CASE ClientReceives
  <2>1. PICK packet \in toClient \ {"DISCONNECT"} :
          /\ toClient' = toClient \ {packet}
          /\ IF packet = "ADVERTISE" /\ cstate # "connected"
             THEN UNCHANGED clientVars
             ELSE ClientHears /\ UNCHANGED cstate
          /\ UNCHANGED <<gatewayVars, toGateway, turned, mode>>
    BY <1>5 DEF ClientReceives
  <2>2. ClientInv'
    BY <2>1, HearsClient, QuietClient DEF clientVars
  <2>3. TypeOK' /\ GatewayInv'
    BY <2>1 DEF Limit, clientVars, gatewayVars, ClientHears, TypeOK, GatewayInv, NoPublish, Stamped
  <2> QED
    BY <2>2, <2>3
<1>6. CASE ReceiveDisconnect
  <2>1. ClientInv'
    BY <1>6, QuietClient DEF ReceiveDisconnect
  <2>2. TypeOK' /\ GatewayInv'
    BY <1>6 DEF ReceiveDisconnect, gatewayVars, TypeOK, GatewayInv, NoPublish, Stamped
  <2> QED
    BY <2>1, <2>2
<1>7. CASE GatewayLost
  <2>1. ClientInv'
    BY <1>7, QuietClient DEF GatewayLost, clientVars
  <2>2. toClient' \subseteq {"PINGRESP", "PUBACK", "ADVERTISE", "DISCONNECT"}
    BY <1>7 DEF GatewayLost, Written, TypeOK
  <2>3. TypeOK' /\ GatewayInv'
    BY <1>7, <2>2 DEF GatewayLost, clientVars, TypeOK, GatewayInv, NoPublish, Stamped
  <2> QED
    BY <2>1, <2>3
<1>8. CASE GatewayIdle
  <2>1. ClientInv'
    BY <1>8, QuietClient DEF GatewayIdle, clientVars
  <2>2. adage' \in {0, adage} /\ toClient' \subseteq {"PINGRESP", "PUBACK", "ADVERTISE", "DISCONNECT"}
    BY <1>8 DEF GatewayIdle, Written, TypeOK
  <2>3. gage' \in {0, gage}
    BY <1>8 DEF GatewayIdle
  <2>4. TypeOK' /\ GatewayInv'
    BY <1>8, <2>2, <2>3
    DEF Limit, GatewayIdle, clientVars, TypeOK, GatewayInv, NoPublish, Stamped
  <2> QED
    BY <2>1, <2>4
<1>9. CASE ReceivePingreq
  <2>1. ClientInv'
    BY <1>9, QuietClient DEF ReceivePingreq, clientVars
  <2>2. toClient' \subseteq {"PINGRESP", "PUBACK", "ADVERTISE", "DISCONNECT"}
    BY <1>9 DEF ReceivePingreq, Written, TypeOK
  <2>3. TypeOK' /\ GatewayInv'
    BY <1>9, <2>2
    DEF Limit, ReceivePingreq, clientVars, TypeOK, GatewayInv, NoPublish, Stamped
  <2> QED
    BY <2>1, <2>3
<1>10. CASE ReceivePublish
  <2>1. ClientInv'
    BY <1>10, QuietClient DEF ReceivePublish, clientVars
  <2>2. toClient' \subseteq {"PINGRESP", "PUBACK", "ADVERTISE", "DISCONNECT"}
    BY <1>10 DEF ReceivePublish, Written, TypeOK
  <2>3. "publishing" \in mode
    BY <1>10 DEF ReceivePublish, GatewayInv, NoPublish
  <2>4. TypeOK' /\ GatewayInv'
    BY <1>10, <2>2, <2>3
    DEF Limit, ReceivePublish, clientVars, TypeOK, GatewayInv, NoPublish, Stamped
  <2> QED
    BY <2>1, <2>4
<1>11. CASE Tick
  <2>1. ClientInv' /\ cage' \in 0 .. Limit + 1 /\ cping' \in 0 .. Duration + 1
    BY <1>11, TickClient
  <2>2. gage' \in 0 .. Limit + 1 /\ gsilence' \in 0 .. Limit + 1 /\ adage' \in 0 .. AdInterval + 1
    BY <1>11 DEF Tick, Older, TypeOK, Limit
  <2>3. TypeOK'
    BY <1>11, <2>1, <2>2 DEF Tick, TypeOK
  <2>4. gage <= gsilence => gage' <= gsilence'
    BY <1>11 DEF Tick, Older, TypeOK, Limit
  <2>5. GatewayInv'
    BY <1>11, <2>4 DEF Tick, GatewayInv, NoPublish, Stamped
  <2> QED
    BY <2>1, <2>3, <2>5
<1>12. CASE ClientStops
  <2>1. ClientInv'
    BY <1>12, QuietClient DEF ClientStops
  <2>2. TypeOK' /\ GatewayInv'
    BY <1>12 DEF ClientStops, gatewayVars, TypeOK, GatewayInv, NoPublish, Stamped
  <2> QED
    BY <2>1, <2>2
<1>13. CASE GatewayRestart
  <2>1. ClientInv'
    BY <1>13, QuietClient DEF GatewayRestart, clientVars
  <2>2. TypeOK' /\ GatewayInv'
    BY <1>13 DEF GatewayRestart, clientVars, TypeOK, GatewayInv, NoPublish, Stamped
  <2> QED
    BY <2>1, <2>2
<1>14. CASE UNCHANGED vars
  <2>1. ClientInv'
    BY <1>14, QuietClient DEF vars
  <2>2. TypeOK' /\ GatewayInv'
    BY <1>14 DEF vars, TypeOK, GatewayInv, NoPublish, Stamped
  <2> QED
    BY <2>1, <2>2
<1> QED
  BY <1>1, <1>2, <1>3, <1>4, <1>5, <1>6, <1>7, <1>8, <1>9, <1>10, <1>11, <1>12, <1>13, <1>14
  DEF Next, ClientLoop, GatewayLoop, ClientHandlers, GatewayHandlers

(* The invariant holds in every reachable state.                             *)
THEOREM Invariance == Spec => []IInv
<1>1. IInv /\ [Next]_vars => IInv'
  BY IInvStep
<1> QED
  BY IInvInit, <1>1, PTL DEF Spec

(* Ages stay within the bounds up to which the code tells them apart.        *)
THEOREM Typed == Spec => []TypeOK
<1>1. IInv => TypeOK
  BY DEF IInv
<1> QED
  BY Invariance, <1>1, PTL

(* With a keepalive of at least four seconds a client gives up its gateway   *)
(* after exactly four pings without an answer, whatever is lost and whoever  *)
(* stops: the five of mqttconnection.cpp:218 are never made.                 *)
THEOREM GivenUpAfterFour ==
  ASSUME Duration >= 4
  PROVE  Spec => FourPings
<1>1. IInv /\ [Next]_vars => [ClientLost => pings = 4]_vars
  <2> SUFFICES ASSUME IInv, ClientLost
               PROVE  pings = 4
    OBVIOUS
  <2>1. cstate = "connected" /\ cage > 5 * Duration /\ cping <= Duration + 1 /\ pings \in 0 .. 4
    BY DEF ClientLost, LostContact, Limit, IInv, TypeOK, ClientInv
  <2>2. PingsInTime /\ cage \in Nat /\ cping \in Nat
    BY DEF IInv, TypeOK, ClientInv
  <2> QED
    BY <2>1, <2>2 DEF PingsInTime
<1> QED
  BY Invariance, <1>1, PTL DEF Spec, FourPings

(* Of the clients that do not publish, the gateway times out only those it   *)
(* has not heard for five times the keepalive.                               *)
THEOREM OnlyTheSilent == Spec => LostIsIdle
<1>1. IInv /\ [Next]_vars => [GatewayLost /\ "publishing" \notin mode => gsilence > Limit]_vars
  <2> SUFFICES ASSUME IInv, GatewayLost, "publishing" \notin mode
               PROVE  gsilence > Limit
    OBVIOUS
  <2>1. gage > Limit /\ gage <= gsilence
    BY DEF GatewayLost, LostContact, IInv, GatewayInv, Stamped
  <2> QED
    BY <2>1 DEF IInv, TypeOK, Limit
<1> QED
  BY Invariance, <1>1, PTL DEF Spec, LostIsIdle
----------------------------------------------------------------------------
(* Where nothing is lost, nobody fails and nothing is published: both stay   *)
(* connected, and only pings, their answers and advertisements are under way.*)
BothConnected ==
  /\ cstate = "connected" /\ gstate = "connected"
  /\ toGateway \subseteq {"PINGREQ"} /\ toClient \subseteq {"PINGRESP", "ADVERTISE"}

(* A ping and its answer arrive in the second they were sent in ...          *)
Pinging == "PINGREQ" \in toGateway
Answering == "PINGRESP" \in toClient
Prompt ==
  /\ Pinging => cping = 0
  /\ Answering => cping = 0 /\ gsilence = 0

(* ... so that the client hears of the gateway with every ping.              *)
Answered ==
  /\ cage <= Duration + 1
  /\ cage <= cping \/ Pinging \/ Answering

(* The gateway heard of the client when the client's ping timer was reset:   *)
(* unless the last reset was by an advertisement, and the one before it was  *)
(* a ping.                                                                   *)
HeardByReset ==
  /\ gsilence <= 2 * (Duration + 1)
  /\ "ADVERTISE" \in toClient => adage = 0
  /\ \/ Pinging
     \/ gsilence <= cping
     \/ /\ "ADVERTISE" \notin toClient
        /\ adage = cping
        /\ gsilence <= cping + (Duration + 1)

HeldInv == mode \subseteq {"dirty"} => BothConnected /\ Prompt /\ Answered /\ HeardByReset

LEMMA HeldInit == Init => HeldInv
BY DEF Init, HeldInv, BothConnected, Prompt, Answered, HeardByReset, Pinging, Answering

LEMMA HeldStep ==
  ASSUME AdInterval > Duration, IInv, HeldInv, [Next]_vars
  PROVE  HeldInv'
<1> SUFFICES ASSUME mode' \subseteq {"dirty"}
             PROVE  BothConnected' /\ Prompt' /\ Answered' /\ HeardByReset'
  BY DEF HeldInv
<1>1. mode' = mode
  BY DEF Next, vars, ClientLoop, GatewayLoop, ClientHandlers, GatewayHandlers, ClientLost, Ping,
         ClientQuiet, Publish, ClientReceives, ReceiveDisconnect, GatewayLost, GatewayIdle,
         ReceivePingreq, ReceivePublish, Tick, ClientStops, GatewayRestart
<1>2. "lossy" \notin mode /\ "fragile" \notin mode /\ "publishing" \notin mode
  BY <1>1
<1>3. BothConnected /\ Prompt /\ Answered /\ HeardByReset
  BY <1>1 DEF HeldInv
<1>4. TypeOK /\ Turned /\ gage <= gsilence
  BY <1>2, <1>3 DEF IInv, ClientInv, GatewayInv, Stamped, BothConnected
<1>5. \A air, packet : Written(air, packet) = {air \cup {packet}}
  BY <1>2 DEF Written
<1>6. ~LostContact(cage) /\ ~LostContact(gage)
  BY <1>3, <1>4 DEF LostContact, Limit, TypeOK, Answered, HeardByReset
<1> DEFINE Goal == BothConnected' /\ Prompt' /\ Answered' /\ HeardByReset'
<1> USE DEF TypeOK, BothConnected, Prompt, Answered, HeardByReset, Pinging, Answering
<1>7. CASE Ping
  <2>1. toGateway' = toGateway \cup {"PINGREQ"}
    BY <1>5, <1>7 DEF Ping
  <2> QED
    BY <1>3, <1>4, <1>7, <2>1 DEF Ping, gatewayVars, SendAnotherPing
<1>8. CASE ClientQuiet
  BY <1>3, <1>4, <1>8 DEF ClientQuiet, clientVars, gatewayVars
<1>9. CASE ClientReceives
  <2>1. PICK packet \in toClient \ {"DISCONNECT"} :
          /\ toClient' = toClient \ {packet}
          /\ IF packet = "ADVERTISE" /\ cstate # "connected"
             THEN UNCHANGED clientVars
             ELSE ClientHears /\ UNCHANGED cstate
          /\ UNCHANGED <<gatewayVars, toGateway, turned, mode>>
    BY <1>9 DEF ClientReceives
  <2>2. ClientHears /\ UNCHANGED <<cstate, gatewayVars, toGateway>>
    BY <1>3, <2>1
  <2>3. cage' = 0 /\ cping' = 0
    BY <2>2 DEF ClientHears
  <2>4. gsilence' = gsilence /\ adage' = adage /\ gstate' = gstate /\ toGateway' = toGateway
    BY <2>2 DEF gatewayVars
  <2>5. BothConnected' /\ Prompt' /\ Answered'
    BY <1>3, <1>4, <2>1, <2>2, <2>3, <2>4
  <2>6. CASE packet = "PINGRESP"
    BY <1>3, <1>4, <2>1, <2>3, <2>4, <2>6
  <2>7. CASE packet = "ADVERTISE"
    BY <1>3, <1>4, <2>1, <2>3, <2>4, <2>7
  <2> QED
    BY <1>3, <2>1, <2>5, <2>6, <2>7
<1>10. CASE GatewayIdle
  <2>1. \/ adage' = adage /\ toClient' = toClient
        \/ adage > AdInterval /\ adage' = 0 /\ toClient' = toClient \cup {"ADVERTISE"}
    BY <1>5, <1>10 DEF GatewayIdle
  <2>2. UNCHANGED <<cstate, cage, cping, gstate, gsilence, toGateway>>
    BY <1>10 DEF GatewayIdle, clientVars
  <2>3. CASE adage' = adage /\ toClient' = toClient
    BY <1>3, <2>2, <2>3
  <2>4. CASE adage > AdInterval /\ adage' = 0 /\ toClient' = toClient \cup {"ADVERTISE"}
    <3>1. Pinging \/ gsilence <= cping
      BY <1>3, <1>4, <2>4
    <3>2. BothConnected' /\ Prompt' /\ Answered'
      BY <1>3, <2>2, <2>4
    <3> QED
      BY <1>3, <2>2, <2>4, <3>1, <3>2
  <2> QED
    BY <2>1, <2>3, <2>4
<1>11. CASE ReceivePingreq
  <2>1. toClient' = toClient \cup {"PINGRESP"}
    BY <1>3, <1>5, <1>11 DEF ReceivePingreq
  <2> QED
    BY <1>3, <1>4, <1>11, <2>1 DEF ReceivePingreq, clientVars
<1>12. CASE Tick
  BY <1>3, <1>4, <1>12 DEF Tick, Older, Limit, Turned, SendAnotherPing
<1>13. CASE UNCHANGED vars
  BY <1>3, <1>4, <1>13 DEF vars
<1> QED
  BY <1>2, <1>3, <1>6, <1>7, <1>8, <1>9, <1>10, <1>11, <1>12, <1>13
  DEF Next, ClientLoop, GatewayLoop, ClientHandlers, GatewayHandlers, ClientLost, Publish,
      ReceiveDisconnect, GatewayLost, ReceivePublish, ClientStops, GatewayRestart

(* With nothing lost, nobody failing and nothing published, an idle          *)
(* connection is held for ever, whatever its keepalive, if the gateway       *)
(* advertises less often than the client would ping.                         *)
THEOREM HeldForEver ==
  ASSUME AdInterval > Duration
  PROVE  Spec => []Held
<1>1. IInv /\ HeldInv /\ [Next]_vars => HeldInv'
  BY HeldStep
<1>2. HeldInv => Held
  BY DEF HeldInv, BothConnected, Held
<1> QED
  BY Invariance, HeldInit, <1>1, <1>2, PTL DEF Spec

(* Under the same condition the gateway has a ping in time.                  *)
THEOREM PingedInTimeAlways ==
  ASSUME AdInterval > Duration
  PROVE  Spec => []PingedInTime
<1>1. IInv /\ HeldInv /\ [Next]_vars => HeldInv'
  BY HeldStep
<1>2. IInv /\ HeldInv => PingedInTime
  BY DEF IInv, TypeOK, HeldInv, HeardByReset, PingedInTime, Limit
<1> QED
  BY Invariance, HeldInit, <1>1, <1>2, PTL DEF Spec
====
