---- MODULE KeepAlive ----
(* How a connected client and its gateway notice that the other has gone:    *)
(* activity stamps, pings and advertisements, on a clock that counts seconds *)
(* (TIMENOW). A stamp is kept as its age. The main loops turn many times a   *)
(* second: each turns at least once between two ticks, and a packet arrives  *)
(* or is lost in the second it was written. The client's gateway is          *)
(* permanent, its publishes have QoS 1 and find room, and the broker         *)
(* confirms them at once.                                                    *)
EXTENDS Naturals

CONSTANTS
  Duration,   \* the keepalive of the connection, in seconds
  AdInterval, \* m_advertise_interval, in seconds
  Modes       \* the kinds of behaviour that are looked at: sets of
              \* "lossy": packets may be lost,
              \* "fragile": the client may stop for good, the gateway restart,
              \* "publishing": the client publishes,
              \* "dirty": the client connected without the clean flag

ASSUME DurationAssumption == Duration \in Nat \ {0}
ASSUME AdIntervalAssumption == AdInterval \in Nat
ASSUME ModesAssumption == Modes \subseteq SUBSET {"lossy", "fragile", "publishing", "dirty"}

VARIABLES
  cstate,    \* the client: its State, or "gone"
  cage,      \* seconds since the client's m_lastactivity
  cping,     \* seconds since its m_last_ping
  pings,     \* history: pings since the client last heard from the gateway
  gstate,    \* State of the gateway's record, "none" without one
  gage,      \* seconds since its m_lastactivity
  gsilence,  \* history: seconds since the gateway had a packet of the client
  adage,     \* seconds since m_last_advertised
  gtopics,   \* m_sendtopics
  toGateway, \* packets of this second
  toClient,
  turned,    \* the loops that turned in this second
  mode       \* which of Modes the behaviour is

vars == <<cstate, cage, cping, pings, gstate, gage, gsilence, adage, gtopics,
          toGateway, toClient, turned, mode>>
clientVars == <<cstate, cage, cping, pings>>
gatewayVars == <<gstate, gage, gsilence, adage, gtopics>>

Limit == 5 * Duration

(* Ages beyond what the code tells apart count as one.                       *)
Older(age, bound) == IF age > bound THEN age ELSE age + 1

(* Both sides have just completed the connection.                            *)
Init ==
  /\ cstate = "connected" /\ cage = 0 /\ cping = 0 /\ pings = 0
  /\ gstate = "connected" /\ gage = 0 /\ gsilence = 0
  /\ adage \in 0 .. AdInterval
  /\ mode \in Modes
  /\ gtopics = ("dirty" \in mode)
  /\ toGateway = {} /\ toClient = {}
  /\ turned = {}

Written(air, packet) == {air \cup {packet}} \cup (IF "lossy" \in mode THEN {air} ELSE {})

(* Changed: pings as seldom as contact is lost. *)
MutantPingLate(age) == age > Limit

LostContact(age) == age > Limit
SendAnotherPing(age) == age > Duration

(* update_activity() of the client's connection.                             *)
ClientHears == cage' = 0 /\ cping' = 0 /\ pings' = 0

----------------------------------------------------------------------------
(* manage_gw_connection. With contact lost, no ping is sent.                 *)
ClientLost ==
  /\ cstate = "connected"
  /\ LostContact(cage)
  /\ cstate' = "disconnected"
  /\ turned' = turned \cup {"client"}
  /\ UNCHANGED <<cage, cping, pings, gatewayVars, toGateway, toClient, mode>>

(* Changed: m_last_ping is not set. *)
MutantPingNotStamped ==
  /\ cstate = "connected"
  /\ ~LostContact(cage)
  /\ SendAnotherPing(cping)
  /\ pings' = pings + 1
  /\ toGateway' \in Written(toGateway, "PINGREQ")
  /\ turned' = turned \cup {"client"}
  /\ UNCHANGED <<cstate, cage, cping, gatewayVars, toClient, mode>>

(* Changed: a ping counts as activity of the gateway. *)
MutantPingIsActivity ==
  /\ cstate = "connected"
  /\ ~LostContact(cage)
  /\ SendAnotherPing(cping)
  /\ cping' = 0
  /\ cage' = 0
  /\ pings' = pings + 1
  /\ toGateway' \in Written(toGateway, "PINGREQ")
  /\ turned' = turned \cup {"client"}
  /\ UNCHANGED <<cstate, gatewayVars, toClient, mode>>

Ping ==
  /\ cstate = "connected"
  /\ ~LostContact(cage)
  /\ SendAnotherPing(cping)
  /\ cping' = 0
  /\ pings' = pings + 1
  /\ toGateway' \in Written(toGateway, "PINGREQ")
  /\ turned' = turned \cup {"client"}
  /\ UNCHANGED <<cstate, cage, gatewayVars, toClient, mode>>

ClientQuiet ==
  /\ cstate = "connected" => ~LostContact(cage) /\ ~SendAnotherPing(cping)
  /\ turned' = turned \cup {"client"}
  /\ UNCHANGED <<clientVars, gatewayVars, toGateway, toClient, mode>>

(* publish(), and the write that manage_connections does for it.             *)
Publish ==
  /\ "publishing" \in mode
  /\ cstate = "connected"
  /\ toGateway' \in Written(toGateway, "PUBLISH")
  /\ UNCHANGED <<clientVars, gatewayVars, toClient, turned, mode>>

(* received_pingresp, received_puback, and received_advertised from the      *)
(* gateway the client is connected to.                                       *)
ClientReceives ==
  \E packet \in toClient \ {"DISCONNECT"} :
    /\ toClient' = toClient \ {packet}
    /\ IF packet = "ADVERTISE" /\ cstate # "connected"
       THEN UNCHANGED clientVars
       ELSE ClientHears /\ UNCHANGED cstate
    /\ UNCHANGED <<gatewayVars, toGateway, turned, mode>>

ReceiveDisconnect ==
  /\ "DISCONNECT" \in toClient
  /\ toClient' = toClient \ {"DISCONNECT"}
  /\ cstate' = IF cstate = "gone" THEN "gone" ELSE "disconnected"
  /\ UNCHANGED <<cage, cping, pings, gatewayVars, toGateway, turned, mode>>

----------------------------------------------------------------------------
(* manage_connections of the gateway: a lost client, or an idle ring, for    *)
(* which complete_client_connection runs while m_sendtopics is set. It is    *)
(* cleared by a REGACK only, and a client without topics never sends one.    *)
GatewayLost ==
  /\ gstate = "connected"
  /\ LostContact(gage)
  /\ gstate' = "disconnected"
  /\ toClient' \in Written(toClient, "DISCONNECT")
  /\ turned' = turned \cup {"gateway"}
  /\ UNCHANGED <<clientVars, gage, gsilence, adage, gtopics, toGateway, mode>>

(* Changed: every idle pass refreshes the activity. *)
MutantIdleIsActivity ==
  /\ gstate = "connected" => ~LostContact(gage)
  /\ gage' = 0
  /\ IF adage > AdInterval
     THEN adage' = 0 /\ toClient' \in Written(toClient, "ADVERTISE")
     ELSE UNCHANGED <<adage, toClient>>
  /\ turned' = turned \cup {"gateway"}
  /\ UNCHANGED <<clientVars, gstate, gsilence, gtopics, toGateway, mode>>

GatewayIdle ==
  /\ gstate = "connected" => ~LostContact(gage)
  /\ gage' = IF gstate = "connected" /\ gtopics THEN 0 ELSE gage
  /\ IF adage > AdInterval
     THEN adage' = 0 /\ toClient' \in Written(toClient, "ADVERTISE")
     ELSE UNCHANGED <<adage, toClient>>
  /\ turned' = turned \cup {"gateway"}
  /\ UNCHANGED <<clientVars, gstate, gsilence, gtopics, toGateway, mode>>

(* Changed: a ping is answered, but not taken for activity. *)
MutantPingreqNoActivity ==
  /\ "PINGREQ" \in toGateway
  /\ toGateway' = toGateway \ {"PINGREQ"}
  /\ gsilence' = 0
  /\ IF gstate = "connected"
     THEN toClient' \in Written(toClient, "PINGRESP")
     ELSE UNCHANGED toClient
  /\ UNCHANGED <<clientVars, gstate, gage, adage, gtopics, turned, mode>>

(* received_pingreq: a client without a record is ignored.                   *)
ReceivePingreq ==
  /\ "PINGREQ" \in toGateway
  /\ toGateway' = toGateway \ {"PINGREQ"}
  /\ gsilence' = 0
  /\ IF gstate = "connected"
     THEN gage' = 0 /\ toClient' \in Written(toClient, "PINGRESP")
     ELSE UNCHANGED <<gage, toClient>>
  /\ UNCHANGED <<clientVars, gstate, adage, gtopics, turned, mode>>

(* received_publish and the callback that answers.                           *)
ReceivePublish ==
  /\ "PUBLISH" \in toGateway
  /\ toGateway' = toGateway \ {"PUBLISH"}
  /\ gsilence' = 0
  /\ toClient' \in Written(toClient, IF gstate = "connected" THEN "PUBACK" ELSE "DISCONNECT")
  /\ UNCHANGED <<clientVars, gstate, gage, adage, gtopics, turned, mode>>

----------------------------------------------------------------------------
(* The clock, and what happens to the programs.                              *)
Tick ==
  /\ "gateway" \in turned
  /\ "client" \in turned \/ cstate = "gone"
  /\ toGateway = {} /\ toClient = {}
  /\ cage' = Older(cage, Limit) /\ cping' = Older(cping, Duration)
  /\ gage' = Older(gage, Limit) /\ gsilence' = Older(gsilence, Limit)
  /\ adage' = Older(adage, AdInterval)
  /\ turned' = {}
  /\ UNCHANGED <<cstate, pings, gstate, gtopics, toGateway, toClient, mode>>

ClientStops ==
  /\ "fragile" \in mode
  /\ cstate' = "gone"
  /\ UNCHANGED <<cage, cping, pings, gatewayVars, toGateway, toClient, turned, mode>>

GatewayRestart ==
  /\ "fragile" \in mode
  /\ gstate' = "none"
  /\ UNCHANGED <<clientVars, gage, gsilence, adage, gtopics, toGateway, toClient, turned, mode>>

ClientLoop == ClientLost \/ Ping \/ ClientQuiet
GatewayLoop == GatewayLost \/ GatewayIdle
ClientHandlers == ClientReceives \/ ReceiveDisconnect
GatewayHandlers == ReceivePingreq \/ ReceivePublish

Next ==
  \/ cstate # "gone" /\ ClientLoop
  \/ GatewayLoop
  \/ Publish
  \/ ClientHandlers
  \/ GatewayHandlers
  \/ Tick
  \/ ClientStops
  \/ GatewayRestart

Spec == Init /\ [][Next]_vars

(* Time passes, both loops turn and packets are dispatched. (A client that   *)
(* publishes without end within a second is not held to leave it.)           *)
FairSpec ==
  /\ Spec
  /\ WF_vars(cstate # "gone" /\ ClientLoop)
  /\ WF_vars(GatewayLoop)
  /\ WF_vars(ClientHandlers)
  /\ WF_vars(GatewayHandlers)
  /\ WF_vars(Tick)
----------------------------------------------------------------------------
TypeOK ==
  /\ cstate \in {"connected", "disconnected", "gone"}
  /\ gstate \in {"connected", "disconnected", "none"}
  /\ cage \in 0 .. Limit + 1 /\ gage \in 0 .. Limit + 1 /\ gsilence \in 0 .. Limit + 1
  /\ cping \in 0 .. Duration + 1
  /\ pings \in 0 .. 5
  /\ adage \in 0 .. AdInterval + 1
  /\ gtopics \in BOOLEAN
  /\ toGateway \subseteq {"PINGREQ", "PUBLISH"}
  /\ toClient \subseteq {"PINGRESP", "PUBACK", "ADVERTISE", "DISCONNECT"}
  /\ turned \subseteq {"client", "gateway"}
  /\ mode \in Modes

(* With no loss and no failure the pings hold an idle connection for ever:   *)
(* the client pings soon enough for both sides.                              *)
Held == mode \subseteq {"dirty"} => cstate = "connected" /\ gstate = "connected"

(* "All pings will be sent timely" (mqttconnection.cpp:217): the gateway has *)
(* one before five times the keepalive have passed. Not so when it           *)
(* advertises as often as the client would ping: each advertisement resets   *)
(* the client's m_last_ping (clientmqtt.cpp:510).                            *)
PingedInTime == mode \subseteq {"dirty"} => gsilence <= Limit

(* A client gives its gateway up after exactly four pings without an answer,  *)
(* never the five of "Give 5 retries before failing" (mqttconnection.cpp:218):*)
(* a ping leaves every Duration + 1 seconds, and contact is lost after        *)
(* 5 * Duration + 1. (With a keepalive of less than 4 seconds it may be       *)
(* fewer.)                                                                    *)
FourPings == [][ClientLost => pings = 4]_vars

(* The gateway's stamp says "when did we last hear from the client"          *)
(* (mqttconnection.hpp:201): a client is lost only when none of its packets  *)
(* came for five times the keepalive.                                        *)
LostIsSilent == [][GatewayLost => gsilence > Limit]_vars

(* The same of the clients that do not publish: PINGREQ does refresh the     *)
(* stamp.                                                                    *)
LostIsIdle == [][GatewayLost /\ "publishing" \notin mode => gsilence > Limit]_vars

(* A client whose gateway has lost its record learns of it.                  *)
HalfOpenEnds ==
  cstate = "connected" /\ gstate # "connected" ~> cstate # "connected"

(* A client that has gone is timed out: the gateway "will timout if a ping   *)
(* has not been received in enough time" (README.md:81). This is not so of   *)
(* one that connected without the clean flag and has no topics: every idle   *)
(* pass of manage_connections refreshes its stamp (servermqtt.cpp:1469).     *)
CleanIsNoticed == cstate = "gone" /\ "dirty" \notin mode ~> gstate # "connected"
====
