---- MODULE Client ----
(* ClientMqttSn (clientmqtt.cpp) and its one gateway: the calls of the       *)
(* application, the work of manage_connections and the handlers that         *)
(* dispatch_queue calls. All of it runs on the main thread.                  *)
(*                                                                           *)
(* Time is left out: contact may be lost and a timer may run out at any      *)
(* moment, so the pings and activity stamps that decide when are left out    *)
(* too. What registers topics and receives publishes is in ClientTopics.     *)
EXTENDS MessageRing, Radio, Topics

CONSTANTS
  Flags,     \* the CONNECT flags the application uses, see WillFlag, CleanFlag
  Wills,     \* the wills it sets (topic and message), by number; 0 is no will
  Qualities, \* the QoS levels it publishes with
  Budget,    \* bound: how many calls of each kind a behaviour has
  MaxCalls   \* bound: how many calls it has in all

Calls == {"connect", "publish", "disconnect", "search", "restart", "register", "subscribe"}

ASSUME FlagsAssumption == Flags \subseteq 0 .. 3
ASSUME WillsAssumption == Wills \subseteq Nat
ASSUME QualitiesAssumption == Qualities \subseteq 0 .. 2
ASSUME BudgetAssumption == Budget \in [Calls -> Nat]
ASSUME MaxCallsAssumption == MaxCalls \in Nat

VARIABLES
  cstate,   \* State of m_client_connection
  cring,    \* its messages
  ctopics,  \* its topics
  cwill,    \* its will topic and will message
  csleep,   \* m_sleep_duration # 0
  gwactive, \* the gateway is known to m_gwinfo and active
  made,     \* the calls made so far
  reported, \* history: the publishes m_fnpublished reported as successful
  received  \* history: the publishes m_fnmessage was given

clientVars == <<cstate, cring, ctopics, cwill, csleep, gwactive, made, reported, received>>

(* FLAG_WILL is worth 1 here, FLAG_CLEANSESSION 2.                           *)
WillFlag(flags) == flags % 2 = 1
CleanFlag(flags) == flags \div 2 = 1

(* A publish is named by its message id and the run of the client's program. *)
Publication(life, id) == [life |-> life, id |-> id]

CInit ==
  /\ cstate = "disconnected"
  /\ cring = EmptyRing
  /\ ctopics = <<>>
  /\ cwill = 0
  /\ csleep = FALSE
  /\ gwactive \in BOOLEAN
  /\ made = [c \in Calls |-> 0]
  /\ reported = {}
  /\ received = {}

CallsMade ==
  made["connect"] + made["publish"] + made["disconnect"] + made["search"]
    + made["restart"] + made["register"] + made["subscribe"]

Count(c) ==
  /\ made[c] < Budget[c]
  /\ CallsMade < MaxCalls
  /\ made' = [made EXCEPT ![c] = @ + 1]

----------------------------------------------------------------------------
(* Calls of the application.                                                 *)

(* set_willtopic and set_willmessage, then connect().                        *)
Connect ==
  /\ Count("connect")
  /\ gwactive
  /\ \E flags \in Flags, w \in Wills :
       /\ cwill' = w
       /\ cring' = AddWith(Cleared(cring),
                           IF WillFlag(flags) THEN "willtopic" ELSE "none",
                           "CONNECT", flags)
  /\ cstate' = "connecting"
  /\ ctopics' = <<>>
  /\ UNCHANGED <<csleep, gwactive, reported, received, radioVars>>

(* disconnect(), with a sleep duration or without.                           *)
Disconnect ==
  /\ Count("disconnect")
  /\ cstate \notin {"disconnected", "asleep"}
  /\ CanAdd(cring)
  /\ \E sleep \in {0, 1} :
       /\ csleep' = (sleep = 1)
       /\ cring' = AddWith(cring, "disconnecting", "DISCONNECT", sleep)
  /\ UNCHANGED <<cstate, ctopics, cwill, gwactive, reported, received, radioVars>>

(* The topic id of a publish: 0 for a short topic, or one the client was told. *)
Subjects == {0} \cup {ctopics[i].id : i \in DOMAIN ctopics}

Publish ==
  /\ Count("publish")
  /\ cstate = "connected"
  /\ CanAdd(cring)
  /\ \E qos \in Qualities, tid \in Subjects :
       cring' = AddAbout(cring, "publishing", "PUBLISH", tid, NoName, made["restart"], qos,
                         qos = 0)
  /\ UNCHANGED <<cstate, ctopics, cwill, csleep, gwactive, reported, received, radioVars>>

Searchgw ==
  /\ Count("search")
  /\ CanAdd(cring)
  /\ cring' = AddWith(cring, "searching", "SEARCHGW", 0)
  /\ UNCHANGED <<cstate, ctopics, cwill, csleep, gwactive, reported, received, radioVars>>

(* The program starts again: nothing it kept survives, message ids begin     *)
(* again at 1. It may know its gateway from the start (add_gateway).         *)
ClientRestart ==
  /\ Count("restart")
  /\ cstate' = "disconnected"
  /\ cring' = EmptyRing
  /\ ctopics' = <<>>
  /\ cwill' = 0
  /\ csleep' = FALSE
  /\ gwactive' \in BOOLEAN
  /\ toClient' = EmptyBag
  /\ UNCHANGED <<reported, received, toGateway>>

----------------------------------------------------------------------------
(* manage_connections, up to its call of dispatch_queue.                     *)

(* manage_gw_connection: contact was lost. set_active(false) does nothing to *)
(* a permanent gateway.                                                      *)
ClientLost ==
  /\ cstate = "connected"
  /\ cstate' = "disconnected"
  /\ cring' = Cleared(cring)
  /\ ctopics' = <<>>
  /\ gwactive' \in {gwactive, FALSE}
  /\ UNCHANGED <<cwill, csleep, made, reported, received, radioVars>>

(* The packet in the cache of a message: those that carry its id, and what   *)
(* else is in them.                                                          *)
Numbered == {"PUBLISH", "PUBREL", "PUBREC", "REGISTER", "SUBSCRIBE"}
Cached(m) ==
  PacketAbout(m.type, IF m.type \in Numbered THEN m.id ELSE 0,
              IF m.type \in {"PUBLISH", "SUBSCRIBE"} THEN m.qos ELSE 0, m.data,
              IF m.type = "PUBLISH" THEN m.tid ELSE 0, m.name)

(* The first write of the active message; one that fails is tried again.     *)
ClientWrite(succeeds) ==
  /\ Active(cring) # {}
  /\ LET i == Current(cring)
         m == cring.place[i]
     IN /\ HasContent(m)
        /\ ~m.sent
        /\ toGateway' \in Written(toGateway, Cached(m))
        /\ cring' = [Looked(cring) EXCEPT !.place[i] = IF succeeds THEN Sending(m) ELSE m]
  /\ UNCHANGED <<cstate, ctopics, cwill, csleep, gwactive, made, reported, received, toClient>>

(* has_expired(): the message is written again ...                           *)
ClientResend ==
  /\ Active(cring) # {}
  /\ LET i == Current(cring)
         m == Expired(cring.place[i])
     IN /\ m.sent
        /\ ~HasFailed(m)
        /\ toGateway' \in Written(toGateway, Cached(m))
        /\ cring' = [Looked(cring) EXCEPT !.place[i] = m]
  /\ UNCHANGED <<cstate, ctopics, cwill, csleep, gwactive, made, reported, received, toClient>>

(* Changed: the connection attempt is not ended. *)
MutantGiveUpQuietly ==
  /\ Active(cring) # {}
  /\ LET i == Current(cring)
         m == Expired(cring.place[i])
     IN /\ m.sent
        /\ HasFailed(m)
        /\ cring' = [Looked(cring) EXCEPT !.place[i] = [m EXCEPT !.active = FALSE]]
  /\ UNCHANGED <<cstate, ctopics, cwill, csleep, gwactive, made, reported, received, radioVars>>

(* ... or given up, with what that means for the connection.                 *)
ClientGiveUp ==
  /\ Active(cring) # {}
  /\ LET i == Current(cring)
         m == Expired(cring.place[i])
     IN /\ m.sent
        /\ HasFailed(m)
        /\ cring' = [Looked(cring) EXCEPT !.place[i] = [m EXCEPT !.active = FALSE]]
        /\ cstate' = IF \/ cstate = "connecting"
                        \/ cstate = "connected" /\ m.activity = "disconnecting"
                     THEN "disconnected" ELSE cstate
  /\ UNCHANGED <<ctopics, cwill, csleep, gwactive, made, reported, received, radioVars>>

(* No active message.                                                        *)
ClientIdle ==
  /\ Active(cring) = {}
  /\ cring' = Looked(cring)
  /\ UNCHANGED <<cstate, ctopics, cwill, csleep, gwactive, made, reported, received, radioVars>>

ClientManage ==
  \/ ClientLost
  \/ ClientWrite(TRUE)
  \/ ClientWrite(FALSE)
  \/ ClientResend
  \/ ClientGiveUp
  \/ ClientIdle

----------------------------------------------------------------------------
(* The handlers. Each takes a packet of its type from the queue.             *)
ToClient(type) == {p \in BagToSet(toClient) : p.type = type}

ClientTakes(p) ==
  /\ toClient' = Without(toClient, p)
  /\ UNCHANGED <<toGateway, made, cwill>>

(* The handlers of a connection in progress ask for the active message; with *)
(* none the connection ends. (received_connack then returns with m_mqttlock  *)
(* taken, which stops the driver's thread: to the gateway, packets that are  *)
(* lost.) The gateway's only return code is ACCEPTED.                        *)
NoActiveMessage ==
  /\ Active(cring) = {}
  /\ cring' = Looked(cring)
  /\ cstate' = "disconnected"

ReceiveConnack ==
  /\ \E p \in ToClient("CONNACK") : ClientTakes(p)
  /\ \/ cstate # "connecting" /\ UNCHANGED <<cstate, cring>>
     \/ cstate = "connecting" /\ NoActiveMessage
     \/ /\ cstate = "connecting"
        /\ Active(cring) # {}
        /\ cstate' = "connected"
        /\ cring' = Cleared(cring)
  /\ UNCHANGED <<ctopics, csleep, gwactive, reported, received>>

(* received_willtopicreq and received_willmsgreq: the active message, which  *)
(* is taken for the CONNECT, becomes the answer.                             *)
AnswerWith(type, activity) ==
  \/ cstate # "connecting" /\ UNCHANGED <<cstate, cring>>
  \/ cstate = "connecting" /\ NoActiveMessage
  \/ /\ cstate = "connecting"
     /\ Active(cring) # {}
     /\ cring' = [Looked(cring) EXCEPT
                    !.place[Current(cring)] = ReplaceWith(@, type, cwill, activity)]
     /\ UNCHANGED cstate

ReceiveWilltopicreq ==
  /\ \E p \in ToClient("WILLTOPICREQ") : ClientTakes(p)
  /\ AnswerWith("WILLTOPIC", "willtopic")
  /\ UNCHANGED <<ctopics, csleep, gwactive, reported, received>>

ReceiveWillmsgreq ==
  /\ \E p \in ToClient("WILLMSGREQ") : ClientTakes(p)
  /\ AnswerWith("WILLMSG", "willmessage")
  /\ UNCHANGED <<ctopics, csleep, gwactive, reported, received>>

(* A DISCONNECT is the answer to ours when a disconnect message is active.   *)
Disconnecting ==
  /\ Active(cring) # {}
  /\ cring.place[Current(cring)].activity = "disconnecting"

ReceiveClientDisconnect ==
  /\ \E p \in ToClient("DISCONNECT") : ClientTakes(p)
  /\ cstate' = IF Disconnecting /\ csleep THEN "asleep" ELSE "disconnected"
  /\ csleep' = (Disconnecting /\ csleep)
  /\ ctopics' = <<>>
  /\ cring' = Cleared(cring)
  /\ UNCHANGED <<gwactive, reported, received>>

ReceiveGwinfo ==
  /\ \E p \in ToClient("GWINFO") : ClientTakes(p)
  /\ cring' = IF Active(cring) = {} THEN Looked(cring)
              ELSE Deactivate(Looked(cring), Current(cring))
  /\ gwactive' = TRUE
  /\ UNCHANGED <<cstate, ctopics, csleep, reported, received>>

(* Changed: the return code is not looked at. *)
MutantReportAll(success, id) ==
  reported' = reported \cup {Publication(made["restart"], id)}

(* What m_fnpublished says of a message.                                     *)
Report(success, id) ==
  reported' = reported \cup
                (IF success THEN {Publication(made["restart"], id)} ELSE {})

ReceivePuback ==
  /\ \E p \in ToClient("PUBACK") :
       /\ ClientTakes(p)
       /\ IF Matches(cring, p.id, FALSE) = {}
          THEN UNCHANGED <<cring, reported>>
          ELSE /\ cring' = Deactivate(cring, Found(cring, p.id, FALSE))
               /\ Report(p.data = 0, p.id)
  /\ UNCHANGED <<cstate, ctopics, csleep, gwactive, received>>

(* received_pubrec and received_pubcomp act on a message of QoS 2 only.      *)
FoundQos2(id) ==
  /\ Matches(cring, id, FALSE) # {}
  /\ cring.place[Found(cring, id, FALSE)].qos = 2

ReceivePubrec ==
  /\ \E p \in ToClient("PUBREC") :
       /\ ClientTakes(p)
       /\ cring' = IF cstate = "connected" /\ FoundQos2(p.id)
                   THEN [cring EXCEPT !.place[Found(cring, p.id, FALSE)] =
                           ReplaceWith(@, "PUBREL", 0, "publishing")]
                   ELSE cring
  /\ UNCHANGED <<cstate, ctopics, csleep, gwactive, reported, received>>

ReceivePubcomp ==
  /\ \E p \in ToClient("PUBCOMP") :
       /\ ClientTakes(p)
       /\ IF FoundQos2(p.id)
          THEN /\ cring' = Deactivate(cring, Found(cring, p.id, FALSE))
               /\ Report(TRUE, p.id)
          ELSE UNCHANGED <<cring, reported>>
  /\ UNCHANGED <<cstate, ctopics, csleep, gwactive, received>>

ClientHandler ==
  \/ ReceiveConnack
  \/ ReceiveWilltopicreq
  \/ ReceiveWillmsgreq
  \/ ReceiveClientDisconnect
  \/ ReceiveGwinfo
  \/ ReceivePuback
  \/ ReceivePubrec
  \/ ReceivePubcomp

ClientNext ==
  \/ Connect
  \/ Disconnect
  \/ Publish
  \/ Searchgw
  \/ ClientRestart
  \/ ClientManage
  \/ ClientHandler
====
