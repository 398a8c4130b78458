---- MODULE Session ----
(* A client and its gateway over the radio. Each of their steps may come     *)
(* between any two steps of the other; mosquitto's thread is part of the     *)
(* gateway.                                                                  *)
EXTENDS ClientTopics, GatewayTopics

VARIABLE granted \* history: the names the gateway gave ids, with the ids

vars == <<clientVars, gatewayVars, radioVars, granted>>

(* What ids a record's topics give to names.                                 *)
Grants(topics) == {[name |-> topics[i].name, id |-> topics[i].id] : i \in DOMAIN topics}

Init ==
  /\ CInit
  /\ GInit
  /\ toGateway = EmptyBag
  /\ toClient = EmptyBag
  /\ granted = Grants(gtopics)

Next ==
  \/ (ClientNext \/ ClientTopicsNext) /\ UNCHANGED <<gatewayVars, granted>>
  \/ /\ GatewayNext \/ GatewayTopicsNext
     /\ granted' = granted \cup Grants(gtopics')
     /\ UNCHANGED clientVars

Spec == Init /\ [][Next]_vars

(* Both main loops call manage_connections again and again and timers run    *)
(* out. A resend counts as an attempt whether it is written or not. No       *)
(* packet has to arrive, and the client's first writes may fail for ever:    *)
(* what rests on them says so. The gateway's do not here; one that did would *)
(* hear nothing from the client either, and end the connection (GatewayLost).*)
ClientWorks == (ClientResend \/ ClientGiveUp) /\ UNCHANGED <<gatewayVars, granted>>
ClientWrites == ClientWrite(TRUE) /\ UNCHANGED <<gatewayVars, granted>>
GatewayWorks ==
  (GatewayWrite(TRUE) \/ GatewayResend \/ GatewayGiveUp) /\ UNCHANGED <<clientVars, granted>>

Fairness == WF_vars(ClientWorks) /\ WF_vars(GatewayWorks)

FairSpec == Spec /\ Fairness
----------------------------------------------------------------------------
States == {"disconnected", "connected", "asleep", "connecting"}
ToGatewayTypes == {"CONNECT", "WILLTOPIC", "WILLMSG", "PUBLISH", "PUBREL", "DISCONNECT",
                   "SEARCHGW", "REGISTER", "REGACK", "SUBSCRIBE", "PUBACK", "PUBREC", "PUBCOMP"}
ToClientTypes == {"CONNACK", "WILLTOPICREQ", "WILLMSGREQ", "DISCONNECT", "GWINFO", "PUBACK",
                  "PUBREC", "PUBCOMP", "REGISTER", "REGACK", "SUBACK", "PUBLISH", "PUBREL"}
Lives == 0 .. Budget["restart"]
MessageNumbers == 0 .. MaxMessages
Numbers == 0 .. 3 \cup Wills \cup Lives \cup MessageNumbers
Publications == [life : Lives, id : 0 .. MaxId]
AnyName == TopicNames \cup {NoName}
Packets(types) ==
  [type : types, id : 0 .. MaxId, qos : 0 .. 2, data : Numbers, tid : TopicIds, name : AnyName]
Wishes == [topic : Wills \cup {0}, message : Wills \cup {0}]

TypeOK ==
  /\ cstate \in States
  /\ cring \in Rings(ToGatewayTypes, Numbers, {0}, TopicIds, AnyName)
  /\ ctopics \in Collections(0 .. MaxId)
  /\ cwill \in Wills \cup {0}
  /\ csleep \in BOOLEAN /\ gwactive \in BOOLEAN
  /\ \A c \in Calls : made[c] \in 0 .. Budget[c]
  /\ reported \subseteq Publications
  /\ received \subseteq [topic : TopicNames, payload : Names, number : MessageNumbers]
  /\ gstate \in States \cup {"none"}
  /\ gring \in Rings(ToClientTypes, MessageNumbers, 0 .. MaxMids, TopicIds, AnyName)
  /\ gwill \in Wishes
  /\ gtopics \in Collections(0 .. MaxId)
  /\ giter \in 0 .. Len(gtopics)
  /\ gsend \in BOOLEAN
  /\ mids \in 0 .. MaxMids
  /\ waiting \subseteq [mid : 1 .. MaxMids, life : Lives, id : 0 .. MaxId]
  /\ pending \subseteq 1 .. MaxMids
  /\ brokersubs \subseteq TopicNames
  /\ messages \in MessageNumbers
  /\ handing \in [tid : TopicIds, name : AnyName, qos : 0 .. 2, number : 0 .. messages]
  /\ stored \subseteq Publications
  /\ confirmed \subseteq MessageNumbers
  /\ announced \subseteq Names
  /\ wills \subseteq Wishes
  /\ grestarts \in 0 .. MaxGatewayRestarts
  /\ BagToSet(toGateway) \subseteq Packets(ToGatewayTypes)
  /\ BagToSet(toClient) \subseteq Packets(ToClientTypes)

(* While a client is connecting, a message of the handshake is active: the   *)
(* attempt is retried and given up. ("No active connection message           *)
(* available, invalid connection state", clientmqtt.cpp:634.)                *)
ConnectPending ==
  cstate = "connecting" =>
    \E i \in Active(cring) : cring.place[i].type \in {"CONNECT", "WILLTOPIC", "WILLMSG"}

(* So it is as long as no search for a gateway is made.                      *)
ConnectPendingUnsearched == made["search"] = 0 => ConnectPending

(* While the gateway waits for a will, its request is the message that       *)
(* manage_connections works on.                                              *)
WillRequested ==
  gstate = "connecting" =>
    /\ Active(gring) # {}
    /\ gring.place[Current(gring)].type \in {"WILLTOPICREQ", "WILLMSGREQ"}

(* m_fnpublished reports success only for a publish the broker confirmed,    *)
(* whatever was lost, repeated, reordered or cleared on the way.             *)
NoFalseSuccess == reported \subseteq stored

(* A first write the client makes again and again is taken by its driver in  *)
(* the end. What the driver refuses is not counted as an attempt             *)
(* (clientmqtt.cpp:848): with a driver that waits for acknowledgements a     *)
(* client without a gateway goes on for ever.                                *)
FirstWritesTaken == WF_vars(ClientWrites)

(* Every attempt to connect then comes to an end, whatever the gateway does, *)
(* unless a search for a gateway is made (ConnectPending says why).          *)
ConnectEnds ==
  FirstWritesTaken =>
    (cstate = "connecting" ~> (cstate # "connecting" \/ made["search"] > 0))

(* Every handshake the gateway begins comes to an end, also when the client  *)
(* has gone. (A client whose first write is refused for ever may still be    *)
(* heard, and each CONNECT begins the handshake again.)                      *)
HandshakeEnds ==
  FirstWritesTaken => (gstate = "connecting" ~> gstate # "connecting")

(* A message of the gateway that has nothing to send and is next (and so     *)
(* holds back the others) is one mosquitto's thread still has an answer for. *)
AwaitsCallback ==
  (gstate = "connected" /\ Active(gring) # {}) =>
    LET m == gring.place[Current(gring)]
    IN HasContent(m) \/ m.mos \in pending \cup {w.mid : w \in waiting}

----------------------------------------------------------------------------
(* Topics.                                                                   *)

(* A topic id the client has for a name is one the gateway gave that name,   *)
(* whatever was lost, repeated or late: what an answer confirms is found by  *)
(* the message id alone. (Message ids have not wrapped, and the client's     *)
(* program has not started again.)                                           *)
NamesGranted ==
  \A i \in DOMAIN ctopics :
    ctopics[i].id > 0 => [name |-> ctopics[i].name, id |-> ctopics[i].id] \in granted

(* A topic id the client knows stands for the same name at the gateway, as   *)
(* long as both take the client for connected. ("If clean flag is set then   *)
(* remove all topics and will data", servermqtt.cpp:872, of a CONNECT that   *)
(* may have been sent before those topics were registered.)                  *)
NamesAgree ==
  (cstate = "connected" /\ gstate = "connected") =>
    \A i \in DOMAIN ctopics :
      ctopics[i].id > 0 =>
        LET j == ById(gtopics, ctopics[i].id)
        IN j # 0 /\ gtopics[j].name = ctopics[i].name

(* What the two promise of the broker's messages: a message is taken for      *)
(* delivered only after the application was given it, and that only if the    *)
(* broker handed it over.                                                     *)
Given == {r.number : r \in received}
Deliveries == INSTANCE Delivery WITH delivered <- Given
DeliverySpec == Deliveries!Spec

(* In particular, no message the gateway takes for delivered was lost.        *)
NoFalseDelivery == confirmed \subseteq Given

(* When a returning client is taken to know all its topics, each of them was *)
(* registered with it, if no message of the broker came meanwhile (the walk  *)
(* of the message callback moves the iterator the registrations use).        *)
ResumeComplete ==
  [][(gsend /\ ~gsend' /\ messages = 0 /\ gtopics' # <<>>) =>
       {gtopics[i].name : i \in {j \in DOMAIN gtopics : ~IsWildcard(gtopics[j])}}
         \subseteq announced]_vars
====
