---- MODULE Gateway ----
(* ServerMqttSn (servermqtt.cpp) and its connection record for one client:   *)
(* the work of manage_connections and the handlers on the main thread, and   *)
(* the publish callback on mosquitto's thread. m_mosquittolock is held from  *)
(* the search for the connection to the end of a handler, so each is a step; *)
(* only the message callback goes on without it (MessageTail). Where that    *)
(* end of it overlaps a handler in time is left out (GatewayLock shows that  *)
(* it may): here it comes between two of them.                               *)
(*                                                                           *)
(* Time is left out as in Client. What registers topics and delivers the     *)
(* broker's messages is in GatewayTopics.                                    *)
EXTENDS MessageRing, Radio, Topics

CONSTANTS
  Kept,              \* the topics the gateway may hold at first for a client
                     \* that was connected before
  MaxMids,           \* bound: publishes and subscriptions handed to mosquitto
  MaxMessages,       \* bound: messages the broker delivers
  MaxGatewayRestarts \* bound

ASSUME MaxMidsAssumption == MaxMids \in Nat
ASSUME MaxMessagesAssumption == MaxMessages \in Nat
ASSUME MaxGatewayRestartsAssumption == MaxGatewayRestarts \in Nat

(* What the broker holds subscriptions for, of a record's topics.            *)
SubscribedNames(topics) == {topics[i].name : i \in {j \in DOMAIN topics : topics[j].subscribed}}

(* add_topic() gives each name an id of its own, and a wildcard none.        *)
IdsApart(topics) ==
  \A i, j \in DOMAIN topics :
    /\ topics[i].id = 0 <=> IsWildcard(topics[i])
    /\ topics[i].id = topics[j].id /\ topics[i].id # 0 => i = j

ASSUME KeptAssumption ==
  /\ Kept \subseteq Collections(0 .. MaxId)
  /\ \A topics \in Kept : IdsApart(topics) /\ Cardinality(SubscribedNames(topics)) \in 0 .. MaxId

VARIABLES
  gstate,    \* the record's State, "none" while there is no record
  gring,     \* its messages
  gwill,     \* its will topic and will message, by number; 0 is empty
  gtopics,   \* its topics
  giter,     \* their iterator, see Topics
  gsend,     \* its m_sendtopics
  mids,      \* mosquitto's last message id, "mid"
  waiting,   \* publishes the broker has not confirmed, with their mid
  pending,   \* mids of the subscriptions the broker has not confirmed
  brokersubs, \* names and filters the broker has subscriptions for
  messages,  \* messages the broker delivered so far
  handing,   \* the message whose callback has lost the lock, see MessageTail
  stored,    \* history: the publishes the broker confirmed
  confirmed, \* history: the messages the client acknowledged to the gateway
  announced, \* history: names whose REGISTER was queued since the CONNECT
  wills,     \* history: the wills published, topic and message
  grestarts  \* restarts so far

(* The variables of the record's topics and of mosquitto's thread.           *)
topicVars == <<gtopics, giter, brokersubs, messages, handing, confirmed, announced>>
publishVars == <<mids, waiting, pending, stored>>
gatewayVars ==
  <<gstate, gring, gwill, gsend, topicVars, publishVars, wills, grestarts>>

NoWill == [topic |-> 0, message |-> 0]

(* Mosquitto's thread is not in the message callback. Its calls come one     *)
(* after the other.                                                          *)
NoMessage == [tid |-> 0, name |-> NoName, qos |-> 0, number |-> 0]
NotInCallback == handing = NoMessage

(* Without kept topics there is no record yet. A kept subscription took one  *)
(* message of the record's ring.                                             *)
GInit ==
  /\ gtopics \in Kept
  /\ gstate = IF gtopics = <<>> THEN "none" ELSE "disconnected"
  /\ brokersubs = SubscribedNames(gtopics)
  /\ gring = [EmptyRing EXCEPT !.last = Cardinality(brokersubs)]
  /\ gwill = NoWill
  /\ giter = 0
  /\ gsend = FALSE
  /\ mids = 0
  /\ waiting = {}
  /\ pending = {}
  /\ messages = 0
  /\ handing = NoMessage
  /\ stored = {}
  /\ confirmed = {}
  /\ announced = {}
  /\ wills = {}
  /\ grestarts = 0

----------------------------------------------------------------------------
(* The handlers. Each takes a packet of its type from the queue and may      *)
(* write an answer.                                                          *)
ToGateway(type) == {p \in BagToSet(toGateway) : p.type = type}
Take(p) == toGateway' = Without(toGateway, p)
Answer(p) == toClient' \in Written(toClient, p)
Plain(type) == Packet(type, 0, 0, 0)

(* search_connection_address finds the record.                               *)
Registered == gstate \notin {"none", "disconnected"}

(* A client without a record is told to disconnect.                          *)
TurnAway ==
  /\ ~Registered
  /\ Answer(Plain("DISCONNECT"))
  /\ UNCHANGED gatewayVars

(* The clean flag frees the topics.                                          *)
TopicsAfter(clean) == IF clean THEN <<>> ELSE gtopics

(* A message callback that is to send one of them then reads its id in freed *)
(* memory, where anything may be.                                            *)
HandingAfter(clean) ==
  IF clean /\ ~NotInCallback THEN {[handing EXCEPT !.tid = tid] : tid \in TopicIds}
                             ELSE {handing}

(* A record found by its client id, also a disconnected one, is used again.  *)
(* Without the clean flag it keeps its will and its topics, which the client *)
(* is then told. With the will flag the handshake begins; otherwise the      *)
(* client is connected at once.                                              *)
ReceiveConnect ==
  /\ \E p \in ToGateway("CONNECT") :
       /\ Take(p)
       /\ gsend' = (p.data \div 2 = 0)
       /\ gtopics' = TopicsAfter(p.data \div 2 = 1)
       /\ handing' \in HandingAfter(p.data \div 2 = 1)
       /\ giter' = IF p.data \div 2 = 1 THEN 0 ELSE giter
       /\ gwill' = IF p.data \div 2 = 1 THEN NoWill ELSE gwill
       /\ IF p.data % 2 = 1
          THEN /\ gring' = AddWith(Cleared(gring), "willtopic", "WILLTOPICREQ", 0)
               /\ gstate' = "connecting"
               /\ UNCHANGED toClient
          ELSE /\ gring' = Cleared(gring)
               /\ gstate' = "connected"
               /\ Answer(Plain("CONNACK"))
  /\ announced' = {}
  /\ UNCHANGED <<publishVars, brokersubs, messages, confirmed, wills, grestarts>>

(* With an empty topic (which set_will_topic takes for an empty message too) *)
(* the handshake ends here. The state is not looked at.                      *)
ReceiveWilltopic ==
  \E p \in ToGateway("WILLTOPIC") :
    /\ Take(p)
    /\ \/ TurnAway
       \/ /\ Registered
          /\ Active(gring) = {}
          /\ gring' = Looked(gring)
          /\ UNCHANGED <<toClient, gstate, gwill, gsend, topicVars, publishVars, wills, grestarts>>
       \/ /\ Registered
          /\ Active(gring) # {}
          /\ IF p.data = 0
             THEN /\ gwill' = NoWill
                  /\ gstate' = "connected"
                  /\ gring' = Deactivate(Looked(gring), Current(gring))
                  /\ Answer(Plain("CONNACK"))
             ELSE /\ gwill' = [gwill EXCEPT !.topic = p.data]
                  /\ gring' = [Looked(gring) EXCEPT !.place[Current(gring)] =
                                 ReplaceWith(@, "WILLMSGREQ", 0, "willmessage")]
                  /\ UNCHANGED <<gstate, toClient>>
          /\ UNCHANGED <<gsend, topicVars, publishVars, wills, grestarts>>

ReceiveWillmsg ==
  \E p \in ToGateway("WILLMSG") :
    /\ Take(p)
    /\ \/ TurnAway
       \/ /\ Registered
          /\ Active(gring) = {}
          /\ gring' = Looked(gring)
          /\ UNCHANGED <<toClient, gstate, gwill, gsend, topicVars, publishVars, wills, grestarts>>
       \/ /\ Registered
          /\ Active(gring) # {}
          /\ gring' = Deactivate(Looked(gring), Current(gring))
          /\ gwill' = [gwill EXCEPT !.message = p.data]
          /\ gstate' = "connected"
          /\ Answer(Plain("CONNACK"))
          /\ UNCHANGED <<gsend, topicVars, publishVars, wills, grestarts>>

(* An unknown client is ignored. The messages stay in the ring.              *)
ReceiveDisconnect ==
  /\ \E p \in ToGateway("DISCONNECT") :
       /\ Take(p)
       /\ IF Registered
          THEN /\ gstate' = IF p.data = 1 THEN "asleep" ELSE "disconnected"
               /\ Answer(Plain("DISCONNECT"))
          ELSE UNCHANGED <<gstate, toClient>>
  /\ UNCHANGED <<gring, gwill, gsend, topicVars, publishVars, wills, grestarts>>

(* m_broker_connected holds: a gateway without its broker stays silent, a    *)
(* packet lost.                                                              *)
ReceiveSearchgw ==
  /\ \E p \in ToGateway("SEARCHGW") : Take(p)
  /\ Answer(Plain("GWINFO"))
  /\ UNCHANGED gatewayVars

(* The topic a PUBLISH has, by its id, or else its short topic.              *)
Unknown(p) == p.tid > 0 /\ ById(gtopics, p.tid) = 0

(* mosquitto_publish() takes the publish and gives it a mid, or fails.       *)
Accept(p) ==
  /\ mids < MaxMids
  /\ mids' = mids + 1
  /\ waiting' = waiting \cup {[mid |-> mids', life |-> p.data, id |-> p.id]}

(* server_publish: a message with the client's id and the mid waits for the  *)
(* callback; it has no content.                                              *)
Forward(p) ==
  /\ ~Unknown(p)
  /\ CanAdd(gring)
  /\ Accept(p)
  /\ LET a == Add(gring, "publishing") IN
       gring' = [a EXCEPT !.place[a.tail] =
                   [@ EXCEPT !.mos = mids', !.qos = p.qos,
                             !.id = p.id, !.ext = TRUE]]
  /\ UNCHANGED <<pending, stored, toClient>>

(* With a full ring, or when mosquitto_publish fails, the client is told of  *)
(* congestion, whatever the QoS; of an unknown topic before anything else.   *)
Refuse(p) ==
  /\ gring' = IF CanAdd(gring) /\ ~Unknown(p)
              THEN Deactivate(Add(gring, "publishing"), AddedAt(gring))
              ELSE gring
  /\ Answer(Packet("PUBACK", p.id, 0, IF Unknown(p) THEN 2 ELSE 1))
  /\ UNCHANGED publishVars

ReceivePublish ==
  \E p \in ToGateway("PUBLISH") :
    /\ Take(p)
    /\ \/ TurnAway
       \/ /\ Registered
          /\ Forward(p) \/ Refuse(p)
          /\ UNCHANGED <<gstate, gwill, gsend, topicVars, wills, grestarts>>

(* The message is complete; the answer is PUBCOMP also when it was already.  *)
ReceivePubrel ==
  \E p \in ToGateway("PUBREL") :
    /\ Take(p)
    /\ \/ TurnAway
       \/ /\ Registered
          /\ IF Matches(gring, p.id, TRUE) = {}
             THEN UNCHANGED <<gring, toClient>>
             ELSE /\ gring' = Deactivate(gring, Found(gring, p.id, TRUE))
                  /\ Answer(Packet("PUBCOMP", p.id, 0, 0))
          /\ UNCHANGED <<gstate, gwill, gsend, topicVars, publishVars, wills, grestarts>>

GatewayHandler ==
  \/ ReceiveConnect
  \/ ReceiveWilltopic
  \/ ReceiveWillmsg
  \/ ReceiveDisconnect
  \/ ReceiveSearchgw
  \/ ReceivePublish
  \/ ReceivePubrel

----------------------------------------------------------------------------
(* Changed: QoS 1 is answered and its message stays. *)
MutantConfirm(i) ==
  LET m == gring.place[i]
  IN CASE m.qos = 0 -> gring' = Deactivate(gring, i) /\ UNCHANGED toClient
       [] m.qos = 1 -> UNCHANGED gring /\ Answer(Packet("PUBACK", m.id, 0, 0))
       [] m.qos = 2 -> UNCHANGED toClient /\ gring' = [gring EXCEPT !.place[i].type = "PUBREC"]

(* The message at place i is done, or becomes the next packet of QoS 2.      *)
Confirm(i) ==
  LET m == gring.place[i]
  IN CASE m.qos = 0 -> gring' = Deactivate(gring, i) /\ UNCHANGED toClient
       [] m.qos = 1 -> gring' = Deactivate(gring, i) /\ Answer(Packet("PUBACK", m.id, 0, 0))
       [] m.qos = 2 -> UNCHANGED toClient /\ gring' = [gring EXCEPT !.place[i].type = "PUBREC"]

(* gateway_publish_callback, on mosquitto's thread: the broker confirmed a   *)
(* publish. search_mosquitto_id looks at connected records only: otherwise   *)
(* the client hears nothing of it.                                           *)
PublishCallback ==
  /\ NotInCallback
  /\ \E w \in waiting :
       /\ waiting' = waiting \ {w}
       /\ stored' = stored \cup {[life |-> w.life, id |-> w.id]}
       /\ IF gstate = "connected" /\ MosMatches(gring, w.mid) # {}
          THEN Confirm(Lowest(MosMatches(gring, w.mid)))
          ELSE UNCHANGED <<gring, toClient>>
  /\ UNCHANGED <<gstate, gwill, gsend, topicVars, mids, pending, wills,
                 grestarts, toGateway>>

----------------------------------------------------------------------------
(* manage_connections, up to its call of dispatch_queue. It does nothing for *)
(* a record that is neither connected nor connecting.                        *)
Managed == gstate \in {"connected", "connecting"}

(* lost_contact(): the client is told, and its will is published if it has   *)
(* a topic (send_will).                                                      *)
GatewayLost ==
  /\ Managed
  /\ gstate' = "disconnected"
  /\ Answer(Plain("DISCONNECT"))
  /\ gring' = Cleared(gring)
  /\ wills' = wills \cup (IF gwill.topic = 0 THEN {} ELSE {gwill})
  /\ UNCHANGED <<gwill, gsend, topicVars, publishVars, grestarts, toGateway>>

ToSend == Managed /\ Active(gring) # {} /\ HasContent(gring.place[Current(gring)])

(* The packet in the cache of a message.                                     *)
Resent(m) ==
  PacketAbout(m.type, IF m.type \in {"WILLTOPICREQ", "WILLMSGREQ"} THEN 0 ELSE m.id,
              IF m.type = "PUBLISH" THEN m.qos ELSE 0, m.data,
              IF m.type \in {"PUBLISH", "REGISTER", "SUBACK"} THEN m.tid ELSE 0, m.name)

GatewayWrite(succeeds) ==
  /\ ToSend
  /\ LET i == Current(gring)
         m == gring.place[i]
     IN /\ ~m.sent
        /\ Answer(Resent(m))
        /\ gring' = [Looked(gring) EXCEPT !.place[i] = IF succeeds THEN Sending(m) ELSE m]
  /\ UNCHANGED <<gstate, gwill, gsend, topicVars, publishVars, wills, grestarts, toGateway>>

GatewayResend ==
  /\ ToSend
  /\ LET i == Current(gring)
         m == Expired(gring.place[i])
     IN /\ m.sent
        /\ ~HasFailed(m)
        /\ Answer(Resent(m))
        /\ gring' = [Looked(gring) EXCEPT !.place[i] = m]
  /\ UNCHANGED <<gstate, gwill, gsend, topicVars, publishVars, wills, grestarts, toGateway>>

(* Changed: a handshake that fails leaves the connection as it is. *)
MutantHandshakeLeft ==
  /\ ToSend
  /\ LET i == Current(gring)
         m == Expired(gring.place[i])
     IN /\ m.sent
        /\ HasFailed(m)
        /\ gring' = [Looked(gring) EXCEPT !.place[i] = [m EXCEPT !.active = FALSE]]
  /\ UNCHANGED <<gstate, gwill, gsend, topicVars, publishVars, wills, grestarts, radioVars>>

(* A handshake that fails ends the connection.                               *)
GatewayGiveUp ==
  /\ ToSend
  /\ LET i == Current(gring)
         m == Expired(gring.place[i])
     IN /\ m.sent
        /\ HasFailed(m)
        /\ IF m.activity \in {"willtopic", "willmessage"}
           THEN gstate' = "disconnected" /\ gring' = Cleared(gring)
           ELSE /\ gring' = [Looked(gring) EXCEPT !.place[i] = [m EXCEPT !.active = FALSE]]
                /\ UNCHANGED gstate
  /\ UNCHANGED <<gwill, gsend, topicVars, publishVars, wills, grestarts, radioVars>>

(* register_topic(), of the topic at place i.                                *)
RegisterTopic(r, i, all) ==
  IF gstate' = "connected" /\ CanAdd(r)
  THEN /\ gring' = AddAbout(r, IF all THEN "registeringall" ELSE "registering", "REGISTER",
                            gtopics'[i].id, gtopics'[i].name, 0, KeptQos(r), FALSE)
       /\ announced' = announced \cup {gtopics'[i].name}
  ELSE gring' = r /\ UNCHANGED announced

(* The active message has no content, or there is none: a client that came   *)
(* back is told of its topics one by one, beginning with the first that is   *)
(* not a wildcard (complete_client_connection).                              *)
GatewayIdle ==
  /\ Managed
  /\ ~ToSend
  /\ UNCHANGED <<gtopics, brokersubs, messages, handing, confirmed>>
  /\ IF gsend
     THEN /\ gstate' = "connected"
          /\ giter' = FirstNamed(gtopics, 1)
          /\ IF giter' = 0 THEN gring' = Looked(gring) /\ UNCHANGED announced
             ELSE RegisterTopic(Looked(gring), giter', TRUE)
     ELSE gring' = Looked(gring) /\ UNCHANGED <<gstate, giter, announced>>
  /\ UNCHANGED <<gwill, gsend, publishVars, wills, grestarts, radioVars>>

GatewayManage ==
  \/ GatewayLost
  \/ GatewayWrite(TRUE)
  \/ GatewayWrite(FALSE)
  \/ GatewayResend
  \/ GatewayGiveUp
  \/ GatewayIdle

(* The gateway's program starts again, without any record; what mosquitto    *)
(* had queued is gone. The broker keeps the subscriptions (the gateway's own *)
(* session is not a clean one).                                              *)
GatewayRestart ==
  /\ grestarts < MaxGatewayRestarts
  /\ grestarts' = grestarts + 1
  /\ gstate' = "none"
  /\ gring' = EmptyRing
  /\ gwill' = NoWill
  /\ gtopics' = <<>>
  /\ giter' = 0
  /\ gsend' = FALSE
  /\ waiting' = {}
  /\ pending' = {}
  /\ handing' = NoMessage
  /\ announced' = {}
  /\ toGateway' = EmptyBag
  /\ mids' = 0
  /\ UNCHANGED <<brokersubs, messages, stored, confirmed, wills, toClient>>

GatewayNext ==
  \/ GatewayHandler
  \/ PublishCallback
  \/ GatewayManage
  \/ GatewayRestart
====
