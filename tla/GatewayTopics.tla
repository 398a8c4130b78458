---- MODULE GatewayTopics ----
(* ServerMqttSn (servermqtt.cpp), second part: topics are registered and      *)
(* subscribed to, and the broker's messages are delivered. Predefined and     *)
(* short topics are left out of subscriptions.                                *)
EXTENDS Gateway

(* A handler for a packet p of a registered client.                           *)
Handle(type, Handler(_)) ==
  \E p \in ToGateway(type) :
    /\ Take(p)
    /\ TurnAway \/ (Registered /\ Handler(p))

(* received_register: the topic is added, or it is there.                     *)
ReceiveTopic ==
  /\ Handle("REGISTER", LAMBDA p :
       /\ gtopics' = AddTopic(gtopics, p.name, p.id)
       /\ Answer(PacketAbout("REGACK", p.id, 0, 0, gtopics'[ByName(gtopics', p.name)].id, ""))
       /\ UNCHANGED <<gring, gsend, giter, announced, confirmed, mids, pending, brokersubs>>)

(* mosquitto_subscribe() takes the subscription: a message without content    *)
(* waits for the callback.                                                    *)
SubscribeTo(p, topics, i) ==
  /\ mids < MaxMids
  /\ mids' = mids + 1
  /\ brokersubs' = brokersubs \cup {p.name}
  /\ gtopics' = [topics EXCEPT ![i].qos = p.qos, ![i].subscribed = TRUE]
  /\ IF CanAdd(gring)
     THEN /\ pending' = pending \cup {mids'}
          /\ LET a == Add(gring, "subscribing") IN
               gring' = [a EXCEPT !.place[a.tail] =
                           [@ EXCEPT !.tid = topics[i].id, !.id = p.id, !.ext = TRUE,
                                     !.qos = p.qos, !.mos = mids', !.oneshot = TRUE]]
          /\ UNCHANGED toClient
     ELSE /\ Answer(Packet("SUBACK", p.id, 0, 1))
          /\ UNCHANGED <<pending, gring>>

(* It fails, for want of a connection or because of the name.                 *)
SubscribeFails(p, topics, i) ==
  /\ gtopics' = [topics EXCEPT ![i].qos = p.qos]
  /\ \E code \in {1, 2} : Answer(Packet("SUBACK", p.id, 0, code))
  /\ UNCHANGED <<mids, brokersubs, pending, gring>>

(* received_subscribe. A topic that is subscribed to is confirmed at once.    *)
ReceiveSubscribe ==
  /\ Handle("SUBSCRIBE", LAMBDA p :
       LET topics == AddTopic(gtopics, p.name, p.id)
           i == ByName(topics, p.name)
       IN /\ IF topics[i].subscribed
             THEN /\ Answer(PacketAbout("SUBACK", p.id, 0, 0, topics[i].id, ""))
                  /\ gtopics' = topics
                  /\ UNCHANGED <<mids, brokersubs, pending, gring>>
             ELSE SubscribeTo(p, topics, i) \/ SubscribeFails(p, topics, i)
          /\ UNCHANGED <<gsend, giter, announced, confirmed>>)

(* Changed: the iterator is moved before the loop, too. *)
MutantFollowing(topics, i) == FirstNamed(topics, NextTopic(topics, NextTopic(topics, i)))

(* The next topic to register, as received_regack finds it.                   *)
Following(topics, i) == FirstNamed(topics, NextTopic(topics, i))

(* received_regack: the next of a returning client's topics is registered;    *)
(* after the last one it is done. Whether there was room is not looked at.    *)
ReceiveTopicAck ==
  /\ Handle("REGACK", LAMBDA p :
       /\ UNCHANGED <<toClient, gtopics, confirmed, mids, pending, brokersubs>>
       /\ IF Matches(gring, p.id, FALSE) = {}
          THEN UNCHANGED <<gring, gsend, giter, announced>>
          ELSE LET r == Deactivate(gring, Found(gring, p.id, FALSE)) IN
               IF gstate = "connected" /\ gsend
               THEN /\ giter' = Following(gtopics, giter)
                    /\ gsend' = (giter' # 0)
                    /\ IF giter' = 0 THEN gring' = r /\ UNCHANGED announced
                       ELSE gstate' = gstate /\ RegisterTopic(r, giter', TRUE)
               ELSE gring' = r /\ UNCHANGED <<gsend, giter, announced>>)

----------------------------------------------------------------------------
(* The broker's messages. A message is known by its number.                   *)
Acknowledged(m) == IF m.data = 0 THEN confirmed ELSE confirmed \cup {m.data}

(* received_puback: any return code completes the message.                    *)
ReceiveDelivered ==
  /\ Handle("PUBACK", LAMBDA p :
       /\ IF Matches(gring, p.id, FALSE) = {}
          THEN UNCHANGED <<gring, confirmed>>
          ELSE LET i == Found(gring, p.id, FALSE) IN
               /\ gring' = Deactivate(gring, i)
               /\ confirmed' = IF p.data = 0 THEN Acknowledged(gring.place[i]) ELSE confirmed
       /\ UNCHANGED <<toClient, gsend, gtopics, giter, announced, mids, pending, brokersubs>>)

(* received_pubrec: the message becomes its PUBREL.                           *)
ReceiveRecorded ==
  /\ Handle("PUBREC", LAMBDA p :
       /\ gring' = IF Matches(gring, p.id, FALSE) = {} THEN gring
                   ELSE [gring EXCEPT !.place[Found(gring, p.id, FALSE)] =
                           ReplaceWith(@, "PUBREL", @.data, "publishing")]
       /\ UNCHANGED <<toClient, gsend, gtopics, giter, announced, confirmed, mids, pending,
                      brokersubs>>)

ReceiveCompleted ==
  /\ Handle("PUBCOMP", LAMBDA p :
       /\ IF Matches(gring, p.id, FALSE) = {}
          THEN UNCHANGED <<gring, confirmed>>
          ELSE LET i == Found(gring, p.id, FALSE) IN
               /\ gring' = Deactivate(gring, i)
               /\ confirmed' = Acknowledged(gring.place[i])
       /\ UNCHANGED <<toClient, gsend, gtopics, giter, announced, mids, pending, brokersubs>>)

GatewayTopicsHandler ==
  /\ \/ ReceiveTopic
     \/ ReceiveSubscribe
     \/ ReceiveTopicAck
     \/ ReceiveDelivered
     \/ ReceiveRecorded
     \/ ReceiveCompleted
  /\ UNCHANGED <<gstate, gwill, messages, handing, waiting, stored, wills, grestarts>>

----------------------------------------------------------------------------
(* Mosquitto's thread.                                                        *)

(* Changed: the client is not answered. *)
MutantAnswered(r, mid) == r

(* gateway_subscribe_callback: the message that waited becomes the SUBACK.    *)
Answered(r, mid) ==
  IF gstate = "connected" /\ MosMatches(r, mid) # {}
  THEN [r EXCEPT !.place[Lowest(MosMatches(r, mid))].type = "SUBACK"] ELSE r

SubscribeCallback ==
  /\ NotInCallback
  /\ \E mid \in pending :
       /\ pending' = pending \ {mid}
       /\ gring' = Answered(gring, mid)
  /\ UNCHANGED <<gstate, gwill, gsend, topicVars, mids, waiting, stored, wills,
                 grestarts, radioVars>>

(* do_publish_topic(), from add_message() on; without a place the message is  *)
(* lost. A message of QoS 0 has no set_qos(): "qos" are the flags in the      *)
(* cache, and its m_qos is never read.                                        *)
Delivery(r, tid, name, qos, number) ==
  IF CanAdd(r) THEN AddAbout(r, "publishing", "PUBLISH", tid, name, number, qos, qos = 0)
  ELSE r

(* For a topic with an id, or a name that has one, this is done at once.      *)
DeliverKnown(i, name, qos) ==
  /\ gring' = Delivery(gring, gtopics[i].id, name, qos, messages')
  /\ UNCHANGED <<gtopics, announced, handing>>

(* Otherwise a wildcard brought the message: the name gets a topic and an id, *)
(* which the client is told first. register_topic(), with the lock taken for  *)
(* the second time, releases it: the rest is MessageTail.                     *)
DeliverNew(name, qos) ==
  LET topics == AddTopic(gtopics, name, 0)
      j == Len(topics)
  IN /\ gtopics' = [topics EXCEPT ![j].qos = qos]
     /\ RegisterTopic(gring, j, gsend)
     /\ handing' = [tid |-> topics[j].id, name |-> name, qos |-> qos, number |-> messages']

DoPublishTopic(i, name) ==
  LET qos == gtopics[i].qos
      known == IF IsWildcard(gtopics[i]) THEN ByName(gtopics, name) ELSE i
  IN IF known # 0 THEN DeliverKnown(known, name, qos) ELSE DeliverNew(name, qos)

(* gateway_message_callback: a connected client gets the message by the first *)
(* subscribed topic that matches. The walk uses the record's iterator.        *)
MessageCallback ==
  /\ NotInCallback
  /\ messages < MaxMessages
  /\ UNCHANGED gstate
  /\ \E name \in Names :
       /\ \E sub \in brokersubs : MatchesName([name |-> sub], name)
       /\ messages' = messages + 1
       /\ IF gstate = "connected"
          THEN /\ giter' = TopicFrom(gtopics, FirstTopic(gtopics),
                                     LAMBDA t : t.subscribed /\ MatchesName(t, name))
               /\ IF giter' = 0 THEN UNCHANGED <<gtopics, gring, announced, handing>>
                  ELSE DoPublishTopic(giter', name)
          ELSE UNCHANGED <<giter, gtopics, gring, announced, handing>>
  /\ UNCHANGED <<gwill, gsend, brokersubs, confirmed, publishVars, wills, grestarts, radioVars>>

(* The end of the callback after DeliverNew. Nothing protects it: handlers on *)
(* the main thread come before it, which may have ended the connection or     *)
(* begun another; it does not look.                                           *)
MessageTail ==
  /\ ~NotInCallback
  /\ gring' = Delivery(gring, handing.tid, handing.name, handing.qos, handing.number)
  /\ handing' = NoMessage
  /\ UNCHANGED <<gstate, gwill, gsend, gtopics, giter, brokersubs, messages, confirmed, announced,
                 publishVars, wills, grestarts, radioVars>>

GatewayTopicsNext ==
  \/ GatewayTopicsHandler
  \/ SubscribeCallback
  \/ MessageCallback
  \/ MessageTail
====
