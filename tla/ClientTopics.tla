---- MODULE ClientTopics ----
(* ClientMqttSn (clientmqtt.cpp), second part: topics are registered and      *)
(* subscribed to, and publishes of the broker are received.                   *)
EXTENDS Client

(* register_topic(). A topic the gateway told of that is not complete waits   *)
(* for the new message; one without an id goes on waiting for the message it  *)
(* was first registered with.                                                 *)
Register ==
  /\ Count("register")
  /\ cstate = "connected"
  /\ CanAdd(cring)
  /\ \E name \in Names :
       LET mid == NextId(cring.last)
           topics == RegTopic(ctopics, name, mid)
           i == ByName(topics, name)
       IN IF topics[i].id > 0 /\ topics[i].complete
          THEN /\ ctopics' = topics
               /\ cring' = [Add(cring, "registering") EXCEPT !.place[AddedAt(cring)] = Reset(@)]
          ELSE /\ ctopics' = IF topics[i].id > 0 THEN [topics EXCEPT ![i].mid = mid] ELSE topics
               /\ cring' = AddAbout(cring, "registering", "REGISTER", 0, name, 0, KeptQos(cring),
                                   FALSE)
  /\ UNCHANGED <<cstate, cwill, csleep, gwactive, reported, received, radioVars>>

(* subscribe() by name. For a topic it is subscribed to it returns after      *)
(* add_message(): a message without content stays in the ring.                *)
Subscribe ==
  /\ Count("subscribe")
  /\ cstate = "connected"
  /\ CanAdd(cring)
  /\ \E name \in TopicNames, qos \in Qualities :
       LET topics == RegTopic(ctopics, name, NextId(cring.last))
           t == topics[ByName(topics, name)]
       IN /\ ctopics' = topics
          /\ cring' = IF t.id > 0 /\ t.subscribed
                      THEN Add(cring, "subscribing")
                      ELSE AddAbout(cring, "subscribing", "SUBSCRIBE", 0, name, 0, qos, qos = 0)
  /\ UNCHANGED <<cstate, cwill, csleep, gwactive, reported, received, radioVars>>

----------------------------------------------------------------------------
(* The handlers. Without a connection a packet is ignored.                    *)
ClientAnswers(p, answer) ==
  /\ toClient' = Without(toClient, p)
  /\ toGateway' \in Written(toGateway, answer)
  /\ UNCHANGED <<made, cwill>>

Ignored(types) ==
  /\ cstate # "connected"
  /\ \E type \in types : \E p \in ToClient(type) : ClientTakes(p)
  /\ UNCHANGED <<cring, ctopics, received>>

(* The gateway registers a topic. The answer is ACCEPTED, also when the id    *)
(* was taken.                                                                 *)
ReceiveRegister ==
  /\ cstate = "connected"
  /\ \E p \in ToClient("REGISTER") :
       /\ ctopics' = CreateTopic(ctopics, p.name, p.tid)
       /\ ClientAnswers(p, Packet("REGACK", p.id, 0, 0))
  /\ UNCHANGED <<cring, received>>

(* The gateway answers ACCEPTED only.                                         *)
ReceiveRegack ==
  /\ cstate = "connected"
  /\ \E p \in ToClient("REGACK") :
       /\ ClientTakes(p)
       /\ IF Matches(cring, p.id, FALSE) = {}
          THEN UNCHANGED <<cring, ctopics>>
          ELSE /\ cring' = Deactivate(cring, Found(cring, p.id, FALSE))
               /\ ctopics' = CompleteTopic(ctopics, p.id, p.tid)
  /\ UNCHANGED received

(* What an accepted subscription makes of the topics: nothing for a wildcard, *)
(* whose id is 0.                                                             *)
Subscribed(p) ==
  LET known == ById(ctopics, p.tid)
      i == IF known # 0 THEN known ELSE Incomplete(ctopics, p.id)
  IN IF p.tid = 0 \/ i = 0 THEN ctopics
     ELSE [ctopics EXCEPT ![i] =
             [IF @.complete THEN @ ELSE Completed([@ EXCEPT !.mid = p.id], p.tid)
                EXCEPT !.subscribed = TRUE]]

(* (For a message it does not know the handler returns with m_mqttlock taken, *)
(* as received_connack does.)                                                 *)
ReceiveSuback ==
  /\ cstate = "connected"
  /\ \E p \in ToClient("SUBACK") :
       /\ ClientTakes(p)
       /\ IF Matches(cring, p.id, FALSE) = {}
          THEN UNCHANGED <<cring, ctopics>>
          ELSE /\ cring' = Deactivate(cring, Found(cring, p.id, FALSE))
               /\ ctopics' = IF p.data = 0 THEN Subscribed(p) ELSE ctopics
  /\ UNCHANGED received

(* Changed: it is accepted. *)
MutantRefuseDelivery ==
  /\ \E p \in ToClient("PUBLISH") :
       /\ ById(ctopics, p.tid) = 0
       /\ ClientAnswers(p, Packet("PUBACK", p.id, 0, 0))
  /\ UNCHANGED <<cring, received>>

(* received_publish: a topic id the client does not know is refused (2 is     *)
(* INVALID_TOPIC). With QoS 2 a PUBREC is queued, if there is a place.        *)
RefuseDelivery ==
  /\ \E p \in ToClient("PUBLISH") :
       /\ ById(ctopics, p.tid) = 0
       /\ ClientAnswers(p, Packet("PUBACK", p.id, 0, 2))
  /\ UNCHANGED <<cring, received>>

Recorded(p) ==
  LET a == Add(cring, "publishing")
  IN [a EXCEPT !.place[a.tail] =
        [@ EXCEPT !.type = "PUBREC", !.id = p.id, !.ext = TRUE, !.qos = 2]]

AcceptDelivery ==
  \E p \in ToClient("PUBLISH") :
    /\ ById(ctopics, p.tid) # 0
    /\ received' = received \cup {[topic |-> ctopics[ById(ctopics, p.tid)].name,
                                   payload |-> p.name, number |-> p.data]}
    /\ \/ /\ p.qos = 0
          /\ ClientTakes(p)
          /\ UNCHANGED cring
       \/ /\ p.qos = 1
          /\ ClientAnswers(p, Packet("PUBACK", p.id, 0, 0))
          /\ UNCHANGED cring
       \/ /\ p.qos = 2 /\ CanAdd(cring)
          /\ ClientTakes(p)
          /\ cring' = Recorded(p)
       \/ /\ p.qos = 2 /\ ~CanAdd(cring)
          /\ ClientAnswers(p, Packet("PUBACK", p.id, 0, 1))
          /\ UNCHANGED cring

ReceiveDelivery ==
  /\ cstate = "connected"
  /\ RefuseDelivery \/ AcceptDelivery
  /\ UNCHANGED ctopics

(* received_pubrel: the message is closed unless the write of PUBCOMP fails.  *)
ReceiveDeliveryPubrel ==
  /\ cstate = "connected"
  /\ \E p \in ToClient("PUBREL") :
       IF /\ Matches(cring, p.id, TRUE) # {}
          /\ cring.place[Found(cring, p.id, TRUE)].qos = 2
       THEN /\ ClientAnswers(p, Packet("PUBCOMP", p.id, 0, 0))
            /\ cring' \in {cring, Deactivate(cring, Found(cring, p.id, TRUE))}
       ELSE ClientTakes(p) /\ UNCHANGED cring
  /\ UNCHANGED <<ctopics, received>>

ClientTopicsHandler ==
  /\ \/ ReceiveRegister
     \/ ReceiveRegack
     \/ ReceiveSuback
     \/ ReceiveDelivery
     \/ ReceiveDeliveryPubrel
     \/ Ignored({"REGISTER", "REGACK", "SUBACK", "PUBLISH", "PUBREL"})
  /\ UNCHANGED <<cstate, csleep, gwactive, reported>>

ClientTopicsNext ==
  \/ Register
  \/ Subscribe
  \/ ClientTopicsHandler
====
