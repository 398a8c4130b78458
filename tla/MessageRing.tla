---- MODULE MessageRing ----
(* MqttMessage and MqttMessageCollection (mqttconnection.hpp, .cpp): the ring *)
(* of in-flight messages every connection owns. Client and gateway modules    *)
(* hold a ring in a variable and change it with these operators only.         *)
(*                                                                            *)
(* Times are left out: has_expired is a choice of the module that uses the    *)
(* ring. A cached packet is its type and what its bytes say that the modules  *)
(* tell apart: a topic id, a name and "data". The message id in it is that of *)
(* the message.                                                               *)
EXTENDS Naturals, FiniteSets

CONSTANTS
  RingSize, \* MQTT_MESSAGES_INFLIGHT
  MaxId,    \* the largest message id, 0xFFFF
  Nretry    \* m_Nretry, the attempts of a message

ASSUME RingSizeAssumption == RingSize \in Nat \ {0}
ASSUME MaxIdAssumption == MaxId \in Nat \ {0}
ASSUME NretryAssumption == Nretry \in Nat \ {0}

Places == 0 .. RingSize - 1

(* MqttMessage::Activity. *)
Activities == {"none", "willtopic", "willmessage", "registering", "registeringall",
               "publishing", "subscribing", "searching", "disconnecting"}

(* A new MqttMessage. "type" is the packet in the cache, "none" when          *)
(* set_message has not been called (m_message_set = false). The constructor   *)
(* leaves m_qos as it is in memory: 0 in the client, a global; the gateway    *)
(* never reads it before set_qos().                                           *)
Blank ==
  [active |-> FALSE, type |-> "none", data |-> 0, tid |-> 0, name |-> "",
   id |-> 0, ext |-> FALSE, mos |-> 0, qos |-> 0, activity |-> "none",
   sent |-> FALSE, attempts |-> 0, oneshot |-> FALSE]

(* reset(): all but m_qos.                                                    *)
Reset(m) == [Blank EXCEPT !.qos = m.qos]

HasContent(m) == m.type # "none"
(* Changed: one attempt more. *)
MutantFailsLate(m) == m.attempts > Nretry

HasFailed(m) == m.attempts >= Nretry

(* sending(): a one shot message is done once written.                        *)
Sending(m) ==
  IF m.oneshot THEN [m EXCEPT !.active = FALSE]
               ELSE [m EXCEPT !.sent = TRUE, !.attempts = 0]

(* Changed: the attempt is not counted. *)
MutantNotCounted(m) == m

(* has_expired() on a timer that ran out counts the attempt.                  *)
Expired(m) == [m EXCEPT !.attempts = @ + 1]

(* reset_message(), set_message() and set_activity(): the next packet of an   *)
(* exchange takes the place of the one before. m_topicid stays.               *)
ReplaceWith(m, type, data, activity) ==
  [m EXCEPT !.attempts = 0, !.sent = FALSE, !.type = type, !.name = "",
            !.data = data, !.activity = activity]

(* The state of MqttMessageCollection.                                        *)
EmptyRing ==
  [place |-> [i \in Places |-> Blank], head |-> 0, tail |-> 0, last |-> 0]

Active(r) == {i \in Places : r.place[i].active}

(* How far a scan that starts at "from" walks before it meets place i.        *)
Walk(from, i) == IF i >= from THEN i - from ELSE i + RingSize - from

(* The member of S that a scan from "from" meets first.                       *)
FirstFrom(from, S) == CHOOSE i \in S : \A j \in S : Walk(from, i) <= Walk(from, j)

Lowest(S) == FirstFrom(0, S)

(* Changed: no wrap at the largest id. *)
MutantNoWrap(last) == last + 1

(* Changed: the id is not counted on. *)
MutantSameId(last) == IF last = 0 THEN 1 ELSE last

(* get_new_messageid(): 0 is never an id.                                     *)
NextId(last) == IF last = MaxId THEN 1 ELSE last + 1

(* Changed: the search begins at place 0. *)
MutantAddLowest(r) == Lowest(Places \ Active(r))

(* add_message(): the first inactive place from the tail on, NULL if none.    *)
CanAdd(r) == Active(r) # Places
AddedAt(r) == FirstFrom(r.tail, Places \ Active(r))
Add(r, activity) ==
  LET i == AddedAt(r) IN
    [r EXCEPT !.place[i] = [Reset(@) EXCEPT !.active = TRUE,
                                            !.id = NextId(r.last),
                                            !.activity = activity],
              !.last = NextId(r.last),
              !.tail = i]

(* add_message() followed by set_message(), set_qos() and one_shot() on what  *)
(* it returned; also for a packet about a topic, with its id and a name.      *)
AddAbout(r, activity, type, tid, name, data, qos, oneshot) ==
  LET a == Add(r, activity) IN
    [a EXCEPT !.place[a.tail] =
       [@ EXCEPT !.type = type, !.tid = tid, !.name = name, !.data = data,
                 !.qos = qos, !.oneshot = oneshot]]

(* Without set_qos() the message has the m_qos of the place's last user.      *)
KeptQos(r) == r.place[AddedAt(r)].qos
AddWith(r, activity, type, data) ==
  AddAbout(r, activity, type, 0, "", data, KeptQos(r), FALSE)

(* Changed: the search begins at place 0. *)
MutantCurrentLowest(r) == Lowest(Active(r))

(* get_active_message(): the first active place from the head on, which       *)
(* becomes the head; with no active message both ends go back to place 0.     *)
Current(r) == FirstFrom(r.head, Active(r))
Looked(r) ==
  IF Active(r) = {} THEN [r EXCEPT !.head = 0, !.tail = 0]
                    ELSE [r EXCEPT !.head = Current(r)]

(* get_message(): the lowest place with the id, be its message active or not. *)
Matches(r, id, ext) ==
  {i \in Places : r.place[i].id = id /\ r.place[i].ext = ext}
Found(r, id, ext) == Lowest(Matches(r, id, ext))

(* get_mos_message(): the same for the id mosquitto gave.                     *)
MosMatches(r, mid) == {i \in Places : r.place[i].mos = mid}

Deactivate(r, i) == [r EXCEPT !.place[i].active = FALSE]

(* clear_queue(): every message is reset; the last id is kept.                *)
Cleared(r) == [EmptyRing EXCEPT !.place = [i \in Places |-> Reset(r.place[i])],
                                !.last = r.last]

(* The values a message and a ring take.                                      *)
Messages(types, datas, mids, tids, names) ==
  [active : BOOLEAN, type : types \cup {"none"}, data : datas, tid : tids,
   name : names, id : 0 .. MaxId, ext : BOOLEAN, mos : mids, qos : 0 .. 2,
   activity : Activities, sent : BOOLEAN, attempts : 0 .. Nretry,
   oneshot : BOOLEAN]
Rings(types, datas, mids, tids, names) ==
  [place : [Places -> Messages(types, datas, mids, tids, names)], head : Places,
   tail : Places, last : 0 .. MaxId]
====
