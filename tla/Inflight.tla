---- MODULE Inflight ----
(* The message ring of a client at work (clientmqtt.cpp): calls of the       *)
(* application add messages, manage_connections sends, resends and gives up  *)
(* the current one, acknowledgements complete what was sent. Publishes stand *)
(* for the requests that send a packet: register and subscribe of a topic    *)
(* that is not known yet use the ring in the same way. Those of a known      *)
(* topic have actions of their own.                                          *)
EXTENDS MessageRing

CONSTANTS
  MaxInflight, \* how many messages the application keeps in the ring
  MaxBurned    \* how many known topics it registers while a message waits
ASSUME MaxInflightAssumption == MaxInflight \in 1 .. RingSize
ASSUME MaxBurnedAssumption == MaxBurned \in Nat

VARIABLES
  ring,    \* m_client_connection.messages
  younger, \* history: for each place, the places filled after it
  burned   \* history: for each place, the ids given to no message since

vars == <<ring, younger, burned>>

Types == {"PUBLISH", "PUBREL"}

Init ==
  /\ ring = EmptyRing
  /\ younger = [i \in Places |-> {}]
  /\ burned = [i \in Places |-> 0]

(* The application leaves places free. With a full ring a call returns 0 and  *)
(* changes nothing.                                                           *)
HasRoom == Cardinality(Active(ring)) < MaxInflight

(* The message that joins the ring is younger than all the others.            *)
Joins ==
  LET a == AddedAt(ring) IN
    /\ younger' = [i \in Places |->
         IF i \in Active(ring) THEN (younger[i] \cap Active(ring)) \cup {a} ELSE {}]
    /\ burned' = [i \in Places |-> IF i \in Active(ring) THEN burned[i] ELSE 0]

(* publish(): the message joins the ring, with one_shot set for QoS 0.        *)
Publication(r, oneshot) ==
  AddAbout(r, "publishing", "PUBLISH", 0, "", 0, 0, oneshot)
Publish ==
  /\ HasRoom
  /\ \E oneshot \in BOOLEAN : ring' = Publication(ring, oneshot)
  /\ Joins

(* subscribe() of a topic that is subscribed already returns after            *)
(* add_message(): the message stays in the ring without content.              *)
SubscribeKnown ==
  /\ HasRoom
  /\ ring' = Add(ring, "subscribing")
  /\ Joins

(* register_topic() of a complete topic resets the message it added: the tail *)
(* has moved and the id is gone.                                              *)
RegisterKnown ==
  /\ HasRoom
  /\ \A i \in Active(ring) : burned[i] < MaxBurned
  /\ ring' = [Add(ring, "registering") EXCEPT !.place[AddedAt(ring)] = Reset(@)]
  /\ burned' = [i \in Places |-> IF i \in Active(ring) THEN burned[i] + 1 ELSE 0]
  /\ UNCHANGED younger

(* One call of manage_connections. It turns to the current message, sends it  *)
(* or finds that its timer has run out. It does no more than turn to it when  *)
(* there is none, when it has no content, when the radio refuses the first    *)
(* write, or when there is still time for an answer.                          *)
Unsent(m) == HasContent(m) /\ ~m.sent

FirstWrite(i) ==
  /\ Unsent(ring.place[i])
  /\ ring' = [Looked(ring) EXCEPT !.place[i] = Sending(@)]

(* has_expired() counts the attempt; the last one gives the message up.       *)
Expire(i) ==
  LET m == Expired(ring.place[i]) IN
    /\ HasContent(m) /\ m.sent
    /\ ring' = [Looked(ring) EXCEPT
                  !.place[i] = IF HasFailed(m) THEN [m EXCEPT !.active = FALSE] ELSE m]

(* What manage_connections finds to do on the current message.                *)
Works == Active(ring) # {} /\ UNCHANGED <<younger, burned>>
Sends == Works /\ FirstWrite(Current(ring))
Expires == Works /\ Expire(Current(ring))

Turns == ring' = Looked(ring) /\ UNCHANGED <<younger, burned>>

Service == Sends \/ Expires \/ Turns

(* PUBACK or PUBCOMP for a message that was sent: set_inactive on the message *)
(* that get_message returns for the id.                                       *)
Acknowledge ==
  /\ \E i \in Active(ring) :
       /\ ring.place[i].sent
       /\ ring' = Deactivate(ring, Found(ring, ring.place[i].id, FALSE))
  /\ UNCHANGED <<younger, burned>>

(* PUBREC: the message get_message returns is turned into the PUBREL.         *)
Record ==
  /\ \E i \in Active(ring) :
       /\ ring.place[i].sent
       /\ LET f == Found(ring, ring.place[i].id, FALSE) IN
            ring' = [ring EXCEPT !.place[f] = ReplaceWith(@, "PUBREL", 0, "publishing")]
  /\ UNCHANGED <<younger, burned>>

(* clear_queue(), on every way into and out of a connection.                  *)
Clear ==
  /\ ring' = Cleared(ring)
  /\ younger' = [i \in Places |-> {}]
  /\ burned' = [i \in Places |-> 0]

Next ==
  \/ Publish \/ SubscribeKnown \/ RegisterKnown
  \/ Service
  \/ Acknowledge \/ Record \/ Clear

Spec == Init /\ [][Next]_vars

(* The main loop calls manage_connections for ever and a timer expires.       *)
FairSpec == Spec /\ WF_vars(Expires)
----------------------------------------------------------------------------
TypeOK ==
  /\ ring \in Rings(Types, {0}, {0}, {0}, {""})
  /\ younger \in [Places -> SUBSET Places]
  /\ burned \in [Places -> 0 .. MaxBurned]

(* Stop and wait: at most one message is on its way at a time, although adds  *)
(* move the tail through the holes that earlier messages left.                *)
OneInFlight ==
  \A i, j \in Active(ring) : ring.place[i].sent /\ ring.place[j].sent => i = j

(* While the application leaves a place free, the ring is first in, first     *)
(* out: the message manage_connections turns to is the oldest. (A full ring   *)
(* breaks this: the add that follows the completion of the head's message     *)
(* takes the head's place and is served before all the others, again and      *)
(* again.)                                                                    *)
OldestFirst ==
  Active(ring) # {} => \A i \in Active(ring) : Current(ring) \notin younger[i]

(* Two messages in the ring never share an id, across the wrap at 0xFFFF, as  *)
(* long as fewer ids than there are have been given while a message waits.    *)
UniqueIds ==
  \A i, j \in Active(ring) : ring.place[i].id = ring.place[j].id => i = j

(* manage_connections does nothing for ever: its message has no content.      *)
Blocked == Active(ring) # {} /\ ~HasContent(ring.place[Current(ring)])

(* Every message leaves the ring in the end, if the radio takes first writes  *)
(* (one it refuses is neither sent nor counted) and the gateway does not go   *)
(* on answering PUBREL with PUBREC, which starts the retries again. The one   *)
(* thing in the client's own code that keeps it there is a subscribe of a     *)
(* known topic (clientmqtt.cpp:1050), whose message comes to the head.        *)
NoneStarved ==
  WF_vars(Sends) /\ <>[][~Record]_vars =>
    \A i \in Places : ring.place[i].active ~> ~ring.place[i].active \/ Blocked
====
