---- MODULE SessionProof ----
(* What a client may believe of its publishes, for every size of the rings,   *)
(* every number of retries and whatever the radio loses, repeats or reorders; *)
(* then what the rings of client and gateway hold while mosquitto is asked,   *)
(* and while a connection is made.                                            *)
EXTENDS Session, MessageRingProof

USE BudgetAssumption

(* The ids of the publishes the broker confirmed.                             *)
StoredIds == {s.id : s \in stored}

(* An application that has no will never sets the flag of one. (This part is  *)
(* for the theorem CallbackComes.)                                            *)
NoWills == \A flags \in Flags : ~WillFlag(flags)

(* What the client sends: a publish is one of its first life, and a PUBREL    *)
(* answers a PUBREC, so its publish is confirmed; and nothing of a will if it *)
(* has none. This is so of a message in the ring and of a packet on its way.  *)
Willing(x) ==
  NoWills => /\ x.type \notin {"WILLTOPIC", "WILLMSG"}
             /\ x.type = "CONNECT" => ~WillFlag(x.data)
Sound(x, ids) ==
  /\ x.type = "PUBLISH" => x.data = 0 /\ x.qos \in 0 .. 2
  /\ x.type = "PUBREL" => x.id \in ids
  /\ Willing(x)
SoundRing(r, ids) == IsRing(r) /\ \A i \in Places : Sound(r.place[i], ids)

(* What the gateway answers: success means that the publish is confirmed.     *)
Asking(p) == NoWills => p.type \notin {"WILLTOPICREQ", "WILLMSGREQ"}
Truthful(p, ids) ==
  /\ (p.type = "PUBACK" /\ p.data = 0) \/ p.type \in {"PUBREC", "PUBCOMP"} => p.id \in ids
  /\ Asking(p)

(* A message of the gateway's ring that waits for the broker has the id of    *)
(* the publish with its mid, and one that turned into a PUBREC is confirmed.  *)
WaitsFor(m, publishes) ==
  \A w \in publishes : m.mos = w.mid => m.id = w.id /\ m.qos \in 0 .. 2
Answerable(m, ids, publishes, mid) ==
  /\ m.mos \in 0 .. mid
  /\ WaitsFor(m, publishes)
  /\ m.type \notin {"PUBACK", "PUBCOMP"}
  /\ m.type = "PUBREC" => m.id \in ids
  /\ Asking(m)
AnswerableRing(r, ids, publishes, mid) ==
  IsRing(r) /\ \A i \in Places : Answerable(r.place[i], ids, publishes, mid)

(* The publishes mosquitto has, with the mids it gave.                        *)
HandedOver(publishes, mid) ==
  /\ mid \in Nat
  /\ \A w \in publishes : w.mid \in 1 .. mid /\ w.life = 0

OneLife == made \in [Calls -> Nat] /\ made["restart"] = 0
ClientSound ==
  /\ SoundRing(cring, StoredIds)
  /\ \A p \in DOMAIN toGateway : Sound(p, StoredIds)
  /\ \A r \in reported : r.life = 0 /\ r.id \in StoredIds /\ r = Publication(r.life, r.id)
GatewayTruthful ==
  /\ HandedOver(waiting, mids)
  /\ AnswerableRing(gring, StoredIds, waiting, mids)
  /\ \A p \in DOMAIN toClient : Truthful(p, StoredIds)
  /\ \A s \in stored : s = Publication(0, s.id)

ConfirmedInv == OneLife /\ ClientSound /\ GatewayTruthful
----------------------------------------------------------------------------
(* The ring of the client.                                                    *)
LEMMA SoundFresh ==
  ASSUME NEW r, NEW ids
  PROVE  SoundRing(EmptyRing, ids) /\ SoundRing(Cleared(r), ids)
BY EmptyRingFields, ClearedRing, BlankFields, ResetFields DEF SoundRing, Sound, Willing

LEMMA SoundSet ==
  ASSUME NEW r, NEW ids, SoundRing(r, ids), NEW i \in Places, NEW m, IsMessage(m), Sound(m, ids)
  PROVE  SoundRing([r EXCEPT !.place[i] = m], ids)
<1> DEFINE n == [r EXCEPT !.place[i] = m]
<1>1. IsRing(n) /\ n.place[i] = m /\ \A j \in Places \ {i} : n.place[j] = r.place[j]
  BY PlaceSet DEF SoundRing
<1> HIDE DEF n
<1>2. SoundRing(n, ids)
  BY <1>1 DEF SoundRing
<1> QED
  BY <1>2 DEF n

LEMMA SoundLooked ==
  ASSUME NEW r, NEW ids, SoundRing(r, ids)
  PROVE  SoundRing(Looked(r), ids)
BY LookedRing DEF SoundRing

LEMMA SoundDeactivate ==
  ASSUME NEW r, NEW ids, SoundRing(r, ids), NEW i \in Places
  PROVE  SoundRing(Deactivate(r, i), ids)
<1> DEFINE m == [r.place[i] EXCEPT !.active = FALSE]
<1>1. IsRing(r) /\ IsMessage(r.place[i]) /\ Sound(r.place[i], ids)
  BY DEF SoundRing, IsRing
<1>2. Sound(m, ids)
  BY <1>1, InactiveFields DEF Sound, Willing, Fields
<1>3. LET n == Deactivate(r, i) IN
        /\ IsRing(n) /\ n.place[i] = m
        /\ \A j \in Places \ {i} : n.place[j] = r.place[j]
  BY <1>1, DeactivateRing
<1> HIDE DEF m
<1> QED
  BY <1>2, <1>3 DEF SoundRing

LEMMA SoundAdd ==
  ASSUME NEW r, NEW ids, SoundRing(r, ids), CanAdd(r), NEW activity
  PROVE  SoundRing(Add(r, activity), ids)
<1>1. LET n == Add(r, activity)
          i == AddedAt(r)
      IN /\ IsRing(n) /\ n.place[i].type = "none"
         /\ \A j \in Places \ {i} : n.place[j] = r.place[j]
  BY AddRing DEF SoundRing
<1> QED
  BY <1>1 DEF SoundRing, Sound, Willing

LEMMA SoundAddAbout ==
  ASSUME NEW r, NEW ids, SoundRing(r, ids), CanAdd(r), NEW activity, NEW type, NEW tid, NEW name,
         NEW data, NEW qos, NEW oneshot, type \notin {"PUBREL", "WILLTOPIC", "WILLMSG"},
         type = "PUBLISH" => data = 0 /\ qos \in 0 .. 2,
         NoWills /\ type = "CONNECT" => ~WillFlag(data)
  PROVE  SoundRing(AddAbout(r, activity, type, tid, name, data, qos, oneshot), ids)
<1>1. LET n == AddAbout(r, activity, type, tid, name, data, qos, oneshot)
          i == AddedAt(r)
      IN /\ IsRing(n) /\ n.place[i].type = type /\ n.place[i].data = data
         /\ n.place[i].qos = qos
         /\ \A j \in Places \ {i} : n.place[j] = r.place[j]
  BY AddAboutRing DEF SoundRing
<1> QED
  BY <1>1 DEF SoundRing, Sound, Willing

(* Most messages are sound whatever they say.                                 *)
Requests == {"DISCONNECT", "SEARCHGW", "REGISTER", "SUBSCRIBE"}

LEMMA SoundRequest ==
  ASSUME NEW r, NEW ids, SoundRing(r, ids), CanAdd(r), NEW activity, NEW type \in Requests,
         NEW tid, NEW name, NEW data, NEW qos, NEW oneshot
  PROVE  SoundRing(AddAbout(r, activity, type, tid, name, data, qos, oneshot), ids)
BY SoundAddAbout DEF Requests

(* The current message of a sound ring, and what the ring's turn makes of it. *)
LEMMA SoundCurrent ==
  ASSUME NEW r, NEW ids, SoundRing(r, ids), Active(r) # {}
  PROVE  LET m == r.place[Current(r)] IN
           /\ Current(r) \in Places /\ IsMessage(m)
           /\ Sound(m, ids) /\ Sound(Sending(m), ids) /\ Sound(Expired(m), ids)
           /\ Sound([Expired(m) EXCEPT !.active = FALSE], ids)
           /\ Sound(Cached(m), ids) /\ Sound(Cached(Expired(m)), ids)
<1> DEFINE m == r.place[Current(r)]
<1>1. Current(r) \in Places /\ IsMessage(m) /\ Sound(m, ids)
  BY CurrentActive DEF SoundRing, IsRing
<1> HIDE DEF m
<1>2. Sound(Sending(m), ids) /\ Sound(Expired(m), ids) /\ IsMessage(Expired(m))
  BY <1>1, SendingFields, ExpiredFields DEF Sound, Willing, Fields
<1>3. Sound([Expired(m) EXCEPT !.active = FALSE], ids)
  BY <1>2, InactiveFields DEF Sound, Willing, Fields
<1>4. \A x : Sound(x, ids) => Sound(Cached(x), ids)
  BY DEF Sound, Willing, Cached, PacketAbout, Numbered
<1> QED
  BY <1>1, <1>2, <1>3, <1>4 DEF m
----------------------------------------------------------------------------
(* A step of the client keeps the invariant if it keeps its ring sound,       *)
(* writes sound packets only and reports what is confirmed.                   *)
LEMMA ClientKeeps ==
  ASSUME ConfirmedInv, UNCHANGED gatewayVars,
         OneLife', SoundRing(cring', StoredIds),
         DOMAIN toClient' \subseteq DOMAIN toClient,
         \A p \in DOMAIN toGateway' : p \in DOMAIN toGateway \/ Sound(p, StoredIds),
         \A r \in reported' : r \in reported \/ \E id \in StoredIds : r = Publication(0, id)
  PROVE  ConfirmedInv'
<1>1. StoredIds' = StoredIds /\ UNCHANGED <<mids, waiting, gring, stored>>
  BY DEF gatewayVars, publishVars, StoredIds
<1>2. ClientSound'
  BY <1>1 DEF ConfirmedInv, ClientSound, Publication
<1>3. GatewayTruthful'
  BY <1>1 DEF ConfirmedInv, GatewayTruthful
<1> QED
  BY <1>2, <1>3 DEF ConfirmedInv

LEMMA Counted ==
  ASSUME OneLife, NEW c \in Calls \ {"restart"}, Count(c)
  PROVE  OneLife'
BY DEF OneLife, Count, Calls

LEMMA NoRestart ==
  ASSUME Budget["restart"] = 0, OneLife
  PROVE  ~Count("restart")
BY DEF OneLife, Count, Calls

LEMMA ClientCalls ==
  ASSUME Budget["restart"] = 0, ConfirmedInv, UNCHANGED gatewayVars,
         Connect \/ Disconnect \/ Publish \/ Searchgw \/ ClientRestart \/ Register \/ Subscribe
  PROVE  ConfirmedInv'
<1>1. OneLife /\ SoundRing(cring, StoredIds) /\ ~Count("restart")
  BY NoRestart DEF ConfirmedInv, ClientSound
<1>2. \A type \in {"DISCONNECT", "SEARCHGW", "REGISTER", "SUBSCRIBE"} : type \in Requests
  BY DEF Requests
<1>3. ASSUME SoundRing(cring', StoredIds), UNCHANGED <<reported, radioVars>>,
             NEW c \in {"connect", "publish", "disconnect", "search", "register", "subscribe"},
             Count(c)
      PROVE  ConfirmedInv'
  <2>1. OneLife'
    BY <1>1, <1>3, Counted DEF Calls
  <2> QED
    BY <1>3, <2>1, ClientKeeps DEF radioVars
<1>4. CASE Connect
  <2>1. PICK flags \in Flags, w \in Wills :
          cring' = AddWith(Cleared(cring), IF WillFlag(flags) THEN "willtopic" ELSE "none",
                           "CONNECT", flags)
    BY <1>4 DEF Connect
  <2>2. SoundRing(Cleared(cring), StoredIds)
    BY SoundFresh
  <2>3. CanAdd(Cleared(cring))
    <3>1. 0 \in Places
      BY RingSizeAssumption DEF Places
    <3> QED
      BY <3>1, ClearedRing DEF CanAdd
  <2>4. SoundRing(cring', StoredIds)
    <3>1. NoWills => ~WillFlag(flags)
      BY DEF NoWills
    <3>2. "CONNECT" \notin {"PUBREL", "WILLTOPIC", "WILLMSG", "PUBLISH"}
      OBVIOUS
    <3> QED
      BY <2>1, <2>2, <2>3, <3>1, <3>2, SoundAddAbout DEF AddWith
  <2> QED
    BY <1>3, <1>4, <2>4 DEF Connect
<1>5. CASE Disconnect
  <2>1. PICK sleep \in {0, 1} :
          cring' = AddWith(cring, "disconnecting", "DISCONNECT", sleep)
    BY <1>5 DEF Disconnect
  <2>2. SoundRing(cring', StoredIds)
    BY <1>1, <1>2, <1>5, <2>1, SoundRequest DEF Disconnect, AddWith
  <2> QED
    BY <1>3, <1>5, <2>2 DEF Disconnect
<1>6. CASE Publish
  <2>1. SoundRing(cring', StoredIds)
    BY <1>1, <1>6, SoundAddAbout, QualitiesAssumption DEF Publish, OneLife
  <2> QED
    BY <1>3, <1>6, <2>1 DEF Publish
<1>7. CASE Searchgw
  <2>1. SoundRing(cring', StoredIds)
    BY <1>1, <1>2, <1>7, SoundRequest DEF Searchgw, AddWith
  <2> QED
    BY <1>3, <1>7, <2>1 DEF Searchgw
<1>8. CASE Register
  <2> DEFINE reused == [Add(cring, "registering") EXCEPT !.place[AddedAt(cring)] = Reset(@)]
             asking(name) == AddAbout(cring, "registering", "REGISTER", 0, name, 0, KeptQos(cring),
                                     FALSE)
  <2>1. SoundRing(reused, StoredIds)
    <3> DEFINE a == Add(cring, "registering")
               m == Reset(a.place[AddedAt(cring)])
    <3>1. SoundRing(a, StoredIds) /\ IsRing(a) /\ AddedAt(cring) \in Places
      BY <1>1, <1>8, SoundAdd, AddRing DEF Register, SoundRing
    <3>2. IsMessage(m) /\ m.type = "none"
      BY ResetFields
    <3>3. reused = [a EXCEPT !.place[AddedAt(cring)] = m]
      BY <3>1 DEF IsRing
    <3> HIDE DEF a, m
    <3>4. Sound(m, StoredIds)
      BY <3>2 DEF Sound, Willing
    <3> QED
      BY <3>1, <3>2, <3>3, <3>4, SoundSet
  <2>2. \A name \in Names : SoundRing(asking(name), StoredIds)
    BY <1>1, <1>2, <1>8, SoundRequest DEF Register
  <2>3. PICK name \in Names : cring' = reused \/ cring' = asking(name)
    <3> HIDE DEF reused
    <3> QED
      BY <1>8 DEF Register, reused
  <2>4. SoundRing(cring', StoredIds)
    BY <2>1, <2>2, <2>3
  <2> QED
    BY <1>3, <1>8, <2>4 DEF Register
<1>9. CASE Subscribe
  <2> DEFINE asking(name, qos) == AddAbout(cring, "subscribing", "SUBSCRIBE", 0, name, 0, qos, qos = 0)
  <2>1. SoundRing(Add(cring, "subscribing"), StoredIds)
    BY <1>1, <1>9, SoundAdd DEF Subscribe
  <2>2. \A name \in TopicNames, qos \in Qualities : SoundRing(asking(name, qos), StoredIds)
    BY <1>1, <1>2, <1>9, SoundRequest DEF Subscribe
  <2>3. PICK name \in TopicNames, qos \in Qualities :
          cring' = Add(cring, "subscribing") \/ cring' = asking(name, qos)
    BY <1>9 DEF Subscribe
  <2>4. SoundRing(cring', StoredIds)
    BY <2>1, <2>2, <2>3
  <2> QED
    BY <1>3, <1>9, <2>4 DEF Subscribe
<1> QED
  BY <1>1, <1>4, <1>5, <1>6, <1>7, <1>8, <1>9 DEF ClientRestart

LEMMA ClientManages ==
  ASSUME ConfirmedInv, UNCHANGED gatewayVars, ClientManage
  PROVE  ConfirmedInv'
<1> DEFINE i == Current(cring)
           m == cring.place[i]
<1>1. /\ OneLife /\ SoundRing(cring, StoredIds) /\ IsRing(cring)
      /\ SoundRing(Looked(cring), StoredIds)
  BY SoundLooked DEF ConfirmedInv, ClientSound, SoundRing
<1>2. UNCHANGED <<made, reported, toClient>>
  BY DEF ClientManage, ClientLost, ClientWrite, ClientResend, ClientGiveUp, ClientIdle, radioVars
<1>3. OneLife'
  BY <1>1, <1>2 DEF OneLife
<1>4. CASE ClientLost \/ ClientIdle
  <2>1. SoundRing(cring', StoredIds) /\ toGateway' = toGateway
    BY <1>1, <1>4, SoundFresh DEF ClientLost, ClientIdle, radioVars
  <2> QED
    BY <1>2, <1>3, <2>1, ClientKeeps
<1>5. ASSUME NEW n, IsMessage(n), Sound(n, StoredIds), Active(cring) # {},
             cring' = [Looked(cring) EXCEPT !.place[i] = n],
             \/ toGateway' = toGateway
             \/ \E x : toGateway' \in Written(toGateway, x) /\ Sound(x, StoredIds)
      PROVE  ConfirmedInv'
  <2>1. i \in Places
    BY <1>1, <1>5, CurrentActive
  <2>2. SoundRing(cring', StoredIds)
    BY <1>1, <1>5, <2>1, SoundSet
  <2>3. \A p \in DOMAIN toGateway' : p \in DOMAIN toGateway \/ Sound(p, StoredIds)
    BY <1>5, PacketWritten
  <2> QED
    BY <1>2, <1>3, <2>2, <2>3, ClientKeeps
<1>6. Active(cring) # {} =>
        /\ IsMessage(m) /\ Sound(m, StoredIds) /\ Sound(Cached(m), StoredIds)
        /\ IsMessage(Sending(m)) /\ Sound(Sending(m), StoredIds)
        /\ IsMessage(Expired(m)) /\ Sound(Expired(m), StoredIds)
        /\ Sound(Cached(Expired(m)), StoredIds)
        /\ IsMessage([Expired(m) EXCEPT !.active = FALSE])
        /\ Sound([Expired(m) EXCEPT !.active = FALSE], StoredIds)
  <2>1. Active(cring) # {} => /\ IsMessage(m) /\ Sound(m, StoredIds) /\ Sound(Cached(m), StoredIds)
                              /\ Sound(Sending(m), StoredIds) /\ Sound(Expired(m), StoredIds)
                              /\ Sound(Cached(Expired(m)), StoredIds)
                              /\ Sound([Expired(m) EXCEPT !.active = FALSE], StoredIds)
    BY <1>1, SoundCurrent
  <2> HIDE DEF m
  <2> QED
    BY <2>1, SendingFields, ExpiredFields, InactiveFields
<1>7. CASE \E succeeds \in BOOLEAN : ClientWrite(succeeds)
  <2>1. Active(cring) # {} /\ toGateway' \in Written(toGateway, Cached(m))
        /\ \/ cring' = [Looked(cring) EXCEPT !.place[i] = Sending(m)]
           \/ cring' = [Looked(cring) EXCEPT !.place[i] = m]
    BY <1>7 DEF ClientWrite
  <2> HIDE DEF m, i
  <2> QED
    BY <1>5, <1>6, <2>1
<1>8. CASE ClientResend
  <2>1. Active(cring) # {} /\ toGateway' \in Written(toGateway, Cached(Expired(m)))
        /\ cring' = [Looked(cring) EXCEPT !.place[i] = Expired(m)]
    BY <1>8 DEF ClientResend
  <2> HIDE DEF m, i
  <2> QED
    BY <1>5, <1>6, <2>1
<1>9. CASE ClientGiveUp
  <2>1. Active(cring) # {} /\ toGateway' = toGateway
        /\ cring' = [Looked(cring) EXCEPT !.place[i] = [Expired(m) EXCEPT !.active = FALSE]]
    BY <1>9 DEF ClientGiveUp, radioVars
  <2> HIDE DEF m, i
  <2> QED
    BY <1>5, <1>6, <2>1
<1> QED
  BY <1>4, <1>7, <1>8, <1>9 DEF ClientManage

(* The packet a handler takes was on its way, and what it says is true.       *)
LEMMA TakenTruthful ==
  ASSUME ConfirmedInv, NEW type, NEW p \in ToClient(type)
  PROVE  p.type = type /\ Truthful(p, StoredIds)
BY DEF ToClient, BagToSet, ConfirmedInv, GatewayTruthful

LEMMA ClientHandles ==
  ASSUME ConfirmedInv, UNCHANGED gatewayVars, ClientHandler
  PROVE  ConfirmedInv'
<1>1. /\ OneLife /\ SoundRing(cring, StoredIds) /\ IsRing(cring)
      /\ SoundRing(Looked(cring), StoredIds)
      /\ SoundRing(Cleared(cring), StoredIds)
  BY SoundLooked, SoundFresh DEF ConfirmedInv, ClientSound, SoundRing
<1>2. /\ DOMAIN toClient' \subseteq DOMAIN toClient
      /\ UNCHANGED <<made, toGateway>>
  <2>1. \E p : ClientTakes(p)
    BY DEF ClientHandler, ReceiveConnack, ReceiveWilltopicreq, ReceiveWillmsgreq,
           ReceiveClientDisconnect, ReceiveGwinfo, ReceivePuback, ReceivePubrec, ReceivePubcomp
  <2> QED
    BY <2>1, PacketTaken DEF ClientTakes
<1>3. ASSUME SoundRing(cring', StoredIds),
             \/ reported' = reported
             \/ \E id, success : Report(success, id) /\ (success => id \in StoredIds)
      PROVE  ConfirmedInv'
  <2>1. OneLife'
    BY <1>1, <1>2 DEF OneLife
  <2>2. \A r \in reported' : r \in reported \/ \E id \in StoredIds : r = Publication(0, id)
    BY <1>1, <1>3 DEF Report, OneLife
  <2> QED
    BY <1>2, <1>3, <2>1, <2>2, ClientKeeps
<1>4. ASSUME NEW i \in Places
      PROVE  SoundRing(Deactivate(cring, i), StoredIds)
  BY <1>1, SoundDeactivate
<1>5. CASE ReceiveConnack
  BY <1>1, <1>3, <1>5 DEF ReceiveConnack, NoActiveMessage
<1>6. CASE ReceiveWilltopicreq \/ ReceiveWillmsgreq
  <2> DEFINE i == Current(cring)
             answer(type, activity) == ReplaceWith(cring.place[i], type, cwill, activity)
  <2>1. PICK type, activity :
          type \in {"WILLTOPIC", "WILLMSG"} /\ ~NoWills /\ AnswerWith(type, activity)
    <3>1. ~NoWills
      BY <1>6, TakenTruthful DEF ReceiveWilltopicreq, ReceiveWillmsgreq, Truthful, Asking
    <3> QED
      BY <1>6, <3>1 DEF ReceiveWilltopicreq, ReceiveWillmsgreq
  <2>2. Active(cring) # {} => SoundRing([Looked(cring) EXCEPT !.place[i] = answer(type, activity)],
                                        StoredIds)
    <3> SUFFICES ASSUME Active(cring) # {}
                 PROVE  SoundRing([Looked(cring) EXCEPT !.place[i] = answer(type, activity)], StoredIds)
      OBVIOUS
    <3>1. i \in Places /\ IsMessage(cring.place[i])
      BY <1>1, CurrentActive DEF IsRing
    <3>2. IsMessage(answer(type, activity)) /\ answer(type, activity).type = type
      BY <3>1, ReplaceFields
    <3>3. Sound(answer(type, activity), StoredIds)
      BY <2>1, <3>2 DEF Sound, Willing
    <3> HIDE DEF answer
    <3> QED
      BY <1>1, <3>1, <3>2, <3>3, SoundSet
  <2>3. \/ cring' = cring \/ cring' = Looked(cring)
        \/ Active(cring) # {} /\ cring' = [Looked(cring) EXCEPT !.place[i] = answer(type, activity)]
    <3>1. Looked(cring).place = cring.place
      BY <1>1, LookedRing
    <3> QED
      BY <2>1, <3>1 DEF AnswerWith, NoActiveMessage
  <2>4. SoundRing(cring', StoredIds)
    BY <1>1, <2>2, <2>3
  <2> QED
    BY <1>3, <1>6, <2>4 DEF ReceiveWilltopicreq, ReceiveWillmsgreq
<1>7. CASE ReceiveClientDisconnect
  BY <1>1, <1>3, <1>7 DEF ReceiveClientDisconnect
<1>8. CASE ReceiveGwinfo
  <2>1. Active(cring) # {} => SoundRing(Deactivate(Looked(cring), Current(cring)), StoredIds)
    BY <1>1, CurrentActive, SoundDeactivate
  <2> QED
    BY <1>1, <1>3, <1>8, <2>1 DEF ReceiveGwinfo
<1>9. CASE ReceivePuback
  <2>1. PICK p \in ToClient("PUBACK") :
          \/ UNCHANGED <<cring, reported>>
          \/ /\ Matches(cring, p.id, FALSE) # {}
             /\ cring' = Deactivate(cring, Found(cring, p.id, FALSE))
             /\ Report(p.data = 0, p.id)
    BY <1>9 DEF ReceivePuback
  <2>2. p.data = 0 => p.id \in StoredIds
    BY TakenTruthful DEF Truthful, Asking
  <2>3. SoundRing(cring', StoredIds)
    BY <1>1, <1>4, <2>1, FoundOwn
  <2> QED
    BY <1>3, <2>1, <2>2, <2>3
<1>10. CASE ReceivePubrec
  <2>1. PICK p \in ToClient("PUBREC") :
          \/ cring' = cring
          \/ /\ FoundQos2(p.id)
             /\ cring' = [cring EXCEPT !.place[Found(cring, p.id, FALSE)] =
                            ReplaceWith(@, "PUBREL", 0, "publishing")]
    BY <1>10 DEF ReceivePubrec
  <2>2. p.id \in StoredIds
    BY TakenTruthful DEF Truthful, Asking
  <2>3. CASE cring' # cring
    <3> DEFINE i == Found(cring, p.id, FALSE)
               m == ReplaceWith(cring.place[i], "PUBREL", 0, "publishing")
    <3>1. i \in Places /\ cring.place[i].id = p.id
      BY <2>1, <2>3, FoundOwn DEF FoundQos2
    <3>2. IsMessage(m) /\ m.type = "PUBREL" /\ m.id = p.id
      <4>1. IsMessage(cring.place[i])
        BY <1>1, <3>1 DEF IsRing
      <4> HIDE DEF i
      <4> QED
        BY <3>1, <4>1, ReplaceFields
    <3>3. cring' = [cring EXCEPT !.place[i] = m]
      BY <2>1, <2>3
    <3>4. Sound(m, StoredIds)
      BY <2>2, <3>2 DEF Sound, Willing
    <3> HIDE DEF i, m
    <3>5. SoundRing(cring', StoredIds)
      BY <1>1, <3>1, <3>2, <3>3, <3>4, SoundSet
    <3> QED
      BY <1>3, <1>10, <3>5 DEF ReceivePubrec
  <2> QED
    BY <1>1, <1>3, <1>10, <2>3 DEF ReceivePubrec
<1>11. CASE ReceivePubcomp
  <2>1. PICK p \in ToClient("PUBCOMP") :
          \/ UNCHANGED <<cring, reported>>
          \/ /\ FoundQos2(p.id)
             /\ cring' = Deactivate(cring, Found(cring, p.id, FALSE))
             /\ Report(TRUE, p.id)
    BY <1>11 DEF ReceivePubcomp
  <2>2. p.id \in StoredIds
    BY TakenTruthful DEF Truthful, Asking
  <2>3. SoundRing(cring', StoredIds)
    BY <1>1, <1>4, <2>1, FoundOwn DEF FoundQos2
  <2> QED
    BY <1>3, <2>1, <2>2, <2>3
<1> QED
  BY <1>5, <1>6, <1>7, <1>8, <1>9, <1>10, <1>11 DEF ClientHandler

(* The handlers of ClientTopics answer with packets that say nothing of a     *)
(* publish of the client, and open a message for a delivery of QoS 2 only.    *)
Answers == {"REGACK", "PUBACK", "PUBCOMP"}

LEMMA SoundRecorded ==
  ASSUME NEW p, NEW ids, SoundRing(cring, ids), CanAdd(cring)
  PROVE  SoundRing(Recorded(p), ids)
<1> DEFINE a == Add(cring, "publishing")
           m == [a.place[a.tail] EXCEPT !.type = "PUBREC", !.id = p.id, !.ext = TRUE, !.qos = 2]
<1>1. SoundRing(a, ids) /\ a.tail \in Places /\ IsMessage(a.place[a.tail])
  BY SoundAdd DEF SoundRing, IsRing
<1>2. Recorded(p) = [a EXCEPT !.place[a.tail] = m]
  BY DEF Recorded
<1> HIDE DEF a
<1>3. IsMessage(m) /\ m.type = "PUBREC"
  BY <1>1 DEF IsMessage, Fields
<1>4. Sound(m, ids)
  BY <1>3 DEF Sound, Willing
<1> HIDE DEF m
<1> QED
  BY <1>1, <1>2, <1>3, <1>4, SoundSet

LEMMA ClientHandlesTopics ==
  ASSUME ConfirmedInv, UNCHANGED gatewayVars, ClientTopicsHandler
  PROVE  ConfirmedInv'
<1>1. OneLife /\ SoundRing(cring, StoredIds)
  BY DEF ConfirmedInv, ClientSound
<1>2. \A id : Matches(cring, id, FALSE) # {} =>
                SoundRing(Deactivate(cring, Found(cring, id, FALSE)), StoredIds)
  BY <1>1, FoundOwn, SoundDeactivate
<1>3. \A id : Matches(cring, id, TRUE) # {} =>
                SoundRing(Deactivate(cring, Found(cring, id, TRUE)), StoredIds)
  BY <1>1, FoundExternal, SoundDeactivate
<1>4. ASSUME SoundRing(cring', StoredIds), NEW p,
             \/ ClientTakes(p)
             \/ \E x : ClientAnswers(p, x) /\ x.type \in Answers
      PROVE  ConfirmedInv'
  <2>1. UNCHANGED made /\ DOMAIN toClient' \subseteq DOMAIN toClient
    BY <1>4, PacketTaken DEF ClientTakes, ClientAnswers
  <2>2. \A x : x.type \in Answers => Sound(x, StoredIds)
    BY DEF Answers, Sound, Willing
  <2>3. \A q \in DOMAIN toGateway' : q \in DOMAIN toGateway \/ Sound(q, StoredIds)
    BY <1>4, <2>2, PacketWritten DEF ClientTakes, ClientAnswers
  <2>4. OneLife' /\ reported' = reported
    BY <1>1, <2>1 DEF OneLife, ClientTopicsHandler
  <2> QED
    BY <1>4, <2>1, <2>3, <2>4, ClientKeeps
<1>5. \A id, data : \A type \in Answers : Packet(type, id, 0, data).type \in Answers
  BY DEF Packet, PacketAbout
<1>6. "REGACK" \in Answers /\ "PUBACK" \in Answers /\ "PUBCOMP" \in Answers
  BY DEF Answers
<1>7. CASE ReceiveRegister
  <2>1. PICK p : ClientAnswers(p, Packet("REGACK", p.id, 0, 0)) /\ UNCHANGED cring
    BY <1>7 DEF ReceiveRegister
  <2> QED
    BY <1>1, <1>4, <1>5, <1>6, <2>1
<1>8. CASE ReceiveRegack \/ ReceiveSuback
  <2>1. PICK p : /\ ClientTakes(p)
                 /\ \/ cring' = cring
                    \/ /\ Matches(cring, p.id, FALSE) # {}
                       /\ cring' = Deactivate(cring, Found(cring, p.id, FALSE))
    BY <1>8 DEF ReceiveRegack, ReceiveSuback
  <2> QED
    BY <1>1, <1>2, <1>4, <2>1
<1>9. CASE ReceiveDelivery
  <2>1. CASE RefuseDelivery
    <3>1. PICK p : ClientAnswers(p, Packet("PUBACK", p.id, 0, 2)) /\ UNCHANGED cring
      BY <2>1 DEF RefuseDelivery
    <3> QED
      BY <1>1, <1>4, <1>5, <1>6, <3>1
  <2>2. CASE AcceptDelivery
    <3>1. PICK p : \/ ClientTakes(p) /\ UNCHANGED cring
                   \/ (\E data : ClientAnswers(p, Packet("PUBACK", p.id, 0, data))) /\ UNCHANGED cring
                   \/ ClientTakes(p) /\ CanAdd(cring) /\ cring' = Recorded(p)
      BY <2>2 DEF AcceptDelivery
    <3>2. SoundRing(cring', StoredIds)
      BY <1>1, <3>1, SoundRecorded
    <3> QED
      BY <1>4, <1>5, <1>6, <3>1, <3>2
  <2> QED
    BY <1>9, <2>1, <2>2 DEF ReceiveDelivery
<1>10. CASE ReceiveDeliveryPubrel
  <2>1. PICK p : \/ /\ Matches(cring, p.id, TRUE) # {}
                    /\ ClientAnswers(p, Packet("PUBCOMP", p.id, 0, 0))
                    /\ cring' \in {cring, Deactivate(cring, Found(cring, p.id, TRUE))}
                 \/ ClientTakes(p) /\ UNCHANGED cring
    BY <1>10 DEF ReceiveDeliveryPubrel
  <2>2. SoundRing(cring', StoredIds)
    BY <1>1, <1>3, <2>1
  <2> QED
    BY <1>4, <1>5, <1>6, <2>1, <2>2
<1>11. CASE Ignored({"REGISTER", "REGACK", "SUBACK", "PUBLISH", "PUBREL"})
  <2>1. PICK p : ClientTakes(p) /\ UNCHANGED cring
    BY <1>11 DEF Ignored
  <2> QED
    BY <1>1, <1>4, <2>1
<1> QED
  BY <1>7, <1>8, <1>9, <1>10, <1>11 DEF ClientTopicsHandler
----------------------------------------------------------------------------
(* The ring of the gateway.                                                   *)
LEMMA AnswerableFresh ==
  ASSUME NEW r, NEW ids, NEW publishes, NEW mid, HandedOver(publishes, mid)
  PROVE  /\ AnswerableRing(EmptyRing, ids, publishes, mid)
         /\ AnswerableRing(Cleared(r), ids, publishes, mid)
BY EmptyRingFields, ClearedRing, BlankFields, ResetFields
DEF AnswerableRing, Answerable, Asking, WaitsFor, HandedOver

LEMMA AnswerableSet ==
  ASSUME NEW r, NEW ids, NEW publishes, NEW mid, AnswerableRing(r, ids, publishes, mid),
         NEW i \in Places, NEW m, IsMessage(m), Answerable(m, ids, publishes, mid)
  PROVE  AnswerableRing([r EXCEPT !.place[i] = m], ids, publishes, mid)
<1> DEFINE n == [r EXCEPT !.place[i] = m]
<1>1. IsRing(n) /\ n.place[i] = m /\ \A j \in Places \ {i} : n.place[j] = r.place[j]
  BY PlaceSet DEF AnswerableRing
<1> HIDE DEF n
<1>2. AnswerableRing(n, ids, publishes, mid)
  BY <1>1 DEF AnswerableRing
<1> QED
  BY <1>2 DEF n

LEMMA AnswerableLooked ==
  ASSUME NEW r, NEW ids, NEW publishes, NEW mid, AnswerableRing(r, ids, publishes, mid)
  PROVE  AnswerableRing(Looked(r), ids, publishes, mid)
BY LookedRing DEF AnswerableRing

LEMMA AnswerableDeactivate ==
  ASSUME NEW r, NEW ids, NEW publishes, NEW mid, AnswerableRing(r, ids, publishes, mid),
         NEW i \in Places
  PROVE  AnswerableRing(Deactivate(r, i), ids, publishes, mid)
<1> DEFINE m == [r.place[i] EXCEPT !.active = FALSE]
<1>1. IsRing(r) /\ IsMessage(r.place[i]) /\ Answerable(r.place[i], ids, publishes, mid)
  BY DEF AnswerableRing, IsRing
<1>2. Answerable(m, ids, publishes, mid)
  BY <1>1, InactiveFields DEF Answerable, Asking, WaitsFor, Fields
<1>3. LET n == Deactivate(r, i) IN
        /\ IsRing(n) /\ n.place[i] = m
        /\ \A j \in Places \ {i} : n.place[j] = r.place[j]
  BY <1>1, DeactivateRing
<1> HIDE DEF m
<1> QED
  BY <1>2, <1>3 DEF AnswerableRing

LEMMA AnswerableAdd ==
  ASSUME NEW r, NEW ids, NEW publishes, NEW mid, AnswerableRing(r, ids, publishes, mid),
         HandedOver(publishes, mid), CanAdd(r), NEW activity
  PROVE  AnswerableRing(Add(r, activity), ids, publishes, mid)
<1>1. LET n == Add(r, activity)
          i == AddedAt(r)
      IN /\ IsRing(n) /\ n.place[i].type = "none" /\ n.place[i].mos = 0
         /\ \A j \in Places \ {i} : n.place[j] = r.place[j]
  BY AddRing DEF AnswerableRing
<1> QED
  BY <1>1 DEF AnswerableRing, Answerable, Asking, WaitsFor, HandedOver

(* The packets the gateway has in its ring from the start of their exchange.  *)
Notices == {"WILLTOPICREQ", "REGISTER", "PUBLISH"}

LEMMA AnswerableNotice ==
  ASSUME NEW r, NEW ids, NEW publishes, NEW mid, AnswerableRing(r, ids, publishes, mid),
         HandedOver(publishes, mid), CanAdd(r), NEW activity, NEW type \in Notices,
         NEW tid, NEW name, NEW data, NEW qos, NEW oneshot, NoWills => type # "WILLTOPICREQ"
  PROVE  AnswerableRing(AddAbout(r, activity, type, tid, name, data, qos, oneshot), ids,
                        publishes, mid)
<1>1. LET n == AddAbout(r, activity, type, tid, name, data, qos, oneshot)
          i == AddedAt(r)
      IN /\ IsRing(n) /\ n.place[i].type = type /\ n.place[i].mos = 0
         /\ \A j \in Places \ {i} : n.place[j] = r.place[j]
  BY AddAboutRing DEF AnswerableRing
<1> QED
  BY <1>1 DEF AnswerableRing, Answerable, Asking, WaitsFor, HandedOver, Notices

(* A message that is replaced keeps its id and its mid.                       *)
LEMMA AnswerableReplaced ==
  ASSUME NEW r, NEW ids, NEW publishes, NEW mid, AnswerableRing(r, ids, publishes, mid),
         NEW i \in Places, NEW type \in {"WILLMSGREQ", "PUBREL"}, NEW data, NEW activity,
         NoWills => type # "WILLMSGREQ"
  PROVE  AnswerableRing([r EXCEPT !.place[i] = ReplaceWith(@, type, data, activity)], ids,
                        publishes, mid)
<1> DEFINE m == ReplaceWith(r.place[i], type, data, activity)
<1>1. IsRing(r) /\ IsMessage(r.place[i]) /\ Answerable(r.place[i], ids, publishes, mid)
  BY DEF AnswerableRing, IsRing
<1>2. /\ IsMessage(m) /\ m.type = type
      /\ m.id = r.place[i].id /\ m.mos = r.place[i].mos /\ m.qos = r.place[i].qos
  BY <1>1, ReplaceFields
<1>3. [r EXCEPT !.place[i] = ReplaceWith(@, type, data, activity)] = [r EXCEPT !.place[i] = m]
  BY <1>1 DEF IsRing
<1> HIDE DEF m
<1>4. Answerable(m, ids, publishes, mid)
  BY <1>1, <1>2 DEF Answerable, Asking, WaitsFor
<1> QED
  BY <1>2, <1>3, <1>4, AnswerableSet

(* The current message, and what the ring's turn makes of it.                 *)
LEMMA AnswerableCurrent ==
  ASSUME NEW r, NEW ids, NEW publishes, NEW mid, AnswerableRing(r, ids, publishes, mid),
         Active(r) # {}
  PROVE  LET m == r.place[Current(r)] IN
           /\ Current(r) \in Places /\ IsMessage(m)
           /\ \A n \in {m, Sending(m), Expired(m), [Expired(m) EXCEPT !.active = FALSE]} :
                IsMessage(n) /\ Answerable(n, ids, publishes, mid)
           /\ Truthful(Resent(m), ids) /\ Truthful(Resent(Expired(m)), ids)
<1> DEFINE m == r.place[Current(r)]
<1>1. Current(r) \in Places /\ IsMessage(m) /\ Answerable(m, ids, publishes, mid)
  BY CurrentActive DEF AnswerableRing, IsRing
<1> HIDE DEF m
<1>2. /\ IsMessage(Sending(m)) /\ Answerable(Sending(m), ids, publishes, mid)
      /\ IsMessage(Expired(m)) /\ Answerable(Expired(m), ids, publishes, mid)
  BY <1>1, SendingFields, ExpiredFields DEF Answerable, Asking, WaitsFor, Fields
<1>3. /\ IsMessage([Expired(m) EXCEPT !.active = FALSE])
      /\ Answerable([Expired(m) EXCEPT !.active = FALSE], ids, publishes, mid)
  BY <1>2, InactiveFields DEF Answerable, Asking, WaitsFor, Fields
<1>4. \A x : Answerable(x, ids, publishes, mid) => Truthful(Resent(x), ids)
  BY DEF Answerable, Asking, Truthful, Resent, PacketAbout
<1> QED
  BY <1>1, <1>2, <1>3, <1>4 DEF m
----------------------------------------------------------------------------
(* A step of the gateway keeps the invariant if it forgets no confirmation,   *)
(* keeps its ring answerable and answers the truth.                           *)
LEMMA GatewayKeeps ==
  ASSUME ConfirmedInv, UNCHANGED clientVars,
         StoredIds \subseteq StoredIds', \A s \in stored' : s = Publication(0, s.id),
         HandedOver(waiting', mids'), AnswerableRing(gring', StoredIds', waiting', mids'),
         DOMAIN toGateway' \subseteq DOMAIN toGateway,
         \A p \in DOMAIN toClient' : p \in DOMAIN toClient \/ Truthful(p, StoredIds')
  PROVE  ConfirmedInv'
<1>1. OneLife'
  BY DEF ConfirmedInv, OneLife, clientVars
<1>2. ClientSound'
  BY DEF ConfirmedInv, ClientSound, clientVars, SoundRing, Sound, Willing
<1>3. GatewayTruthful'
  BY DEF ConfirmedInv, GatewayTruthful, Truthful, Asking
<1> QED
  BY <1>1, <1>2, <1>3 DEF ConfirmedInv

(* Most steps hand nothing over and hear nothing of the broker.               *)
LEMMA GatewayAnswers ==
  ASSUME ConfirmedInv, UNCHANGED clientVars, UNCHANGED <<stored, waiting, mids>>,
         AnswerableRing(gring', StoredIds, waiting, mids),
         DOMAIN toGateway' \subseteq DOMAIN toGateway,
         \/ toClient' = toClient
         \/ \E p : Answer(p) /\ Truthful(p, StoredIds)
  PROVE  ConfirmedInv'
<1>1. StoredIds' = StoredIds
  BY DEF StoredIds
<1>2. HandedOver(waiting, mids) /\ \A s \in stored : s = Publication(0, s.id)
  BY DEF ConfirmedInv, GatewayTruthful
<1>3. \A p \in DOMAIN toClient' : p \in DOMAIN toClient \/ Truthful(p, StoredIds)
  BY PacketWritten DEF Answer
<1> QED
  BY <1>1, <1>2, <1>3, GatewayKeeps

(* The packet a handler of the gateway takes.                                 *)
LEMMA TakenSound ==
  ASSUME ConfirmedInv, NEW type, NEW p \in ToGateway(type), Take(p)
  PROVE  p.type = type /\ Sound(p, StoredIds) /\ DOMAIN toGateway' \subseteq DOMAIN toGateway
BY PacketTaken DEF ToGateway, BagToSet, ConfirmedInv, ClientSound, Take

(* What says nothing of a publish is true.                                    *)
Plains == {"CONNACK", "DISCONNECT", "GWINFO", "REGACK", "SUBACK"}
LEMMA PlainTruthful ==
  ASSUME NEW type \in Plains, NEW ids, NEW id, NEW data, NEW tid, NEW name
  PROVE  Truthful(Plain(type), ids) /\ Truthful(Packet(type, id, 0, data), ids)
         /\ Truthful(PacketAbout(type, id, 0, data, tid, name), ids)
BY DEF Plains, Truthful, Asking, Plain, Packet, PacketAbout

LEMMA TurnedAway ==
  ASSUME ConfirmedInv, UNCHANGED clientVars, NEW type, NEW p \in ToGateway(type), Take(p), TurnAway
  PROVE  ConfirmedInv'
<1>1. "DISCONNECT" \in Plains
  BY DEF Plains
<1>2. Truthful(Plain("DISCONNECT"), StoredIds)
  BY <1>1, PlainTruthful
<1>3. /\ UNCHANGED <<stored, waiting, mids, gring>> /\ Answer(Plain("DISCONNECT"))
      /\ AnswerableRing(gring, StoredIds, waiting, mids)
  BY DEF TurnAway, gatewayVars, publishVars, ConfirmedInv, GatewayTruthful
<1>4. DOMAIN toGateway' \subseteq DOMAIN toGateway
  BY TakenSound
<1> QED
  BY <1>2, <1>3, <1>4, GatewayAnswers

(* Publishes are handed over and confirmed: no message loses what it waits    *)
(* for, and none waits for a mid that was not given yet.                      *)
LEMMA AnswerableLater ==
  ASSUME NEW r, NEW ids, NEW publishes, NEW mid \in Nat, AnswerableRing(r, ids, publishes, mid),
         NEW later, NEW waits, NEW top \in Nat,
         ids \subseteq later, mid <= top, \A w \in waits : w \in publishes \/ w.mid \notin 0 .. mid
  PROVE  AnswerableRing(r, later, waits, top)
<1>1. \A m : Answerable(m, ids, publishes, mid) => Answerable(m, later, waits, top)
  BY DEF Answerable, Asking, WaitsFor
<1> QED
  BY <1>1 DEF AnswerableRing

LEMMA GatewayHandshakes ==
  ASSUME ConfirmedInv, UNCHANGED clientVars,
         ReceiveConnect \/ ReceiveWilltopic \/ ReceiveWillmsg \/ ReceiveDisconnect \/ ReceiveSearchgw
  PROVE  ConfirmedInv'
<1>1. /\ HandedOver(waiting, mids) /\ IsRing(gring)
      /\ AnswerableRing(gring, StoredIds, waiting, mids)
      /\ AnswerableRing(Looked(gring), StoredIds, waiting, mids)
      /\ AnswerableRing(Cleared(gring), StoredIds, waiting, mids)
      /\ CanAdd(Cleared(gring))
  <2>1. 0 \in Places
    BY RingSizeAssumption DEF Places
  <2> QED
    BY <2>1, AnswerableLooked, AnswerableFresh, ClearedRing
    DEF ConfirmedInv, GatewayTruthful, AnswerableRing, CanAdd
<1>2. "CONNACK" \in Plains /\ "DISCONNECT" \in Plains /\ "GWINFO" \in Plains
      /\ "WILLTOPICREQ" \in Notices
  BY DEF Plains, Notices
<1>3. /\ Truthful(Plain("CONNACK"), StoredIds) /\ Truthful(Plain("DISCONNECT"), StoredIds)
      /\ Truthful(Plain("GWINFO"), StoredIds)
  BY <1>2, PlainTruthful
<1>4. ASSUME UNCHANGED <<stored, waiting, mids>>, AnswerableRing(gring', StoredIds, waiting, mids),
             NEW type, NEW p \in ToGateway(type), Take(p),
             \/ toClient' = toClient \/ Answer(Plain("CONNACK"))
             \/ Answer(Plain("DISCONNECT")) \/ Answer(Plain("GWINFO"))
      PROVE  ConfirmedInv'
  <2>1. DOMAIN toGateway' \subseteq DOMAIN toGateway
    BY <1>4, TakenSound
  <2> QED
    BY <1>3, <1>4, <2>1, GatewayAnswers
<1>5. CASE ReceiveConnect
  <2>1. PICK p \in ToGateway("CONNECT") :
          /\ Take(p)
          /\ \/ /\ gring' = AddWith(Cleared(gring), "willtopic", "WILLTOPICREQ", 0)
                /\ toClient' = toClient /\ ~NoWills
             \/ gring' = Cleared(gring) /\ Answer(Plain("CONNACK"))
    <3>1. \A p \in ToGateway("CONNECT") : Take(p) /\ WillFlag(p.data) => ~NoWills
      BY TakenSound DEF Sound, Willing
    <3> QED
      BY <1>5, <3>1 DEF ReceiveConnect, WillFlag
  <2>2. ~NoWills => AnswerableRing(AddWith(Cleared(gring), "willtopic", "WILLTOPICREQ", 0),
                                   StoredIds, waiting, mids)
    BY <1>1, <1>2, AnswerableNotice DEF AddWith
  <2>3. UNCHANGED <<stored, waiting, mids>>
    BY <1>5 DEF ReceiveConnect, publishVars
  <2> QED
    BY <1>1, <1>4, <2>1, <2>2, <2>3
<1>6. Active(gring) # {} =>
        /\ AnswerableRing(Deactivate(Looked(gring), Current(gring)), StoredIds, waiting, mids)
        /\ ~NoWills =>
             AnswerableRing([Looked(gring) EXCEPT !.place[Current(gring)] =
                               ReplaceWith(@, "WILLMSGREQ", 0, "willmessage")],
                            StoredIds, waiting, mids)
  <2>1. "WILLMSGREQ" \in {"WILLMSGREQ", "PUBREL"}
    OBVIOUS
  <2>2. Active(gring) # {} => Current(gring) \in Places
    BY <1>1, CurrentActive
  <2> QED
    BY <1>1, <2>1, <2>2, AnswerableDeactivate, AnswerableReplaced
<1>7. CASE ReceiveWilltopic
  <2>1. PICK p \in ToGateway("WILLTOPIC") :
          /\ Take(p)
          /\ \/ TurnAway
             \/ /\ gring' = Looked(gring) /\ toClient' = toClient
                /\ UNCHANGED publishVars
             \/ /\ Active(gring) # {} /\ gring' = Deactivate(Looked(gring), Current(gring))
                /\ Answer(Plain("CONNACK")) /\ UNCHANGED publishVars
             \/ /\ Active(gring) # {}
                /\ gring' = [Looked(gring) EXCEPT !.place[Current(gring)] =
                                 ReplaceWith(@, "WILLMSGREQ", 0, "willmessage")]
                /\ toClient' = toClient /\ UNCHANGED publishVars /\ ~NoWills
    <3>1. \A p \in ToGateway("WILLTOPIC") : Take(p) => ~NoWills
      BY TakenSound DEF Sound, Willing
    <3> QED
      BY <1>7, <3>1 DEF ReceiveWilltopic
  <2> QED
    BY <1>1, <1>4, <1>6, <2>1, TurnedAway DEF publishVars
<1>8. CASE ReceiveWillmsg
  <2>1. PICK p \in ToGateway("WILLMSG") :
          /\ Take(p)
          /\ \/ TurnAway
             \/ /\ gring' = Looked(gring) /\ toClient' = toClient
                /\ UNCHANGED publishVars
             \/ /\ Active(gring) # {} /\ gring' = Deactivate(Looked(gring), Current(gring))
                /\ Answer(Plain("CONNACK")) /\ UNCHANGED publishVars
    BY <1>8 DEF ReceiveWillmsg
  <2> QED
    BY <1>1, <1>4, <1>6, <2>1, TurnedAway DEF publishVars
<1>9. CASE ReceiveDisconnect
  <2>1. PICK p \in ToGateway("DISCONNECT") :
          Take(p) /\ (toClient' = toClient \/ Answer(Plain("DISCONNECT")))
    BY <1>9 DEF ReceiveDisconnect
  <2> QED
    BY <1>1, <1>4, <1>9, <2>1 DEF ReceiveDisconnect, publishVars
<1>10. CASE ReceiveSearchgw
  BY <1>1, <1>4, <1>10 DEF ReceiveSearchgw, gatewayVars, publishVars
<1> QED
  BY <1>5, <1>7, <1>8, <1>9, <1>10

(* server_publish: the new message waits for the mid that is given with it.   *)
LEMMA GatewayForwards ==
  ASSUME ConfirmedInv, UNCHANGED clientVars, NEW p \in ToGateway("PUBLISH"), Take(p), Forward(p)
  PROVE  ConfirmedInv'
<1>1. p.data = 0 /\ p.qos \in 0 .. 2 /\ DOMAIN toGateway' \subseteq DOMAIN toGateway
  BY TakenSound DEF Sound, Willing
<1> DEFINE w == [mid |-> mids + 1, life |-> p.data, id |-> p.id]
<1>2. /\ mids \in Nat /\ HandedOver(waiting, mids)
      /\ AnswerableRing(gring, StoredIds, waiting, mids)
      /\ \A s \in stored : s = Publication(0, s.id)
  BY DEF ConfirmedInv, GatewayTruthful, HandedOver
<1>3. /\ CanAdd(gring) /\ UNCHANGED <<stored, toClient>>
      /\ mids' = mids + 1 /\ waiting' = waiting \cup {w}
  BY DEF Forward, Accept
<1>4. /\ mids' \in Nat /\ HandedOver(waiting', mids')
      /\ \A x \in waiting' : x \in waiting \/ x.mid \notin 0 .. mids
      /\ \A x \in waiting' : x.mid = mids' => x = w
  BY <1>1, <1>2, <1>3 DEF HandedOver
<1>5. StoredIds' = StoredIds /\ StoredIds \subseteq StoredIds'
  BY <1>3 DEF StoredIds
<1>6. AnswerableRing(gring', StoredIds, waiting', mids')
  <2> DEFINE a == Add(gring, "publishing")
             m == [a.place[a.tail] EXCEPT !.mos = mids', !.qos = p.qos, !.id = p.id, !.ext = TRUE]
  <2>1. AnswerableRing(a, StoredIds, waiting, mids)
    BY <1>2, <1>3, AnswerableAdd
  <2>2. AnswerableRing(a, StoredIds, waiting', mids')
    BY <1>2, <1>3, <1>4, <2>1, AnswerableLater
  <2>3. /\ a.tail \in Places /\ IsMessage(a.place[a.tail]) /\ a.place[a.tail].type = "none"
    <3>1. IsRing(gring)
      BY <1>2 DEF AnswerableRing
    <3>2. /\ IsRing(a) /\ a.tail = AddedAt(gring) /\ AddedAt(gring) \in Places
          /\ a.place[AddedAt(gring)].type = "none"
      BY <1>3, <3>1, AddRing
    <3> QED
      BY <3>2 DEF IsRing
  <2>4. gring' = [a EXCEPT !.place[a.tail] = m]
    BY DEF Forward
  <2> HIDE DEF a
  <2>5. /\ IsMessage(m) /\ m.type = "none" /\ m.mos = mids' /\ m.qos = p.qos /\ m.id = p.id
    BY <2>3 DEF IsMessage, Fields
  <2> HIDE DEF m
  <2>6. Answerable(m, StoredIds, waiting', mids')
    BY <1>1, <1>4, <2>5 DEF Answerable, Asking, WaitsFor
  <2> QED
    BY <2>2, <2>3, <2>4, <2>5, <2>6, AnswerableSet
<1> HIDE DEF w
<1> QED
  BY <1>1, <1>2, <1>3, <1>4, <1>5, <1>6, GatewayKeeps

LEMMA GatewayPublishes ==
  ASSUME ConfirmedInv, UNCHANGED clientVars, ReceivePublish \/ ReceivePubrel
  PROVE  ConfirmedInv'
<1>1. /\ HandedOver(waiting, mids) /\ IsRing(gring)
      /\ AnswerableRing(gring, StoredIds, waiting, mids)
  BY DEF ConfirmedInv, GatewayTruthful, AnswerableRing
<1>2. CASE ReceivePublish
  <2>1. PICK p \in ToGateway("PUBLISH") : Take(p) /\ (TurnAway \/ Forward(p) \/ Refuse(p))
    BY <1>2 DEF ReceivePublish
  <2>2. CASE Refuse(p)
    <3>1. UNCHANGED <<stored, waiting, mids>>
      BY <2>2 DEF Refuse, publishVars
    <3>2. DOMAIN toGateway' \subseteq DOMAIN toGateway
      BY <2>1, TakenSound
    <3>3. AnswerableRing(gring', StoredIds, waiting, mids)
      <4>1. CanAdd(gring) => AnswerableRing(Deactivate(Add(gring, "publishing"), AddedAt(gring)),
                                            StoredIds, waiting, mids)
        BY <1>1, AnswerableAdd, AddRing, AnswerableDeactivate
      <4> QED
        BY <1>1, <2>2, <4>1 DEF Refuse
    <3>4. \E x : Answer(x) /\ Truthful(x, StoredIds)
      <4> DEFINE x == Packet("PUBACK", p.id, 0, IF Unknown(p) THEN 2 ELSE 1)
      <4>1. Truthful(x, StoredIds)
        BY DEF Truthful, Asking, Packet, PacketAbout
      <4> QED
        BY <2>2, <4>1 DEF Refuse
    <3> QED
      BY <3>1, <3>2, <3>3, <3>4, GatewayAnswers
  <2> QED
    BY <2>1, <2>2, GatewayForwards, TurnedAway
<1>3. CASE ReceivePubrel
  <2>1. PICK p \in ToGateway("PUBREL") :
          /\ Take(p)
          /\ \/ TurnAway
             \/ UNCHANGED <<gring, toClient>> /\ UNCHANGED publishVars
             \/ /\ Matches(gring, p.id, TRUE) # {}
                /\ gring' = Deactivate(gring, Found(gring, p.id, TRUE))
                /\ Answer(Packet("PUBCOMP", p.id, 0, 0)) /\ UNCHANGED publishVars
    BY <1>3 DEF ReceivePubrel
  <2>2. /\ p.id \in StoredIds /\ DOMAIN toGateway' \subseteq DOMAIN toGateway
        /\ Truthful(Packet("PUBCOMP", p.id, 0, 0), StoredIds)
    BY <2>1, TakenSound DEF Sound, Willing, Truthful, Asking, Packet, PacketAbout
  <2>3. Matches(gring, p.id, TRUE) # {} =>
          AnswerableRing(Deactivate(gring, Found(gring, p.id, TRUE)), StoredIds, waiting, mids)
    BY <1>1, FoundExternal, AnswerableDeactivate
  <2> QED
    BY <1>1, <2>1, <2>2, <2>3, TurnedAway, GatewayAnswers DEF publishVars
<1> QED
  BY <1>2, <1>3

(* gateway_publish_callback: what it answers was confirmed with it.           *)
LEMMA GatewayHears ==
  ASSUME ConfirmedInv, UNCHANGED clientVars, PublishCallback
  PROVE  ConfirmedInv'
<1>1. /\ mids \in Nat /\ HandedOver(waiting, mids) /\ IsRing(gring)
      /\ AnswerableRing(gring, StoredIds, waiting, mids)
      /\ \A s \in stored : s = Publication(0, s.id)
  BY DEF ConfirmedInv, GatewayTruthful, AnswerableRing, HandedOver
<1>2. PICK w \in waiting :
        /\ waiting' = waiting \ {w}
        /\ stored' = stored \cup {Publication(w.life, w.id)}
        /\ \/ UNCHANGED <<gring, toClient>>
           \/ MosMatches(gring, w.mid) # {} /\ Confirm(Lowest(MosMatches(gring, w.mid)))
  BY DEF PublishCallback, Publication
<1>3. /\ mids' = mids /\ DOMAIN toGateway' \subseteq DOMAIN toGateway
      /\ StoredIds' = StoredIds \cup {w.id}
      /\ w.life = 0 /\ \A s \in stored' : s = Publication(0, s.id)
  <2>1. mids' = mids /\ toGateway' = toGateway
    BY DEF PublishCallback
  <2>2. StoredIds' = StoredIds \cup {w.id}
    <3>1. Publication(w.life, w.id).id = w.id
      BY DEF Publication
    <3> QED
      BY <1>2, <3>1 DEF StoredIds
  <2>3. w.life = 0
    BY <1>1 DEF HandedOver
  <2>4. \A s \in stored' : s = Publication(0, s.id)
    BY <1>1, <1>2, <2>3 DEF Publication
  <2> QED
    BY <2>1, <2>2, <2>3, <2>4
<1>4. /\ HandedOver(waiting', mids')
      /\ AnswerableRing(gring, StoredIds', waiting', mids')
  BY <1>1, <1>2, <1>3, AnswerableLater DEF HandedOver
<1>5. CASE UNCHANGED <<gring, toClient>>
  BY <1>3, <1>4, <1>5, GatewayKeeps
<1>6. CASE MosMatches(gring, w.mid) # {} /\ Confirm(Lowest(MosMatches(gring, w.mid)))
  <2> DEFINE i == Lowest(MosMatches(gring, w.mid))
             m == gring.place[i]
             n == [m EXCEPT !.type = "PUBREC"]
  <2>1. i \in Places /\ m.mos = w.mid
    BY <1>6, LowestMember DEF MosMatches
  <2>2. /\ IsMessage(m) /\ Answerable(m, StoredIds', waiting', mids')
        /\ m.id = w.id /\ m.qos \in 0 .. 2
    BY <1>1, <1>4, <2>1 DEF AnswerableRing, IsRing, Answerable, Asking, WaitsFor
  <2>3. \/ gring' = Deactivate(gring, i) /\ toClient' = toClient
        \/ gring' = Deactivate(gring, i) /\ Answer(Packet("PUBACK", m.id, 0, 0))
        \/ gring' = [gring EXCEPT !.place[i] = n] /\ toClient' = toClient
    <3>1. [gring EXCEPT !.place[i].type = "PUBREC"] = [gring EXCEPT !.place[i] = n]
      BY <1>1, <2>1 DEF IsRing
    <3>2. m.qos = 0 \/ m.qos = 1 \/ m.qos = 2
      BY <2>2
    <3>3. 0 # 1 /\ 0 # 2 /\ 1 # 2
      OBVIOUS
    <3>4. Confirm(i)
      BY <1>6
    <3> HIDE DEF i, n
    <3>5. CASE m.qos = 0
      BY <3>3, <3>4, <3>5, Zenon DEF Confirm
    <3>6. CASE m.qos = 1
      BY <3>3, <3>4, <3>6, Zenon DEF Confirm
    <3>7. CASE m.qos = 2
      BY <3>1, <3>3, <3>4, <3>7, Zenon DEF Confirm
    <3> QED
      BY <3>2, <3>5, <3>6, <3>7
  <2>4. Truthful(Packet("PUBACK", m.id, 0, 0), StoredIds')
    BY <1>3, <2>2 DEF Truthful, Asking, Packet, PacketAbout
  <2> HIDE DEF i, m
  <2>5. IsMessage(n) /\ n.type = "PUBREC" /\ n.id = m.id /\ n.mos = m.mos /\ n.qos = m.qos
    BY <2>2 DEF IsMessage, Fields
  <2>6. Answerable(n, StoredIds', waiting', mids')
    <3> HIDE DEF n
    <3> QED
      BY <1>3, <2>2, <2>5 DEF Answerable, Asking, WaitsFor
  <2> HIDE DEF n
  <2>7. AnswerableRing(gring', StoredIds', waiting', mids')
    BY <1>4, <2>1, <2>3, <2>5, <2>6, AnswerableSet, AnswerableDeactivate
  <2>8. \A p \in DOMAIN toClient' : p \in DOMAIN toClient \/ Truthful(p, StoredIds')
    BY <2>3, <2>4, PacketWritten DEF Answer
  <2> QED
    BY <1>3, <1>4, <2>7, <2>8, GatewayKeeps
<1> QED
  BY <1>2, <1>5, <1>6

(* register_topic() adds a REGISTER or does nothing.                          *)
LEMMA RegisterAnswerable ==
  ASSUME NEW r, AnswerableRing(r, StoredIds, waiting, mids), HandedOver(waiting, mids),
         NEW i, NEW all, RegisterTopic(r, i, all)
  PROVE  AnswerableRing(gring', StoredIds, waiting, mids)
<1>1. "REGISTER" \in Notices
  BY DEF Notices
<1>2. CASE gring' = r
  BY <1>2
<1>3. CASE CanAdd(r) /\ gring' = AddAbout(r, IF all THEN "registeringall" ELSE "registering",
                                          "REGISTER", gtopics'[i].id, gtopics'[i].name, 0, KeptQos(r), FALSE)
  BY <1>1, <1>3, AnswerableNotice
<1> QED
  BY <1>2, <1>3 DEF RegisterTopic

LEMMA GatewayManages ==
  ASSUME ConfirmedInv, UNCHANGED clientVars, GatewayManage
  PROVE  ConfirmedInv'
<1> DEFINE i == Current(gring)
           m == gring.place[i]
<1>1. /\ HandedOver(waiting, mids) /\ IsRing(gring)
      /\ AnswerableRing(gring, StoredIds, waiting, mids)
      /\ AnswerableRing(Looked(gring), StoredIds, waiting, mids)
      /\ AnswerableRing(Cleared(gring), StoredIds, waiting, mids)
  BY AnswerableLooked, AnswerableFresh DEF ConfirmedInv, GatewayTruthful, AnswerableRing
<1>2. UNCHANGED <<stored, waiting, mids, toGateway>>
  BY DEF GatewayManage, GatewayLost, GatewayWrite, GatewayResend, GatewayGiveUp, GatewayIdle,
         publishVars, radioVars
<1>3. ASSUME AnswerableRing(gring', StoredIds, waiting, mids),
             \/ toClient' = toClient
             \/ \E p : Answer(p) /\ Truthful(p, StoredIds)
      PROVE  ConfirmedInv'
  BY <1>2, <1>3, GatewayAnswers
<1>4. CASE GatewayLost
  <2>1. "DISCONNECT" \in Plains
    BY DEF Plains
  <2>2. Truthful(Plain("DISCONNECT"), StoredIds)
    BY <2>1, PlainTruthful
  <2> QED
    BY <1>1, <1>3, <1>4, <2>2 DEF GatewayLost
<1>5. Active(gring) # {} =>
        /\ i \in Places
        /\ \A n \in {m, Sending(m), Expired(m), [Expired(m) EXCEPT !.active = FALSE]} :
             IsMessage(n) /\ Answerable(n, StoredIds, waiting, mids)
        /\ Truthful(Resent(m), StoredIds) /\ Truthful(Resent(Expired(m)), StoredIds)
  BY <1>1, AnswerableCurrent
<1>6. ASSUME Active(gring) # {},
             NEW n \in {m, Sending(m), Expired(m), [Expired(m) EXCEPT !.active = FALSE]},
             gring' = [Looked(gring) EXCEPT !.place[i] = n],
             toClient' = toClient \/ Answer(Resent(m)) \/ Answer(Resent(Expired(m)))
      PROVE  ConfirmedInv'
  <2> HIDE DEF m, i
  <2>1. AnswerableRing(gring', StoredIds, waiting, mids)
    BY <1>1, <1>5, <1>6, AnswerableSet
  <2> QED
    BY <1>3, <1>5, <1>6, <2>1
<1>7. CASE \E succeeds \in BOOLEAN : GatewayWrite(succeeds)
  <2>1. Active(gring) # {} /\ Answer(Resent(m))
        /\ \/ gring' = [Looked(gring) EXCEPT !.place[i] = Sending(m)]
           \/ gring' = [Looked(gring) EXCEPT !.place[i] = m]
    BY <1>7 DEF GatewayWrite, ToSend
  <2> HIDE DEF m, i
  <2> QED
    BY <1>6, <2>1
<1>8. CASE GatewayResend
  <2>1. Active(gring) # {} /\ Answer(Resent(Expired(m)))
        /\ gring' = [Looked(gring) EXCEPT !.place[i] = Expired(m)]
    BY <1>8 DEF GatewayResend, ToSend
  <2> HIDE DEF m, i
  <2> QED
    BY <1>6, <2>1
<1>9. CASE GatewayGiveUp
  <2>1. Active(gring) # {} /\ toClient' = toClient
        /\ \/ gring' = Cleared(gring)
           \/ gring' = [Looked(gring) EXCEPT !.place[i] = [Expired(m) EXCEPT !.active = FALSE]]
    BY <1>9 DEF GatewayGiveUp, ToSend, radioVars
  <2> HIDE DEF m, i
  <2> QED
    BY <1>1, <1>3, <1>6, <2>1
<1>10. CASE GatewayIdle
  <2>1. toClient' = toClient
        /\ (gring' = Looked(gring) \/ \E j : RegisterTopic(Looked(gring), j, TRUE))
    BY <1>10 DEF GatewayIdle, radioVars
  <2> QED
    BY <1>1, <1>3, <2>1, RegisterAnswerable
<1> QED
  BY <1>4, <1>7, <1>8, <1>9, <1>10 DEF GatewayManage

LEMMA GatewayRestarts ==
  ASSUME ConfirmedInv, UNCHANGED clientVars, GatewayRestart
  PROVE  ConfirmedInv'
<1>1. /\ stored' = stored /\ toClient' = toClient /\ toGateway' = EmptyBag
      /\ gring' = EmptyRing /\ waiting' = {} /\ mids' = 0
  BY DEF GatewayRestart
<1>2. StoredIds' = StoredIds /\ \A s \in stored' : s = Publication(0, s.id)
  BY <1>1 DEF StoredIds, ConfirmedInv, GatewayTruthful
<1>3. HandedOver({}, 0)
  BY DEF HandedOver
<1>4. AnswerableRing(EmptyRing, StoredIds, {}, 0)
  BY <1>3, AnswerableFresh
<1> QED
  BY <1>1, <1>2, <1>3, <1>4, NoPackets, GatewayKeeps

(* Topics and deliveries.                                                     *)
LEMMA GatewayHandlesTopics ==
  ASSUME ConfirmedInv, UNCHANGED clientVars, GatewayTopicsHandler
  PROVE  ConfirmedInv'
<1>1. /\ mids \in Nat /\ HandedOver(waiting, mids) /\ IsRing(gring)
      /\ AnswerableRing(gring, StoredIds, waiting, mids)
      /\ UNCHANGED <<waiting, stored>> /\ StoredIds' = StoredIds
      /\ \A s \in stored : s = Publication(0, s.id)
  BY DEF ConfirmedInv, GatewayTruthful, AnswerableRing, HandedOver, GatewayTopicsHandler, StoredIds
<1>2. "REGACK" \in Plains /\ "SUBACK" \in Plains
  BY DEF Plains
<1>3. \A id : Matches(gring, id, FALSE) # {} =>
        AnswerableRing(Deactivate(gring, Found(gring, id, FALSE)), StoredIds, waiting, mids)
  BY <1>1, FoundOwn, AnswerableDeactivate
<1>4. ASSUME NEW type, NEW p \in ToGateway(type), Take(p),
             \/ TurnAway
             \/ /\ mids' = mids /\ AnswerableRing(gring', StoredIds, waiting, mids)
                /\ toClient' = toClient \/ \E x : Answer(x) /\ Truthful(x, StoredIds)
      PROVE  ConfirmedInv'
  <2>1. DOMAIN toGateway' \subseteq DOMAIN toGateway
    BY <1>4, TakenSound
  <2> QED
    BY <1>1, <1>4, <2>1, GatewayAnswers, TurnedAway
<1>5. CASE ReceiveTopic
  <2>1. PICK p \in ToGateway("REGISTER") :
          /\ Take(p)
          /\ \/ TurnAway
             \/ /\ mids' = mids /\ gring' = gring
                /\ Answer(PacketAbout("REGACK", p.id, 0, 0,
                                      gtopics'[ByName(gtopics', p.name)].id, ""))
    BY <1>5 DEF ReceiveTopic, Handle
  <2>2. Truthful(PacketAbout("REGACK", p.id, 0, 0, gtopics'[ByName(gtopics', p.name)].id, ""),
                 StoredIds)
    BY <1>2, PlainTruthful
  <2> QED
    BY <1>1, <1>4, <2>1, <2>2
<1>6. CASE ReceiveTopicAck
  <2>1. PICK p \in ToGateway("REGACK") :
          /\ Take(p)
          /\ \/ TurnAway
             \/ /\ mids' = mids /\ toClient' = toClient
                /\ \/ gring' = gring
                   \/ Matches(gring, p.id, FALSE) # {} /\
                      LET r == Deactivate(gring, Found(gring, p.id, FALSE)) IN
                        gring' = r \/ \E j : RegisterTopic(r, j, TRUE)
    BY <1>6 DEF ReceiveTopicAck, Handle
  <2> QED
    BY <1>1, <1>3, <1>4, <2>1, RegisterAnswerable
<1>7. CASE ReceiveDelivered
  <2>1. PICK p \in ToGateway("PUBACK") :
          /\ Take(p)
          /\ \/ TurnAway
             \/ /\ mids' = mids /\ toClient' = toClient
                /\ \/ gring' = gring
                   \/ /\ Matches(gring, p.id, FALSE) # {}
                      /\ gring' = Deactivate(gring, Found(gring, p.id, FALSE))
    BY <1>7 DEF ReceiveDelivered, Handle
  <2> QED
    BY <1>1, <1>3, <1>4, <2>1
<1>8. CASE ReceiveCompleted
  <2>1. PICK p \in ToGateway("PUBCOMP") :
          /\ Take(p)
          /\ \/ TurnAway
             \/ /\ mids' = mids /\ toClient' = toClient
                /\ \/ gring' = gring
                   \/ /\ Matches(gring, p.id, FALSE) # {}
                      /\ gring' = Deactivate(gring, Found(gring, p.id, FALSE))
    BY <1>8 DEF ReceiveCompleted, Handle
  <2> QED
    BY <1>1, <1>3, <1>4, <2>1
<1>9. CASE ReceiveRecorded
  <2>1. PICK p \in ToGateway("PUBREC") :
          /\ Take(p)
          /\ \/ TurnAway
             \/ /\ mids' = mids /\ toClient' = toClient
                /\ \/ gring' = gring
                   \/ /\ Matches(gring, p.id, FALSE) # {}
                      /\ gring' = [gring EXCEPT !.place[Found(gring, p.id, FALSE)] =
                                     ReplaceWith(@, "PUBREL", @.data, "publishing")]
    BY <1>9 DEF ReceiveRecorded, Handle
  <2>2. "PUBREL" \in {"WILLMSGREQ", "PUBREL"}
    OBVIOUS
  <2>3. \A i \in Places :
          AnswerableRing([gring EXCEPT !.place[i] =
                            ReplaceWith(@, "PUBREL", gring.place[i].data, "publishing")],
                         StoredIds, waiting, mids)
    BY <1>1, <2>2, AnswerableReplaced
  <2> QED
    BY <1>1, <1>4, <2>1, <2>3, FoundOwn
<1>10. CASE ReceiveSubscribe
  <2> DEFINE a == Add(gring, "subscribing")
             topics(p) == AddTopic(gtopics, p.name, p.id)
             waits(p) == [a.place[a.tail] EXCEPT !.tid = topics(p)[ByName(topics(p), p.name)].id,
                                                 !.id = p.id, !.ext = TRUE, !.qos = p.qos,
                                                 !.mos = mids', !.oneshot = TRUE]
  <2>1. PICK p \in ToGateway("SUBSCRIBE") :
          /\ Take(p)
          /\ \/ TurnAway
             \/ /\ mids' = mids /\ gring' = gring
                /\ \E data, tid : Answer(PacketAbout("SUBACK", p.id, 0, data, tid, ""))
             \/ /\ mids' = mids + 1 /\ gring' = gring
                /\ \E data : Answer(Packet("SUBACK", p.id, 0, data))
             \/ /\ mids' = mids + 1 /\ CanAdd(gring) /\ toClient' = toClient
                /\ gring' = [a EXCEPT !.place[a.tail] = waits(p)]
    BY <1>10 DEF ReceiveSubscribe, Handle, SubscribeTo, SubscribeFails, Packet
  <2>2. \A id, data, tid : /\ Truthful(PacketAbout("SUBACK", id, 0, data, tid, ""), StoredIds)
                           /\ Truthful(Packet("SUBACK", id, 0, data), StoredIds)
    BY <1>2, PlainTruthful
  <2>3. CASE mids' = mids + 1
    <3>1. HandedOver(waiting, mids') /\ AnswerableRing(gring, StoredIds, waiting, mids')
      <4>1. mids' \in Nat /\ mids <= mids' /\ \A w \in waiting : w \in waiting \/ w.mid \notin 0 .. mids
        BY <1>1, <2>3
      <4>2. HandedOver(waiting, mids')
        BY <1>1, <2>3, <4>1 DEF HandedOver
      <4> QED
        BY <1>1, <4>1, <4>2, AnswerableLater
    <3>2. ASSUME AnswerableRing(gring', StoredIds, waiting, mids'),
                 toClient' = toClient \/ \E x : Answer(x) /\ Truthful(x, StoredIds)
          PROVE  ConfirmedInv'
      <4>1. DOMAIN toGateway' \subseteq DOMAIN toGateway
        BY <2>1, TakenSound
      <4>2. \A x \in DOMAIN toClient' : x \in DOMAIN toClient \/ Truthful(x, StoredIds)
        BY <3>2, PacketWritten DEF Answer
      <4> QED
        BY <1>1, <3>1, <3>2, <4>1, <4>2, GatewayKeeps
    <3>3. CASE gring' = gring /\ \E data : Answer(Packet("SUBACK", p.id, 0, data))
      BY <2>2, <3>1, <3>2, <3>3
    <3>4. CASE CanAdd(gring) /\ toClient' = toClient /\ gring' = [a EXCEPT !.place[a.tail] = waits(p)]
      <4>1. AnswerableRing(a, StoredIds, waiting, mids')
        BY <1>1, <3>1, <3>4, AnswerableAdd
      <4>2. /\ IsRing(a) /\ a.tail = AddedAt(gring) /\ AddedAt(gring) \in Places
            /\ a.place[AddedAt(gring)].type = "none"
        BY <1>1, <3>4, AddRing
      <4>3. a.tail \in Places /\ IsMessage(a.place[a.tail]) /\ a.place[a.tail].type = "none"
        BY <4>2 DEF IsRing
      <4> HIDE DEF a
      <4>4. IsMessage(waits(p)) /\ waits(p).type = "none" /\ waits(p).mos = mids'
        BY <4>3 DEF IsMessage, Fields
      <4> HIDE DEF waits
      <4>5. Answerable(waits(p), StoredIds, waiting, mids')
        BY <1>1, <2>3, <4>4 DEF Answerable, Asking, WaitsFor, HandedOver
      <4>6. AnswerableRing(gring', StoredIds, waiting, mids')
        BY <3>4, <4>1, <4>3, <4>4, <4>5, AnswerableSet
      <4> QED
        BY <3>2, <3>4, <4>6
    <3>5. CASE TurnAway
      BY <2>1, <3>5, TurnedAway
    <3>6. CASE mids' = mids
      BY <1>1, <2>3, <3>6
    <3> QED
      BY <2>1, <3>3, <3>4, <3>5, <3>6
  <2> HIDE DEF waits, a
  <2> QED
    BY <1>1, <1>4, <2>1, <2>2, <2>3
<1> QED
  BY <1>5, <1>6, <1>7, <1>8, <1>9, <1>10 DEF GatewayTopicsHandler

(* What the message callback does to the ring: it queues the message, or the  *)
(* registration of its topic and, later, the message.                         *)
LEMMA CallbackQueues ==
  ASSUME MessageCallback \/ MessageTail
  PROVE  /\ UNCHANGED <<gstate, waiting, stored, mids, pending, radioVars>>
         /\ \/ gring' = gring
            \/ \E tid, name, qos, number : gring' = Delivery(gring, tid, name, qos, number)
            \/ \E j : RegisterTopic(gring, j, gsend)
<1>1. CASE MessageCallback
  <2>1. gring' = gring \/ \E i, name : DoPublishTopic(i, name)
    BY <1>1 DEF MessageCallback
  <2>2. ASSUME NEW i, NEW name, DoPublishTopic(i, name)
        PROVE  \/ \E tid, nm, qos, number : gring' = Delivery(gring, tid, nm, qos, number)
               \/ \E j : RegisterTopic(gring, j, gsend)
    <3>1. (\E k, qos : DeliverKnown(k, name, qos)) \/ \E qos : DeliverNew(name, qos)
      BY <2>2 DEF DoPublishTopic
    <3>2. ASSUME NEW k, NEW qos, DeliverKnown(k, name, qos)
          PROVE  \E tid, nm, q, number : gring' = Delivery(gring, tid, nm, q, number)
      BY <3>2 DEF DeliverKnown
    <3>3. ASSUME NEW qos, DeliverNew(name, qos)
          PROVE  \E j : RegisterTopic(gring, j, gsend)
      BY <3>3 DEF DeliverNew
    <3> QED
      BY <3>1, <3>2, <3>3
  <2>3. UNCHANGED <<gstate, waiting, stored, mids, pending, radioVars>>
    BY <1>1 DEF MessageCallback, publishVars
  <2> QED
    BY <2>1, <2>2, <2>3
<1>2. CASE MessageTail
  <2>1. \E tid, name, qos, number : gring' = Delivery(gring, tid, name, qos, number)
    BY <1>2 DEF MessageTail
  <2>2. UNCHANGED <<gstate, waiting, stored, mids, pending, radioVars>>
    BY <1>2 DEF MessageTail, publishVars
  <2> QED
    BY <2>1, <2>2
<1> QED
  BY <1>1, <1>2

(* The callbacks of mosquitto for subscriptions and messages.                 *)
LEMMA GatewayCalledBack ==
  ASSUME ConfirmedInv, UNCHANGED clientVars,
         SubscribeCallback \/ MessageCallback \/ MessageTail
  PROVE  ConfirmedInv'
<1>1. /\ HandedOver(waiting, mids) /\ IsRing(gring)
      /\ AnswerableRing(gring, StoredIds, waiting, mids)
  BY DEF ConfirmedInv, GatewayTruthful, AnswerableRing
<1>2. UNCHANGED <<waiting, stored, mids, toClient, toGateway>>
  BY CallbackQueues DEF SubscribeCallback, radioVars
<1>3. ASSUME AnswerableRing(gring', StoredIds, waiting, mids)
      PROVE  ConfirmedInv'
  BY <1>2, <1>3, GatewayAnswers
<1>4. CASE SubscribeCallback
  <2>1. PICK mid \in pending :
          \/ gring' = gring
          \/ /\ MosMatches(gring, mid) # {}
             /\ gring' = [gring EXCEPT !.place[Lowest(MosMatches(gring, mid))].type = "SUBACK"]
    BY <1>4 DEF SubscribeCallback, Answered
  <2>2. CASE gring' # gring
    <3> DEFINE i == Lowest(MosMatches(gring, mid))
               m == gring.place[i]
               n == [m EXCEPT !.type = "SUBACK"]
    <3>1. i \in Places
      BY <2>1, <2>2, LowestMember DEF MosMatches
    <3>2. IsMessage(m) /\ Answerable(m, StoredIds, waiting, mids)
      BY <1>1, <3>1 DEF AnswerableRing, IsRing
    <3>3. gring' = [gring EXCEPT !.place[i] = n]
      BY <1>1, <2>1, <2>2, <3>1 DEF IsRing
    <3> HIDE DEF i, m
    <3>4. IsMessage(n) /\ n.type = "SUBACK" /\ n.id = m.id /\ n.mos = m.mos /\ n.qos = m.qos
      BY <3>2 DEF IsMessage, Fields
    <3> HIDE DEF n
    <3>5. Answerable(n, StoredIds, waiting, mids)
      BY <3>2, <3>4 DEF Answerable, Asking, WaitsFor
    <3> QED
      BY <1>1, <1>3, <3>1, <3>3, <3>4, <3>5, AnswerableSet
  <2> QED
    BY <1>1, <1>3, <2>2
<1>5. CASE MessageCallback \/ MessageTail
  <2>1. "PUBLISH" \in Notices
    BY DEF Notices
  <2>2. ASSUME NEW tid, NEW name, NEW qos, NEW number
        PROVE  AnswerableRing(Delivery(gring, tid, name, qos, number), StoredIds, waiting, mids)
    <3>1. CanAdd(gring) => AnswerableRing(AddAbout(gring, "publishing", "PUBLISH", tid, name, number,
                                                   qos, qos = 0), StoredIds, waiting, mids)
      BY <1>1, <2>1, AnswerableNotice
    <3> QED
      BY <1>1, <3>1 DEF Delivery
  <2>3. ASSUME NEW j, RegisterTopic(gring, j, gsend)
        PROVE  AnswerableRing(gring', StoredIds, waiting, mids)
    BY <1>1, <2>3, RegisterAnswerable
  <2> QED
    BY <1>1, <1>3, <1>5, <2>2, <2>3, CallbackQueues
<1> QED
  BY <1>4, <1>5
----------------------------------------------------------------------------
LEMMA ConfirmedInit == Init => ConfirmedInv
<1> SUFFICES ASSUME Init PROVE ConfirmedInv
  OBVIOUS
<1>1. OneLife
  BY DEF Init, CInit, OneLife, Calls
<1>2. ClientSound
  BY SoundFresh, NoPackets DEF Init, CInit, ClientSound
<1>3. GatewayTruthful
  <2>1. HandedOver(waiting, mids) /\ stored = {} /\ DOMAIN toClient = {}
    BY NoPackets DEF Init, GInit, HandedOver
  <2>2. AnswerableRing(gring, StoredIds, waiting, mids)
    <3>1. gring = [EmptyRing EXCEPT !.last = Cardinality(brokersubs)]
      BY DEF Init, GInit
    <3>2. IsRing(gring) /\ \A i \in Places : gring.place[i] = Blank
      BY <3>1, InitialRing
    <3>3. waiting = {} /\ mids = 0
      BY DEF Init, GInit
    <3>4. Answerable(Blank, StoredIds, waiting, mids)
      BY <3>3, BlankFields DEF Answerable, Asking, WaitsFor
    <3> QED
      BY <3>2, <3>4 DEF AnswerableRing
  <2> QED
    BY <2>1, <2>2 DEF GatewayTruthful
<1> QED
  BY <1>1, <1>2, <1>3 DEF ConfirmedInv

LEMMA ConfirmedStep ==
  ASSUME Budget["restart"] = 0, ConfirmedInv, [Next]_vars
  PROVE  ConfirmedInv'
<1>1. CASE UNCHANGED gatewayVars /\ (ClientNext \/ ClientTopicsNext)
  BY <1>1, ClientCalls, ClientManages, ClientHandles, ClientHandlesTopics
  DEF ClientNext, ClientTopicsNext
<1>2. CASE UNCHANGED clientVars /\ (GatewayNext \/ GatewayTopicsNext)
  BY <1>2, GatewayHandshakes, GatewayPublishes, GatewayHears, GatewayManages, GatewayRestarts,
     GatewayHandlesTopics, GatewayCalledBack
  DEF GatewayNext, GatewayHandler, GatewayTopicsNext
<1>3. CASE UNCHANGED vars
  <2>1. UNCHANGED <<gring, stored, waiting, mids, toClient, toGateway>> /\ UNCHANGED clientVars
    BY <1>3 DEF vars, gatewayVars, publishVars, radioVars
  <2>2. AnswerableRing(gring', StoredIds, waiting, mids)
    BY <2>1 DEF ConfirmedInv, GatewayTruthful
  <2> QED
    BY <2>1, <2>2, GatewayAnswers
<1> QED
  BY <1>1, <1>2, <1>3 DEF Next

(* m_fnpublished reports success only for a publish the broker confirmed: so  *)
(* it is as long as the client's program does not start again, whatever the   *)
(* radio, the gateway's program and its ring do.                              *)
THEOREM SuccessIsConfirmed ==
  ASSUME Budget["restart"] = 0
  PROVE  Spec => []NoFalseSuccess
<1>1. Init => ConfirmedInv
  BY ConfirmedInit
<1>2. ConfirmedInv /\ [Next]_vars => ConfirmedInv'
  BY ConfirmedStep
<1>3. ConfirmedInv => NoFalseSuccess
  <2> SUFFICES ASSUME ConfirmedInv, NEW r \in reported
               PROVE  r \in stored
    BY DEF NoFalseSuccess
  <2>1. r.life = 0 /\ r.id \in StoredIds /\ r = Publication(r.life, r.id)
    BY DEF ConfirmedInv, ClientSound
  <2>2. PICK s \in stored : s.id = r.id /\ s = Publication(0, s.id)
    BY <2>1 DEF StoredIds, ConfirmedInv, GatewayTruthful
  <2> QED
    BY <2>1, <2>2
<1> QED
  BY <1>1, <1>2, <1>3, PTL DEF Spec

----------------------------------------------------------------------------
(* The messages that wait for mosquitto, of a client without a will.          *)

(* The mids mosquitto's thread will call back for.                            *)
Owed == pending \cup {w.mid : w \in waiting}

(* A mid is that of one message.                                              *)
MidsDiffer(r) ==
  \A i, j \in Places : r.place[i].mos = r.place[j].mos /\ r.place[i].mos # 0 => i = j

Silent(m) == m.active /\ ~HasContent(m)
CallbackInv ==
  /\ gstate # "connecting"
  /\ \A mid \in pending : mid \in 1 .. mids
  /\ MidsDiffer(gring)
  /\ gstate = "connected" => \A i \in Places : Silent(gring.place[i]) => gring.place[i].mos \in Owed

(* Most steps give no message a mid and let none begin to wait.               *)
Tame(n, m) == n.mos \in {0, m.mos} /\ (Silent(n) => Silent(m) /\ n.mos = m.mos)
TameStep(new, old) == \A i \in Places : Tame(new.place[i], old.place[i])

LEMMA TameTransitive ==
  ASSUME NEW r, NEW s, NEW t, TameStep(t, s), TameStep(s, r)
  PROVE  TameStep(t, r)
BY DEF TameStep, Tame

LEMMA TameSame ==
  ASSUME NEW r, IsRing(r)
  PROVE  TameStep(r, r) /\ TameStep(Looked(r), r)
BY LookedRing DEF TameStep, Tame

LEMMA TameFresh ==
  ASSUME NEW r, NEW s
  PROVE  TameStep(Cleared(s), r) /\ TameStep(EmptyRing, r)
BY ClearedRing, EmptyRingFields, BlankFields, ResetFields DEF TameStep, Tame, Silent

LEMMA TameSet ==
  ASSUME NEW r, IsRing(r), NEW i \in Places, NEW m, IsMessage(m), Tame(m, r.place[i])
  PROVE  TameStep([r EXCEPT !.place[i] = m], r)
<1> DEFINE n == [r EXCEPT !.place[i] = m]
<1>1. IsRing(n) /\ n.place[i] = m /\ \A j \in Places \ {i} : n.place[j] = r.place[j]
  BY PlaceSet
<1> HIDE DEF n
<1>2. \A x : Tame(x, x)
  BY DEF Tame
<1>3. \A j \in Places : Tame(n.place[j], r.place[j])
  BY <1>1, <1>2, Zenon
<1> QED
  BY <1>3 DEF n, TameStep

LEMMA TameDeactivate ==
  ASSUME NEW r, IsRing(r), NEW i \in Places
  PROVE  TameStep(Deactivate(r, i), r)
<1> DEFINE m == [r.place[i] EXCEPT !.active = FALSE]
<1>1. IsMessage(r.place[i])
  BY DEF IsRing
<1>2. ~m.active /\ m.mos = r.place[i].mos
  BY <1>1, InactiveFields DEF Fields
<1>3. LET n == Deactivate(r, i) IN
        n.place[i] = m /\ \A j \in Places \ {i} : n.place[j] = r.place[j]
  BY DeactivateRing
<1> HIDE DEF m
<1> QED
  BY <1>2, <1>3 DEF TameStep, Tame, Silent

LEMMA TameAddAbout ==
  ASSUME NEW r, IsRing(r), CanAdd(r), NEW activity, NEW type \in Notices, NEW tid, NEW name,
         NEW data, NEW qos, NEW oneshot
  PROVE  LET n == AddAbout(r, activity, type, tid, name, data, qos, oneshot)
         IN IsRing(n) /\ TameStep(n, r)
<1>1. LET n == AddAbout(r, activity, type, tid, name, data, qos, oneshot)
          i == AddedAt(r)
      IN /\ IsRing(n) /\ n.place[i].type = type /\ n.place[i].mos = 0
         /\ \A j \in Places \ {i} : n.place[j] = r.place[j]
  BY AddAboutRing
<1> QED
  BY <1>1 DEF TameStep, Tame, Silent, HasContent, Notices

LEMMA TameReplaced ==
  ASSUME NEW r, IsRing(r), NEW i \in Places, NEW type, type # "none", NEW data, NEW activity
  PROVE  TameStep([r EXCEPT !.place[i] = ReplaceWith(@, type, data, activity)], r)
<1> DEFINE m == ReplaceWith(r.place[i], type, data, activity)
<1>1. IsMessage(m) /\ m.type = type /\ m.mos = r.place[i].mos
  BY ReplaceFields DEF IsRing
<1>2. [r EXCEPT !.place[i] = ReplaceWith(@, type, data, activity)] = [r EXCEPT !.place[i] = m]
  BY DEF IsRing
<1> HIDE DEF m
<1>3. Tame(m, r.place[i])
  BY <1>1 DEF Tame, Silent, HasContent
<1> QED
  BY <1>1, <1>2, <1>3, TameSet

(* The current message, and what the ring's turn makes of it.                 *)
LEMMA TameCurrent ==
  ASSUME NEW r, IsRing(r), Active(r) # {}
  PROVE  LET m == r.place[Current(r)] IN
           /\ Current(r) \in Places
           /\ \A n \in {m, Sending(m), Expired(m), [Expired(m) EXCEPT !.active = FALSE]} :
                IsMessage(n) /\ Tame(n, m)
<1> DEFINE m == r.place[Current(r)]
<1>1. Current(r) \in Places /\ IsMessage(m) /\ Current(r) \in Active(r)
  BY CurrentActive DEF IsRing
<1>2. m.active
  BY <1>1 DEF Active
<1> HIDE DEF m
<1>3. /\ IsMessage(Sending(m)) /\ Tame(Sending(m), m)
      /\ IsMessage(Expired(m)) /\ Tame(Expired(m), m)
  BY <1>1, <1>2, SendingFields, ExpiredFields DEF Tame, Silent, HasContent, Fields
<1>4. /\ IsMessage([Expired(m) EXCEPT !.active = FALSE])
      /\ Tame([Expired(m) EXCEPT !.active = FALSE], m)
  BY <1>3, ExpiredFields, InactiveFields, <1>1 DEF Tame, Silent, Fields
<1> QED
  BY <1>1, <1>2, <1>3, <1>4 DEF m, Tame

LEMMA CallbackKeeps ==
  ASSUME CallbackInv, TameStep(gring', gring), UNCHANGED <<pending, waiting, mids>>,
         gstate' # "connecting", gstate' = "connected" => gstate = "connected" \/ Active(gring') = {}
  PROVE  CallbackInv'
<1>1. MidsDiffer(gring)'
  BY DEF MidsDiffer, TameStep, Tame, CallbackInv
<1>2. Owed' = Owed
  BY DEF Owed
<1>3. ASSUME gstate' = "connected", NEW i \in Places, Silent(gring'.place[i])
      PROVE  gring'.place[i].mos \in Owed'
  BY <1>2, <1>3 DEF TameStep, Tame, CallbackInv, Active, Silent
<1> QED
  BY <1>1, <1>3 DEF CallbackInv

(* The handlers of connections: without a will a client is connected at once. *)
LEMMA CallbackHandshakes ==
  ASSUME NoWills, ConfirmedInv, CallbackInv,
         ReceiveConnect \/ ReceiveWilltopic \/ ReceiveWillmsg \/ ReceiveDisconnect \/ ReceiveSearchgw
  PROVE  CallbackInv'
<1>1. IsRing(gring)
  BY DEF ConfirmedInv, GatewayTruthful, AnswerableRing
<1>2. CASE ReceiveConnect
  <2>1. \A p \in ToGateway("CONNECT") : Take(p) => ~WillFlag(p.data)
    BY TakenSound DEF Sound, Willing
  <2>2. gring' = Cleared(gring) /\ gstate' = "connected" /\ UNCHANGED <<pending, waiting, mids>>
    BY <1>2, <2>1 DEF ReceiveConnect, WillFlag, publishVars
  <2> QED
    BY <2>2, ClearedRing, TameFresh, CallbackKeeps
<1>3. CASE ReceiveWilltopic \/ ReceiveWillmsg
  <2>1. (\A p \in ToGateway("WILLTOPIC") : ~Take(p)) /\ (\A p \in ToGateway("WILLMSG") : ~Take(p))
    BY TakenSound DEF Sound, Willing
  <2>2. (\E p \in ToGateway("WILLTOPIC") : Take(p)) \/ (\E p \in ToGateway("WILLMSG") : Take(p))
    BY <1>3 DEF ReceiveWilltopic, ReceiveWillmsg
  <2> QED
    BY <2>1, <2>2
<1>4. CASE ReceiveDisconnect \/ ReceiveSearchgw
  <2>1. /\ gring' = gring /\ gstate' \in {gstate, "asleep", "disconnected"}
        /\ UNCHANGED <<pending, waiting, mids>>
    BY <1>4 DEF ReceiveDisconnect, ReceiveSearchgw, gatewayVars, publishVars
  <2> QED
    BY <1>1, <2>1, TameSame, CallbackKeeps DEF CallbackInv
<1> QED
  BY <1>2, <1>3, <1>4

(* A new mid is that of the message that begins to wait for it.               *)
LEMMA CallbackAwaits ==
  ASSUME ConfirmedInv, CallbackInv, NEW i \in Places, gring'.place[i].mos = mids + 1,
         \A j \in Places \ {i} : gring'.place[j] = gring.place[j],
         mids' = mids + 1, gstate' = gstate, Owed \cup {mids'} \subseteq Owed',
         \A mid \in pending' : mid \in 1 .. mids'
  PROVE  CallbackInv'
<1>1. mids \in Nat /\ \A j \in Places : gring.place[j].mos \in 0 .. mids
  BY DEF ConfirmedInv, GatewayTruthful, HandedOver, AnswerableRing, Answerable
<1>2. MidsDiffer(gring)'
  BY <1>1 DEF MidsDiffer, CallbackInv
<1>3. ASSUME gstate' = "connected", NEW j \in Places, Silent(gring'.place[j])
      PROVE  gring'.place[j].mos \in Owed'
  BY <1>3 DEF CallbackInv
<1> QED
  BY <1>2, <1>3 DEF CallbackInv

LEMMA CallbackPublishes ==
  ASSUME ConfirmedInv, CallbackInv, ReceivePublish \/ ReceivePubrel
  PROVE  CallbackInv'
<1>1. IsRing(gring) /\ TameStep(gring, gring)
  BY TameSame DEF ConfirmedInv, GatewayTruthful, AnswerableRing
<1>2. gstate' = gstate
  BY DEF ReceivePublish, ReceivePubrel, TurnAway, gatewayVars
<1>3. ASSUME TameStep(gring', gring), UNCHANGED publishVars
      PROVE  CallbackInv'
  BY <1>2, <1>3, CallbackKeeps DEF publishVars, CallbackInv
<1>4. CASE TurnAway
  BY <1>1, <1>3, <1>4 DEF TurnAway, gatewayVars
<1>5. ASSUME NEW p, Forward(p)
      PROVE  CallbackInv'
  <2> DEFINE a == Add(gring, "publishing")
             m == [a.place[a.tail] EXCEPT !.mos = mids', !.qos = p.qos, !.id = p.id, !.ext = TRUE]
             w == [mid |-> mids + 1, life |-> p.data, id |-> p.id]
  <2>1. /\ CanAdd(gring) /\ mids' = mids + 1 /\ waiting' = waiting \cup {w} /\ pending' = pending
        /\ gring' = [a EXCEPT !.place[a.tail] = m]
    BY <1>5 DEF Forward, Accept
  <2>2. IsMessage(a.place[a.tail])
    <3>1. IsRing(a) /\ a.tail = AddedAt(gring) /\ AddedAt(gring) \in Places
      BY <1>1, <2>1, AddRing
    <3> QED
      BY <3>1 DEF IsRing
  <2>3. IsMessage(m) /\ m.mos = mids + 1
    <3> HIDE DEF a
    <3> QED
      BY <2>1, <2>2 DEF IsMessage, Fields
  <2>4. Owed \cup {mids'} \subseteq Owed'
    <3>1. w.mid = mids'
      BY <2>1
    <3> HIDE DEF w
    <3> QED
      BY <2>1, <3>1 DEF Owed
  <2>5. \A mid \in pending' : mid \in 1 .. mids'
    BY <2>1 DEF CallbackInv, ConfirmedInv, GatewayTruthful, HandedOver
  <2>6. /\ AddedAt(gring) \in Places /\ gring'.place[AddedAt(gring)].mos = mids + 1
        /\ \A j \in Places \ {AddedAt(gring)} : gring'.place[j] = gring.place[j]
    <3>1. /\ IsRing(a) /\ a.tail = AddedAt(gring) /\ AddedAt(gring) \in Places
          /\ \A j \in Places \ {AddedAt(gring)} : a.place[j] = gring.place[j]
      BY <1>1, <2>1, AddRing
    <3> HIDE DEF m, a
    <3> QED
      BY <2>1, <2>3, <3>1 DEF IsRing
  <2> QED
    BY <1>2, <2>1, <2>4, <2>5, <2>6, CallbackAwaits
<1>6. ASSUME NEW p, Refuse(p)
      PROVE  CallbackInv'
  <2> DEFINE a == Add(gring, "publishing")
             i == AddedAt(gring)
             n == Deactivate(a, i)
  <2>1. ASSUME CanAdd(gring)
        PROVE  TameStep(n, gring)
    <3>1. /\ IsRing(a) /\ i \in Places /\ a.place[i].mos = 0
          /\ \A j \in Places \ {i} : a.place[j] = gring.place[j]
      BY <1>1, <2>1, AddRing
    <3> HIDE DEF a, i
    <3>2. /\ n.place[i] = [a.place[i] EXCEPT !.active = FALSE]
          /\ \A j \in Places \ {i} : n.place[j] = a.place[j]
      BY <3>1 DEF Deactivate, IsRing
    <3>3. ~n.place[i].active /\ n.place[i].mos = 0
      <4>1. IsMessage(a.place[i])
        BY <3>1 DEF IsRing
      <4> HIDE DEF n
      <4> QED
        BY <3>1, <3>2, <4>1 DEF IsMessage, Fields
    <3> HIDE DEF n
    <3> QED
      <4>1. \A x : Tame(x, x)
        BY DEF Tame
      <4>2. Tame(n.place[i], gring.place[i])
        BY <3>3 DEF Tame, Silent
      <4> QED
        BY <3>1, <3>2, <4>1, <4>2 DEF TameStep
  <2>2. UNCHANGED publishVars /\ (gring' = gring \/ (CanAdd(gring) /\ gring' = n))
    BY <1>6 DEF Refuse
  <2> HIDE DEF n, a, i
  <2>3. TameStep(gring', gring)
    BY <1>1, <2>1, <2>2
  <2> QED
    BY <1>3, <2>2, <2>3
<1>7. CASE ReceivePubrel
  <2>1. PICK p \in ToGateway("PUBREL") :
          /\ UNCHANGED publishVars
          /\ \/ gring' = gring
             \/ /\ Matches(gring, p.id, TRUE) # {}
                /\ gring' = Deactivate(gring, Found(gring, p.id, TRUE))
    BY <1>7 DEF ReceivePubrel, TurnAway, gatewayVars
  <2> QED
    BY <1>1, <1>3, <2>1, FoundExternal, TameDeactivate
<1> QED
  BY <1>4, <1>5, <1>6, <1>7 DEF ReceivePublish

(* The callbacks end the wait of the message with their mid.                  *)
LEMMA CallbackCalled ==
  ASSUME ConfirmedInv, CallbackInv, PublishCallback \/ SubscribeCallback
  PROVE  CallbackInv'
<1>1. /\ IsRing(gring) /\ mids' = mids /\ gstate' = gstate
      /\ \A w \in waiting : w.mid \in 1 .. mids
  BY DEF ConfirmedInv, GatewayTruthful, HandedOver, AnswerableRing, PublishCallback,
         SubscribeCallback
<1>2. ASSUME NEW mid, mid # 0, Owed \subseteq Owed' \cup {mid}, TameStep(gring', gring),
             pending' \subseteq pending,
             gstate = "connected" =>
               \A i \in Places : gring'.place[i].mos = mid => ~Silent(gring'.place[i])
      PROVE  CallbackInv'
  <2>1. MidsDiffer(gring)'
    BY <1>2 DEF MidsDiffer, TameStep, Tame, CallbackInv
  <2>2. ASSUME gstate' = "connected", NEW i \in Places, Silent(gring'.place[i])
        PROVE  gring'.place[i].mos \in Owed'
    BY <1>1, <1>2, <2>2 DEF TameStep, Tame, CallbackInv
  <2> QED
    BY <1>1, <1>2, <2>1, <2>2 DEF CallbackInv
<1>3. ASSUME NEW mid, mid # 0,
             NEW i \in Places, gring.place[i].mos = mid, NEW m, IsMessage(m),
             Tame(m, gring.place[i]), ~Silent(m), gring' = [gring EXCEPT !.place[i] = m]
      PROVE  TameStep(gring', gring) /\
             \A j \in Places : gring'.place[j].mos = mid => ~Silent(gring'.place[j])
  <2>1. gring'.place[i] = m /\ \A j \in Places \ {i} : gring'.place[j] = gring.place[j]
    BY <1>1, <1>3 DEF IsRing
  <2>2. TameStep(gring', gring)
    BY <1>1, <1>3, TameSet
  <2> QED
    BY <1>3, <2>1, <2>2 DEF CallbackInv, MidsDiffer
<1>4. ASSUME NEW mid, MosMatches(gring, mid) = {}, gring' = gring
      PROVE  TameStep(gring', gring) /\
             \A j \in Places : gring'.place[j].mos = mid => ~Silent(gring'.place[j])
  BY <1>1, <1>4, TameSame DEF MosMatches
<1>5. \A mid : MosMatches(gring, mid) # {} =>
        /\ Lowest(MosMatches(gring, mid)) \in Places
        /\ gring.place[Lowest(MosMatches(gring, mid))].mos = mid
        /\ IsMessage(gring.place[Lowest(MosMatches(gring, mid))])
  BY <1>1, LowestMember DEF MosMatches, IsRing
<1>6. CASE PublishCallback
  <2>1. PICK w \in waiting :
          /\ waiting' = waiting \ {w} /\ pending' = pending
          /\ IF gstate = "connected" /\ MosMatches(gring, w.mid) # {}
             THEN Confirm(Lowest(MosMatches(gring, w.mid))) ELSE gring' = gring
    BY <1>6 DEF PublishCallback
  <2>2. w.mid # 0 /\ Owed \subseteq Owed' \cup {w.mid}
    BY <1>1, <2>1 DEF Owed
  <2>3. CASE gstate # "connected"
    BY <1>1, <1>2, <2>1, <2>2, <2>3, TameSame
  <2>4. CASE gstate = "connected" /\ MosMatches(gring, w.mid) = {}
    BY <1>2, <1>4, <2>1, <2>2, <2>4
  <2>5. CASE gstate = "connected" /\ MosMatches(gring, w.mid) # {}
    <3> DEFINE i == Lowest(MosMatches(gring, w.mid))
               m == gring.place[i]
               done == [m EXCEPT !.active = FALSE]
               next == [m EXCEPT !.type = "PUBREC"]
    <3>1. i \in Places /\ m.mos = w.mid /\ IsMessage(m) /\ Confirm(i)
      BY <1>5, <2>1, <2>5
    <3>2. m.qos = 0 \/ m.qos = 1 \/ m.qos = 2
      BY <3>1 DEF ConfirmedInv, GatewayTruthful, AnswerableRing, Answerable, WaitsFor
    <3>3. gring' = [gring EXCEPT !.place[i] = done] \/ gring' = [gring EXCEPT !.place[i] = next]
      <4>1. /\ Deactivate(gring, i) = [gring EXCEPT !.place[i] = done]
            /\ [gring EXCEPT !.place[i].type = "PUBREC"] = [gring EXCEPT !.place[i] = next]
        BY <1>1, <3>1 DEF IsRing, Deactivate
      <4>2. 0 # 1 /\ 0 # 2 /\ 1 # 2
        OBVIOUS
      <4> HIDE DEF i, done, next
      <4> QED
        BY <3>1, <3>2, <4>1, <4>2, Zenon DEF Confirm
    <3> HIDE DEF i, m
    <3>4. IsMessage(done) /\ ~Silent(done) /\ done.mos = m.mos
      BY <3>1 DEF IsMessage, Fields, Silent
    <3>5. IsMessage(next) /\ next.type = "PUBREC" /\ next.mos = m.mos
      BY <3>1 DEF IsMessage, Fields
    <3> HIDE DEF done, next
    <3>6. ~Silent(next) /\ Tame(next, m) /\ Tame(done, m)
      BY <3>4, <3>5 DEF Silent, HasContent, Tame
    <3> QED
      BY <1>2, <1>3, <2>1, <2>2, <3>1, <3>3, <3>4, <3>5, <3>6 DEF m
  <2> QED
    BY <2>3, <2>4, <2>5
<1>7. CASE SubscribeCallback
  <2>1. PICK mid \in pending :
          pending' = pending \ {mid} /\ gring' = Answered(gring, mid) /\ waiting' = waiting
    BY <1>7 DEF SubscribeCallback
  <2>2. mid # 0 /\ Owed \subseteq Owed' \cup {mid} /\ pending' \subseteq pending
    BY <2>1 DEF Owed, CallbackInv
  <2>3. CASE gstate # "connected"
    BY <1>1, <1>2, <2>1, <2>2, <2>3, TameSame DEF Answered
  <2>4. CASE gstate = "connected" /\ MosMatches(gring, mid) = {}
    BY <1>2, <1>4, <2>1, <2>2, <2>4 DEF Answered
  <2>5. CASE gstate = "connected" /\ MosMatches(gring, mid) # {}
    <3> DEFINE i == Lowest(MosMatches(gring, mid))
               m == gring.place[i]
               next == [m EXCEPT !.type = "SUBACK"]
    <3>1. i \in Places /\ m.mos = mid /\ IsMessage(m)
      BY <1>5, <2>5
    <3>2. gring' = [gring EXCEPT !.place[i] = next]
      BY <1>1, <2>1, <2>5, <3>1 DEF Answered, IsRing
    <3> HIDE DEF i, m
    <3>3. IsMessage(next) /\ next.type = "SUBACK" /\ next.mos = m.mos
      BY <3>1 DEF IsMessage, Fields
    <3> HIDE DEF next
    <3>4. ~Silent(next) /\ Tame(next, m)
      BY <3>3 DEF Silent, HasContent, Tame
    <3> QED
      BY <1>2, <1>3, <2>2, <3>1, <3>2, <3>3, <3>4 DEF m
  <2> QED
    BY <2>3, <2>4, <2>5
<1> QED
  BY <1>6, <1>7

LEMMA TameRegister ==
  ASSUME NEW r, IsRing(r), NEW i, NEW all, RegisterTopic(r, i, all)
  PROVE  TameStep(gring', r)
<1>1. "REGISTER" \in Notices
  BY DEF Notices
<1>2. CASE gring' = r
  BY <1>2, TameSame
<1>3. CASE CanAdd(r) /\ gring' = AddAbout(r, IF all THEN "registeringall" ELSE "registering",
                                          "REGISTER", gtopics'[i].id, gtopics'[i].name, 0, KeptQos(r), FALSE)
  BY <1>1, <1>3, TameAddAbout
<1> QED
  BY <1>2, <1>3 DEF RegisterTopic

(* manage_connections, a restart and the handlers of topics give no message a *)
(* mid, but for the subscription that is handed over.                         *)
LEMMA CallbackManages ==
  ASSUME ConfirmedInv, CallbackInv, GatewayManage \/ GatewayRestart
  PROVE  CallbackInv'
<1> DEFINE i == Current(gring)
           m == gring.place[i]
<1>1. IsRing(gring) /\ IsRing(Looked(gring)) /\ Looked(gring).place = gring.place
  BY LookedRing DEF ConfirmedInv, GatewayTruthful, AnswerableRing
<1>2. ASSUME Active(gring) # {},
             NEW n \in {m, Sending(m), Expired(m), [Expired(m) EXCEPT !.active = FALSE]},
             gring' = [Looked(gring) EXCEPT !.place[i] = n]
      PROVE  TameStep(gring', gring)
  <2>1. i \in Places /\ IsMessage(n) /\ Tame(n, m)
    BY <1>1, <1>2, TameCurrent
  <2>2. Tame(n, Looked(gring).place[i])
    BY <1>1, <2>1
  <2> HIDE DEF i, m
  <2>3. TameStep(gring', Looked(gring))
    BY <1>1, <1>2, <2>1, <2>2, TameSet
  <2> QED
    BY <1>1, <2>3 DEF TameStep
<1>3. CASE GatewayManage
  <2>1. /\ UNCHANGED <<pending, waiting, mids>>
        /\ gstate \in {"connected", "connecting"}
        /\ gstate' \in {gstate, "connected", "disconnected"}
    BY <1>3 DEF GatewayManage, GatewayLost, GatewayWrite, GatewayResend, GatewayGiveUp, GatewayIdle,
                publishVars, ToSend, Managed
  <2>2. TameStep(gring', gring)
    <3>1. CASE GatewayLost
      BY <3>1, TameFresh DEF GatewayLost
    <3>2. CASE \E succeeds \in BOOLEAN : GatewayWrite(succeeds)
      <4>1. /\ Active(gring) # {}
            /\ \/ gring' = [Looked(gring) EXCEPT !.place[i] = Sending(m)]
               \/ gring' = [Looked(gring) EXCEPT !.place[i] = m]
        BY <3>2 DEF GatewayWrite, ToSend
      <4> HIDE DEF m, i
      <4> QED
        BY <1>2, <4>1
    <3>3. CASE GatewayResend
      <4>1. Active(gring) # {} /\ gring' = [Looked(gring) EXCEPT !.place[i] = Expired(m)]
        BY <3>3 DEF GatewayResend, ToSend
      <4> HIDE DEF m, i
      <4> QED
        BY <1>2, <4>1
    <3>4. CASE GatewayGiveUp
      <4>1. /\ Active(gring) # {}
            /\ \/ gring' = Cleared(gring)
               \/ gring' = [Looked(gring) EXCEPT !.place[i] = [Expired(m) EXCEPT !.active = FALSE]]
        BY <3>4 DEF GatewayGiveUp, ToSend
      <4> HIDE DEF m, i
      <4> QED
        BY <1>2, <4>1, TameFresh
    <3>5. CASE GatewayIdle
      <4>1. gring' = Looked(gring) \/ \E j : RegisterTopic(Looked(gring), j, TRUE)
        BY <3>5 DEF GatewayIdle
      <4>2. TameStep(gring', Looked(gring))
        BY <1>1, <4>1, TameSame, TameRegister
      <4> QED
        BY <1>1, <4>2 DEF TameStep
    <3> QED
      BY <1>3, <3>1, <3>2, <3>3, <3>4, <3>5 DEF GatewayManage
  <2> QED
    BY <2>1, <2>2, CallbackKeeps DEF CallbackInv
<1>4. CASE GatewayRestart
  <2>1. gstate' = "none" /\ gring' = EmptyRing /\ pending' = {}
    BY <1>4 DEF GatewayRestart
  <2>2. MidsDiffer(EmptyRing)
    BY EmptyRingFields, BlankFields DEF MidsDiffer
  <2> QED
    BY <2>1, <2>2 DEF CallbackInv
<1> QED
  BY <1>3, <1>4

LEMMA CallbackTopics ==
  ASSUME ConfirmedInv, CallbackInv, GatewayTopicsHandler
  PROVE  CallbackInv'
<1>1. IsRing(gring) /\ TameStep(gring, gring) /\ mids \in Nat /\ HandedOver(waiting, mids)
  BY TameSame DEF ConfirmedInv, GatewayTruthful, AnswerableRing, HandedOver
<1>2. gstate' = gstate /\ waiting' = waiting
  BY DEF GatewayTopicsHandler
<1>3. ASSUME TameStep(gring', gring), UNCHANGED <<mids, pending>>
      PROVE  CallbackInv'
  BY <1>2, <1>3, CallbackKeeps DEF CallbackInv
<1>4. ASSUME NEW id, Matches(gring, id, FALSE) # {}
      PROVE  LET i == Found(gring, id, FALSE)
                 r == Deactivate(gring, i)
             IN i \in Places /\ IsRing(r) /\ TameStep(r, gring)
  BY <1>1, <1>4, FoundOwn, DeactivateRing, TameDeactivate
<1>5. CASE ReceiveTopic \/ TurnAway
  BY <1>1, <1>3, <1>5 DEF ReceiveTopic, Handle, TurnAway, gatewayVars, publishVars
<1>6. CASE ReceiveTopicAck
  <2>1. PICK p \in ToGateway("REGACK") :
          /\ UNCHANGED <<mids, pending>>
          /\ \/ gring' = gring
             \/ Matches(gring, p.id, FALSE) # {} /\
                LET r == Deactivate(gring, Found(gring, p.id, FALSE)) IN
                  gring' = r \/ \E j : RegisterTopic(r, j, TRUE)
    BY <1>6 DEF ReceiveTopicAck, Handle, TurnAway, gatewayVars, publishVars
  <2>2. CASE Matches(gring, p.id, FALSE) # {}
    <3> DEFINE r == Deactivate(gring, Found(gring, p.id, FALSE))
    <3>1. IsRing(r) /\ TameStep(r, gring)
      BY <1>4, <2>2
    <3>2. gring' = gring \/ gring' = r \/ \E j : RegisterTopic(r, j, TRUE)
      BY <2>1
    <3> HIDE DEF r
    <3>3. gring' = gring \/ TameStep(gring', r)
      BY <3>1, <3>2, TameSame, TameRegister
    <3> QED
      BY <1>1, <1>3, <2>1, <3>1, <3>3, TameTransitive
  <2> QED
    BY <1>1, <1>3, <2>1, <2>2
<1>7. CASE ReceiveDelivered \/ ReceiveCompleted
  <2>1. PICK p : /\ UNCHANGED <<mids, pending>>
                 /\ \/ gring' = gring
                    \/ /\ Matches(gring, p.id, FALSE) # {}
                       /\ gring' = Deactivate(gring, Found(gring, p.id, FALSE))
    BY <1>7 DEF ReceiveDelivered, ReceiveCompleted, Handle, TurnAway, gatewayVars, publishVars
  <2> QED
    BY <1>1, <1>3, <1>4, <2>1
<1>8. CASE ReceiveRecorded
  <2>1. PICK p : /\ UNCHANGED <<mids, pending>>
                 /\ \/ gring' = gring
                    \/ /\ Matches(gring, p.id, FALSE) # {}
                       /\ gring' = [gring EXCEPT !.place[Found(gring, p.id, FALSE)] =
                                      ReplaceWith(@, "PUBREL", @.data, "publishing")]
    BY <1>8 DEF ReceiveRecorded, Handle, TurnAway, gatewayVars, publishVars
  <2>2. "PUBREL" # "none"
    OBVIOUS
  <2>3. \A i \in Places :
          TameStep([gring EXCEPT !.place[i] =
                      ReplaceWith(@, "PUBREL", gring.place[i].data, "publishing")], gring)
    BY <1>1, <2>2, TameReplaced
  <2>4. Matches(gring, p.id, FALSE) # {} => Found(gring, p.id, FALSE) \in Places
    BY FoundOwn
  <2> QED
    BY <1>1, <1>3, <2>1, <2>3, <2>4
<1>9. CASE ReceiveSubscribe
  <2> DEFINE a == Add(gring, "subscribing")
             i == AddedAt(gring)
  <2>1. \E p, topics, j : \/ SubscribeTo(p, topics, j)
                           \/ SubscribeFails(p, topics, j)
                           \/ UNCHANGED <<mids, pending, gring>>
    <3> HIDE DEF a, i
    <3> QED
      BY <1>9, Zenon DEF ReceiveSubscribe, Handle, TurnAway, gatewayVars, publishVars
  <2>2. \/ UNCHANGED <<mids, pending, gring>>
        \/ mids' = mids + 1 /\ UNCHANGED <<pending, gring>>
        \/ \E id, tid, qos :
             /\ mids' = mids + 1 /\ pending' = pending \cup {mids'} /\ CanAdd(gring)
             /\ gring' = [a EXCEPT !.place[a.tail] =
                            [@ EXCEPT !.tid = tid, !.id = id, !.ext = TRUE, !.qos = qos,
                                      !.mos = mids', !.oneshot = TRUE]]
    <3>1. ASSUME NEW p, NEW topics, NEW j, SubscribeTo(p, topics, j)
          PROVE  \/ mids' = mids + 1 /\ UNCHANGED <<pending, gring>>
                 \/ \E id, tid, qos :
                      /\ mids' = mids + 1 /\ pending' = pending \cup {mids'} /\ CanAdd(gring)
                      /\ gring' = [a EXCEPT !.place[a.tail] =
                                     [@ EXCEPT !.tid = tid, !.id = id, !.ext = TRUE, !.qos = qos,
                                               !.mos = mids', !.oneshot = TRUE]]
      <4> DEFINE tid == topics[j].id
      <4>1. \/ mids' = mids + 1 /\ UNCHANGED <<pending, gring>>
            \/ /\ mids' = mids + 1 /\ pending' = pending \cup {mids'} /\ CanAdd(gring)
               /\ gring' = [a EXCEPT !.place[a.tail] =
                              [@ EXCEPT !.tid = tid, !.id = p.id, !.ext = TRUE, !.qos = p.qos,
                                        !.mos = mids', !.oneshot = TRUE]]
        BY <3>1, Zenon DEF SubscribeTo
      <4> HIDE DEF tid, a
      <4> QED
        BY <4>1, Zenon
    <3>2. ASSUME NEW p, NEW topics, NEW j, SubscribeFails(p, topics, j)
          PROVE  UNCHANGED <<mids, pending, gring>>
      BY <3>2, Zenon DEF SubscribeFails
    <3> HIDE DEF a, i
    <3> QED
      BY <2>1, <3>1, <3>2, Zenon
  <2>3. CASE UNCHANGED <<mids, pending, gring>>
    BY <1>1, <1>3, <2>3
  <2>4. CASE mids' = mids + 1 /\ UNCHANGED <<pending, gring>>
    BY <1>1, <1>2, <2>4 DEF CallbackInv, Owed
  <2>5. ASSUME NEW id, NEW tid, NEW qos, mids' = mids + 1, pending' = pending \cup {mids'},
               CanAdd(gring),
               gring' = [a EXCEPT !.place[a.tail] =
                            [@ EXCEPT !.tid = tid, !.id = id, !.ext = TRUE, !.qos = qos,
                                      !.mos = mids', !.oneshot = TRUE]]
        PROVE  CallbackInv'
    <3>1. /\ IsRing(a) /\ a.tail = i /\ i \in Places
          /\ \A j \in Places \ {i} : a.place[j] = gring.place[j]
      BY <1>1, <2>5, AddRing
    <3> HIDE DEF a, i
    <3>2. IsMessage(a.place[i])
      BY <3>1 DEF IsRing
    <3> DEFINE m == [a.place[i] EXCEPT !.tid = tid, !.id = id, !.ext = TRUE, !.qos = qos,
                                       !.mos = mids', !.oneshot = TRUE]
    <3>3. m.mos = mids + 1
      BY <2>5, <3>2 DEF IsMessage, Fields
    <3>4. gring' = [a EXCEPT !.place[i] = m]
      BY <2>5, <3>1 DEF IsRing
    <3> HIDE DEF m
    <3>5. gring'.place[i].mos = mids + 1 /\ \A j \in Places \ {i} : gring'.place[j] = gring.place[j]
      BY <3>1, <3>3, <3>4 DEF IsRing
    <3>6. Owed \cup {mids'} \subseteq Owed' /\ \A mid \in pending' : mid \in 1 .. mids'
      BY <1>1, <1>2, <2>5 DEF Owed, CallbackInv
    <3> QED
      BY <1>2, <2>5, <3>1, <3>5, <3>6, CallbackAwaits
  <2> QED
    BY <2>2, <2>3, <2>4, <2>5
<1> QED
  BY <1>5, <1>6, <1>7, <1>8, <1>9 DEF GatewayTopicsHandler

LEMMA CallbackDelivers ==
  ASSUME ConfirmedInv, CallbackInv, MessageCallback \/ MessageTail
  PROVE  CallbackInv'
<1>1. IsRing(gring) /\ TameStep(gring, gring) /\ "PUBLISH" \in Notices
  BY TameSame DEF ConfirmedInv, GatewayTruthful, AnswerableRing, Notices
<1>2. UNCHANGED <<gstate, waiting, pending>> /\ mids' = mids
  BY CallbackQueues
<1>3. ASSUME NEW tid, NEW name, NEW qos, NEW number
      PROVE  TameStep(Delivery(gring, tid, name, qos, number), gring)
  <2>1. CanAdd(gring) => TameStep(AddAbout(gring, "publishing", "PUBLISH", tid, name, number, qos,
                                           qos = 0), gring)
    BY <1>1, TameAddAbout
  <2> QED
    BY <1>1, <2>1 DEF Delivery
<1>4. ASSUME NEW j, RegisterTopic(gring, j, gsend)
      PROVE  TameStep(gring', gring)
  BY <1>1, <1>4, TameRegister
<1>5. TameStep(gring', gring)
  BY <1>1, <1>3, <1>4, CallbackQueues
<1> QED
  BY <1>1, <1>2, <1>5, CallbackKeeps DEF CallbackInv

(* The current message of a connected client has something to send or one of  *)
(* mosquitto's callbacks is still to come, if the client never has a will:    *)
(* what waits for nothing would hold back the others for ever.                *)
THEOREM CallbackComes ==
  ASSUME Budget["restart"] = 0, NoWills
  PROVE  Spec => []AwaitsCallback
<1>1. Init => CallbackInv
  <2> SUFFICES ASSUME Init PROVE CallbackInv
    OBVIOUS
  <2>1. gstate \in {"none", "disconnected"} /\ pending = {} /\ \A i \in Places : gring.place[i] = Blank
    BY InitialRing DEF Init, GInit
  <2> QED
    BY <2>1, BlankFields DEF CallbackInv, MidsDiffer
<1>2. ConfirmedInv /\ CallbackInv /\ [Next]_vars => CallbackInv'
  <2> SUFFICES ASSUME ConfirmedInv, CallbackInv, [Next]_vars PROVE CallbackInv'
    OBVIOUS
  <2>1. CASE UNCHANGED gatewayVars
    BY <2>1 DEF gatewayVars, publishVars, CallbackInv, Owed
  <2>2. CASE GatewayNext \/ GatewayTopicsNext
    BY <2>2, CallbackHandshakes, CallbackPublishes, CallbackCalled, CallbackManages, CallbackTopics,
       CallbackDelivers
    DEF GatewayNext, GatewayHandler, GatewayTopicsNext
  <2> QED
    BY <2>1, <2>2 DEF Next, vars
<1>3. ConfirmedInv /\ CallbackInv => AwaitsCallback
  <2> SUFFICES ASSUME ConfirmedInv, CallbackInv, gstate = "connected", Active(gring) # {}
               PROVE  LET m == gring.place[Current(gring)]
                      IN HasContent(m) \/ m.mos \in pending \cup {w.mid : w \in waiting}
    BY DEF AwaitsCallback
  <2>1. Current(gring) \in Active(gring)
    BY CurrentActive DEF ConfirmedInv, GatewayTruthful, AnswerableRing
  <2> QED
    BY <2>1 DEF CallbackInv, Active, Silent, Owed
<1> QED
  BY <1>1, <1>2, <1>3, ConfirmedInit, ConfirmedStep, PTL DEF Spec

USE BudgetAssumption, RingSizeAssumption, MaxIdAssumption, NretryAssumption

----------------------------------------------------------------------------
(* Handshakes. While a side is connecting, no packet may be taken for the     *)
(* answer to its handshake's message that is about another message: none has  *)
(* that message's id.                                                         *)

(* By id a gateway completes or replaces its message when it receives one of  *)
(* Echoes, which a client sends when it received one of Echoed (AtOnce, or    *)
(* through its ring); a client that is connecting completes its message when  *)
(* it receives a PUBACK or PUBCOMP, which answers a packet that was Handed to *)
(* the gateway.                                                               *)
AtOnce == {"REGACK", "PUBACK", "PUBCOMP"}
Echoes == AtOnce \cup {"PUBREC"}
Echoed == {"REGISTER", "PUBLISH", "PUBREL"}
Handed == {"PUBLISH", "SUBSCRIBE", "PUBREL"}
Done == {"PUBACK", "PUBCOMP"}

(* What the client says (in its ring or on the way), what the gateway says,   *)
(* and what the gateway holds, if no id of q.asked is to be echoed to the     *)
(* gateway, none of q.dialled to come back to the client, and no search is    *)
(* under way unless q.searched.                                               *)
Heard(x, q) ==
  /\ x.type \in Echoes => x.id \notin q.asked
  /\ x.type \in Handed => x.id \notin q.dialled /\ x.qos \in 0 .. 2
  /\ x.type = "SEARCHGW" => q.searched
Said(p, q) ==
  /\ p.type \in Echoed => p.id \notin q.asked
  /\ p.type \in Done => p.id \notin q.dialled
  /\ p.type = "GWINFO" => q.searched
Holding(m, q) ==
  /\ m.type \in Echoed => m.id \notin q.asked
  /\ m.mos # 0 => m.id \notin q.dialled /\ m.qos \in 0 .. 2
  /\ m.type \notin Done \cup {"GWINFO"}

HeardRing(r, q) ==
  IsRing(r) /\ \A i \in Places : Heard(r.place[i], q) /\ r.place[i].type \notin AtOnce
HoldingRing(r, q) == IsRing(r) /\ \A i \in Places : Holding(r.place[i], q)
AllHeard(r, air, q) == HeardRing(r, q) /\ \A p \in DOMAIN air : Heard(p, q)
AllSaid(r, air, q) == HoldingRing(r, q) /\ \A p \in DOMAIN air : Said(p, q)
Quiet(q) == AllHeard(cring, toGateway, q) /\ AllSaid(gring, toClient, q)

(* The message at the head of a gateway's ring that asks for a will ...       *)
Asks(m) ==
  /\ m.active /\ ~m.ext /\ ~m.oneshot
  /\ m.type \in {"WILLTOPICREQ", "WILLMSGREQ"}
  /\ m.activity \in {"willtopic", "willmessage"}
Requested(r) == Asks(r.place[r.head])

(* ... and the messages of a client that connects.                            *)
Dials(m) == m.active => ~m.oneshot
Dialling(r) ==
  /\ \A i \in Places : Dials(r.place[i])
  /\ \E i \in Active(r) : r.place[i].type \in {"CONNECT", "WILLTOPIC", "WILLMSG"}

(* The id that add_message() would give next, on either side, is not that of  *)
(* a packet on its way or of a message that is still about to be answered. So *)
(* it is until ids wrap, or a program starts again and counts from 1.         *)
FreeIds ==
  LET a == NextId(gring.last)
      d == NextId(cring.last)
  IN /\ \A x \in {cring.place[i] : i \in Places} \cup DOMAIN toGateway :
          (x.type \in Echoes => x.id # a) /\ (x.type \in Handed => x.id # d)
     /\ \A m \in {gring.place[i] : i \in Places} :
          (m.type \in Echoed \/ Asks(m) => m.id # a) /\ (m.mos # 0 => m.id # d)
     /\ \A p \in DOMAIN toClient :
          (p.type \in Echoed => p.id # a) /\ (p.type \in Done => p.id # d)

Asked == IF gstate = "connecting" THEN {gring.place[gring.head].id} ELSE {}
Dialled == IF cstate = "connecting" THEN {cring.place[i].id : i \in Active(cring)} ELSE {}
Now == [asked |-> Asked, dialled |-> Dialled, searched |-> made["search"] > 0]

HandshakeInv ==
  /\ made \in [Calls -> Nat] /\ mids \in Nat /\ \A w \in waiting : w.mid # 0
  /\ Quiet(Now)
  /\ gstate = "connecting" => Requested(gring)
  /\ cstate = "connecting" /\ made["search"] = 0 => Dialling(cring)
----------------------------------------------------------------------------
(* The ring of the client.                                                    *)
LEMMA HeardFresh ==
  ASSUME NEW r, NEW q
  PROVE  HeardRing(EmptyRing, q) /\ HeardRing(Cleared(r), q)
BY EmptyRingFields, ClearedRing, BlankFields, ResetFields DEF HeardRing, Heard, Echoes, AtOnce, Handed

LEMMA HeardSet ==
  ASSUME NEW r, NEW q, HeardRing(r, q), NEW i \in Places, NEW m, IsMessage(m), Heard(m, q),
         m.type \notin AtOnce
  PROVE  HeardRing([r EXCEPT !.place[i] = m], q)
<1> DEFINE n == [r EXCEPT !.place[i] = m]
<1>1. IsRing(n) /\ n.place[i] = m /\ \A j \in Places \ {i} : n.place[j] = r.place[j]
  BY PlaceSet DEF HeardRing
<1> HIDE DEF n
<1>2. HeardRing(n, q)
  BY <1>1 DEF HeardRing
<1> QED
  BY <1>2 DEF n

LEMMA HeardLooked ==
  ASSUME NEW r, NEW q, HeardRing(r, q)
  PROVE  HeardRing(Looked(r), q)
BY LookedRing DEF HeardRing

LEMMA HeardDeactivate ==
  ASSUME NEW r, NEW q, HeardRing(r, q), NEW i \in Places
  PROVE  HeardRing(Deactivate(r, i), q)
<1> DEFINE m == [r.place[i] EXCEPT !.active = FALSE]
<1>1. IsRing(r) /\ IsMessage(r.place[i]) /\ Heard(r.place[i], q)
      /\ r.place[i].type \notin AtOnce
  BY DEF HeardRing, IsRing
<1>2. Heard(m, q) /\ m.type \notin AtOnce
  BY <1>1, InactiveFields DEF Heard, Fields
<1>3. LET n == Deactivate(r, i) IN
        /\ IsRing(n) /\ n.place[i] = m
        /\ \A j \in Places \ {i} : n.place[j] = r.place[j]
  BY <1>1, DeactivateRing
<1> HIDE DEF m
<1> QED
  BY <1>2, <1>3 DEF HeardRing

LEMMA HeardAdd ==
  ASSUME NEW r, NEW q, HeardRing(r, q), CanAdd(r), NEW activity
  PROVE  HeardRing(Add(r, activity), q)
<1>1. LET n == Add(r, activity)
          i == AddedAt(r)
      IN /\ IsRing(n) /\ n.place[i].type = "none"
         /\ \A j \in Places \ {i} : n.place[j] = r.place[j]
  BY AddRing DEF HeardRing
<1> QED
  BY <1>1 DEF HeardRing, Heard, Echoes, AtOnce, Handed

LEMMA HeardAddAbout ==
  ASSUME NEW r, NEW q, HeardRing(r, q), CanAdd(r), NEW activity, NEW type, NEW tid, NEW name,
         NEW data, NEW qos, NEW oneshot, type \notin Echoes,
         type \in Handed => q.dialled = {} /\ qos \in 0 .. 2, type = "SEARCHGW" => q.searched
  PROVE  HeardRing(AddAbout(r, activity, type, tid, name, data, qos, oneshot), q)
<1>1. LET n == AddAbout(r, activity, type, tid, name, data, qos, oneshot)
          i == AddedAt(r)
      IN /\ IsRing(n) /\ n.place[i].type = type /\ n.place[i].qos = qos
         /\ \A j \in Places \ {i} : n.place[j] = r.place[j]
  BY AddAboutRing DEF HeardRing
<1> QED
  BY <1>1 DEF HeardRing, Heard, Echoes

(* Most requests are of no handshake and are answered with none of Echoes.    *)
LEMMA HeardRequest ==
  ASSUME NEW r, NEW q, HeardRing(r, q), CanAdd(r), NEW activity,
         NEW type \in {"CONNECT", "DISCONNECT", "REGISTER"},
         NEW tid, NEW name, NEW data, NEW qos, NEW oneshot
  PROVE  HeardRing(AddAbout(r, activity, type, tid, name, data, qos, oneshot), q)
<1>1. type \notin Echoes /\ type \notin Handed /\ type # "SEARCHGW"
  BY DEF Echoes, AtOnce, Handed
<1> QED
  BY <1>1, HeardAddAbout

LEMMA HeardRecorded ==
  ASSUME NEW p, NEW q, HeardRing(cring, q), CanAdd(cring), p.id \notin q.asked
  PROVE  HeardRing(Recorded(p), q)
<1> DEFINE a == Add(cring, "publishing")
           m == [a.place[a.tail] EXCEPT !.type = "PUBREC", !.id = p.id, !.ext = TRUE, !.qos = 2]
<1>1. HeardRing(a, q) /\ a.tail \in Places /\ IsMessage(a.place[a.tail])
  <2>1. HeardRing(a, q)
    BY HeardAdd
  <2> HIDE DEF a
  <2> QED
    BY <2>1 DEF HeardRing, IsRing
<1>2. Recorded(p) = [a EXCEPT !.place[a.tail] = m]
  BY DEF Recorded
<1> HIDE DEF a
<1>3. IsMessage(m) /\ m.type = "PUBREC" /\ m.id = p.id
  BY <1>1 DEF IsMessage, Fields
<1>4. Heard(m, q) /\ m.type \notin AtOnce
  BY <1>3 DEF Heard, Handed, AtOnce
<1> HIDE DEF m
<1> QED
  BY <1>1, <1>2, <1>3, <1>4, HeardSet

(* The current message, and what the ring's turn makes of it.                 *)
LEMMA HeardCurrent ==
  ASSUME NEW r, NEW q, HeardRing(r, q), Active(r) # {}
  PROVE  LET m == r.place[Current(r)] IN
           /\ Current(r) \in Places
           /\ \A n \in {m, Sending(m), Expired(m), [Expired(m) EXCEPT !.active = FALSE]} :
                IsMessage(n) /\ Heard(n, q) /\ n.type \notin AtOnce
           /\ Heard(Cached(m), q) /\ Heard(Cached(Expired(m)), q)
<1> DEFINE m == r.place[Current(r)]
<1>1. Current(r) \in Places /\ IsMessage(m) /\ Heard(m, q) /\ m.type \notin AtOnce
  BY CurrentActive DEF HeardRing, IsRing
<1> HIDE DEF m
<1>2. /\ IsMessage(Sending(m)) /\ Heard(Sending(m), q) /\ Sending(m).type = m.type
      /\ IsMessage(Expired(m)) /\ Heard(Expired(m), q) /\ Expired(m).type = m.type
  BY <1>1, SendingFields, ExpiredFields DEF Heard, Fields
<1>3. /\ IsMessage([Expired(m) EXCEPT !.active = FALSE])
      /\ Heard([Expired(m) EXCEPT !.active = FALSE], q)
      /\ [Expired(m) EXCEPT !.active = FALSE].type = m.type
  BY <1>2, InactiveFields DEF Heard, Fields
<1>4. \A x : Heard(x, q) /\ x.type \notin AtOnce => Heard(Cached(x), q)
  BY DEF Heard, Cached, PacketAbout, Numbered, Echoes, Handed
<1> QED
  BY <1>1, <1>2, <1>3, <1>4 DEF m

----------------------------------------------------------------------------
(* The client keeps quiet about these ids: it begins no exchange with its     *)
(* gateway while it is connecting.                                            *)
LEMMA QuietCalls ==
  ASSUME NEW q, Quiet(q), q.dialled = {} \/ cstate' = "connecting",
         q.searched \/ made'["search"] = 0, made \in [Calls -> Nat],
         Connect \/ Disconnect \/ Publish \/ Searchgw \/ ClientRestart \/ Register \/ Subscribe
  PROVE  AllHeard(cring', toGateway', q) /\ DOMAIN toClient' \subseteq DOMAIN toClient
<1>1. HeardRing(cring, q) /\ \A p \in DOMAIN toGateway : Heard(p, q)
  BY DEF Quiet, AllHeard
<1>2. ASSUME HeardRing(cring', q), UNCHANGED radioVars
      PROVE  AllHeard(cring', toGateway', q) /\ DOMAIN toClient' \subseteq DOMAIN toClient
  BY <1>1, <1>2 DEF AllHeard, radioVars
<1>3. CASE Connect
  <2>1. PICK flags \in Flags, w \in Wills :
          cring' = AddWith(Cleared(cring), IF WillFlag(flags) THEN "willtopic" ELSE "none",
                           "CONNECT", flags)
    BY <1>3 DEF Connect
  <2>2. HeardRing(Cleared(cring), q)
    BY HeardFresh
  <2>3. CanAdd(Cleared(cring))
    <3>1. 0 \in Places
      BY RingSizeAssumption DEF Places
    <3> QED
      BY <3>1, ClearedRing DEF CanAdd
  <2>4. HeardRing(cring', q)
    BY <2>1, <2>2, <2>3, HeardRequest DEF AddWith
  <2> QED
    BY <1>2, <1>3, <2>4 DEF Connect
<1>4. CASE Disconnect
  <2>1. PICK sleep \in {0, 1} :
          cring' = AddWith(cring, "disconnecting", "DISCONNECT", sleep)
    BY <1>4 DEF Disconnect
  <2>2. HeardRing(cring', q)
    BY <1>1, <1>4, <2>1, HeardRequest DEF Disconnect, AddWith
  <2> QED
    BY <1>2, <1>4, <2>2 DEF Disconnect
<1>5. CASE Publish
  <2>1. q.dialled = {} /\ "PUBLISH" \notin Echoes /\ "PUBLISH" # "SEARCHGW" /\ CanAdd(cring)
    BY <1>5 DEF Publish, Echoes, AtOnce
  <2>2. HeardRing(cring', q)
    BY <1>1, <1>5, <2>1, HeardAddAbout, QualitiesAssumption DEF Publish
  <2> QED
    BY <1>2, <1>5, <2>2 DEF Publish
<1>6. CASE Searchgw
  <2>1. q.searched
    <3>1. made'["search"] # 0
      BY <1>6 DEF Searchgw, Count, Calls
    <3> QED
      BY <3>1
  <2>2. "SEARCHGW" \notin Echoes /\ "SEARCHGW" \notin Handed
    BY DEF Echoes, AtOnce, Handed
  <2>3. HeardRing(cring', q)
    BY <1>1, <1>6, <2>1, <2>2, HeardAddAbout DEF Searchgw, AddWith
  <2> QED
    BY <1>2, <1>6, <2>3 DEF Searchgw
<1>7. CASE ClientRestart
  <2>1. HeardRing(cring', q)
    BY <1>7, HeardFresh DEF ClientRestart
  <2> QED
    BY <1>1, <1>7, <2>1, NoPackets DEF ClientRestart, AllHeard
<1>8. CASE Register
  <2> DEFINE reused == [Add(cring, "registering") EXCEPT !.place[AddedAt(cring)] = Reset(@)]
             asking(name) == AddAbout(cring, "registering", "REGISTER", 0, name, 0, KeptQos(cring),
                                     FALSE)
  <2>1. HeardRing(reused, q)
    <3> DEFINE a == Add(cring, "registering")
               m == Reset(a.place[AddedAt(cring)])
    <3>1. HeardRing(a, q) /\ IsRing(a) /\ AddedAt(cring) \in Places
      BY <1>1, <1>8, HeardAdd, AddRing DEF Register, HeardRing
    <3>2. IsMessage(m) /\ m.type = "none"
      BY ResetFields
    <3>3. reused = [a EXCEPT !.place[AddedAt(cring)] = m]
      BY <3>1 DEF IsRing
    <3> HIDE DEF a, m
    <3>4. Heard(m, q) /\ m.type \notin AtOnce
      BY <3>2 DEF Heard, Echoes, AtOnce, Handed
    <3> QED
      BY <3>1, <3>2, <3>3, <3>4, HeardSet
  <2>2. \A name \in Names : HeardRing(asking(name), q)
    BY <1>1, <1>8, HeardRequest DEF Register
  <2>3. PICK name \in Names : cring' = reused \/ cring' = asking(name)
    <3> HIDE DEF reused
    <3> QED
      BY <1>8 DEF Register, reused
  <2>4. HeardRing(cring', q)
    BY <2>1, <2>2, <2>3
  <2> QED
    BY <1>2, <1>8, <2>4 DEF Register
<1>9. CASE Subscribe
  <2> DEFINE asking(name, qos) == AddAbout(cring, "subscribing", "SUBSCRIBE", 0, name, 0, qos, qos = 0)
  <2>1. HeardRing(Add(cring, "subscribing"), q)
    BY <1>1, <1>9, HeardAdd DEF Subscribe
  <2>2. \A name \in TopicNames, qos \in Qualities : HeardRing(asking(name, qos), q)
    <3>1. q.dialled = {} /\ "SUBSCRIBE" \notin Echoes /\ "SUBSCRIBE" # "SEARCHGW" /\ CanAdd(cring)
      BY <1>9 DEF Subscribe, Echoes, AtOnce
    <3> QED
      BY <1>1, <3>1, HeardAddAbout, QualitiesAssumption
  <2>3. PICK name \in TopicNames, qos \in Qualities :
          cring' = Add(cring, "subscribing") \/ cring' = asking(name, qos)
    BY <1>9 DEF Subscribe
  <2>4. HeardRing(cring', q)
    BY <2>1, <2>2, <2>3
  <2> QED
    BY <1>2, <1>9, <2>4 DEF Subscribe
<1> QED
  BY <1>3, <1>4, <1>5, <1>6, <1>7, <1>8, <1>9

LEMMA QuietManages ==
  ASSUME NEW q, Quiet(q), ClientManage
  PROVE  AllHeard(cring', toGateway', q) /\ DOMAIN toClient' \subseteq DOMAIN toClient
<1> DEFINE i == Current(cring)
           m == cring.place[i]
<1>1. /\ HeardRing(cring, q) /\ \A p \in DOMAIN toGateway : Heard(p, q)
      /\ IsRing(cring) /\ HeardRing(Looked(cring), q)
  BY HeardLooked DEF Quiet, AllHeard, HeardRing
<1>2. toClient' = toClient
  BY DEF ClientManage, ClientLost, ClientWrite, ClientResend, ClientGiveUp, ClientIdle, radioVars
<1>3. CASE ClientLost \/ ClientIdle
  <2>1. HeardRing(cring', q) /\ toGateway' = toGateway
    BY <1>1, <1>3, HeardFresh DEF ClientLost, ClientIdle, radioVars
  <2> QED
    BY <1>1, <1>2, <2>1 DEF AllHeard
<1>4. Active(cring) # {} =>
        /\ i \in Places
        /\ \A n \in {m, Sending(m), Expired(m), [Expired(m) EXCEPT !.active = FALSE]} :
             IsMessage(n) /\ Heard(n, q) /\ n.type \notin AtOnce
        /\ Heard(Cached(m), q) /\ Heard(Cached(Expired(m)), q)
  BY <1>1, HeardCurrent
<1>5. ASSUME Active(cring) # {},
             NEW n \in {m, Sending(m), Expired(m), [Expired(m) EXCEPT !.active = FALSE]},
             cring' = [Looked(cring) EXCEPT !.place[i] = n],
             \/ toGateway' = toGateway
             \/ toGateway' \in Written(toGateway, Cached(m))
             \/ toGateway' \in Written(toGateway, Cached(Expired(m)))
      PROVE  AllHeard(cring', toGateway', q) /\ DOMAIN toClient' \subseteq DOMAIN toClient
  <2> HIDE DEF m, i
  <2>1. HeardRing(cring', q)
    BY <1>1, <1>4, <1>5, HeardSet
  <2>2. \A p \in DOMAIN toGateway' : Heard(p, q)
    BY <1>1, <1>4, <1>5, PacketWritten
  <2> QED
    BY <1>2, <2>1, <2>2 DEF AllHeard
<1>6. CASE \E succeeds \in BOOLEAN : ClientWrite(succeeds)
  <2>1. Active(cring) # {} /\ toGateway' \in Written(toGateway, Cached(m))
        /\ \/ cring' = [Looked(cring) EXCEPT !.place[i] = Sending(m)]
           \/ cring' = [Looked(cring) EXCEPT !.place[i] = m]
    BY <1>6 DEF ClientWrite
  <2> HIDE DEF m, i
  <2> QED
    BY <1>5, <2>1
<1>7. CASE ClientResend
  <2>1. Active(cring) # {} /\ toGateway' \in Written(toGateway, Cached(Expired(m)))
        /\ cring' = [Looked(cring) EXCEPT !.place[i] = Expired(m)]
    BY <1>7 DEF ClientResend
  <2> HIDE DEF m, i
  <2> QED
    BY <1>5, <2>1
<1>8. CASE ClientGiveUp
  <2>1. Active(cring) # {} /\ toGateway' = toGateway
        /\ cring' = [Looked(cring) EXCEPT !.place[i] = [Expired(m) EXCEPT !.active = FALSE]]
    BY <1>8 DEF ClientGiveUp, radioVars
  <2> HIDE DEF m, i
  <2> QED
    BY <1>5, <2>1
<1> QED
  BY <1>3, <1>6, <1>7, <1>8 DEF ClientManage

(* The next packet of an exchange of the client.                              *)
LEMMA HeardReplaced ==
  ASSUME NEW r, NEW q, HeardRing(r, q), NEW i \in Places,
         NEW type \in {"WILLTOPIC", "WILLMSG", "PUBREL"}, NEW data, NEW activity,
         type = "PUBREL" => q.dialled = {} /\ r.place[i].qos = 2
  PROVE  HeardRing([r EXCEPT !.place[i] = ReplaceWith(@, type, data, activity)], q)
<1> DEFINE m == ReplaceWith(r.place[i], type, data, activity)
<1>1. IsRing(r) /\ IsMessage(r.place[i])
  BY DEF HeardRing, IsRing
<1>2. IsMessage(m) /\ m.type = type /\ m.qos = r.place[i].qos
  BY <1>1, ReplaceFields
<1>3. [r EXCEPT !.place[i] = ReplaceWith(@, type, data, activity)] = [r EXCEPT !.place[i] = m]
  BY <1>1 DEF IsRing
<1> HIDE DEF m
<1>4. Heard(m, q) /\ m.type \notin AtOnce
  BY <1>2 DEF Heard, Echoes, AtOnce, Handed
<1> QED
  BY <1>2, <1>3, <1>4, HeardSet

LEMMA QuietHandles ==
  ASSUME NEW q, Quiet(q), q.dialled = {} \/ cstate' = "connecting", ClientHandler
  PROVE  AllHeard(cring', toGateway', q) /\ DOMAIN toClient' \subseteq DOMAIN toClient
<1>1. /\ HeardRing(cring, q) /\ IsRing(cring) /\ \A p \in DOMAIN toGateway : Heard(p, q)
      /\ HeardRing(Looked(cring), q) /\ HeardRing(Cleared(cring), q)
  BY HeardLooked, HeardFresh DEF Quiet, AllHeard, HeardRing
<1>2. DOMAIN toClient' \subseteq DOMAIN toClient /\ toGateway' = toGateway
  <2>1. \E p : ClientTakes(p)
    BY DEF ClientHandler, ReceiveConnack, ReceiveWilltopicreq, ReceiveWillmsgreq,
           ReceiveClientDisconnect, ReceiveGwinfo, ReceivePuback, ReceivePubrec, ReceivePubcomp
  <2> QED
    BY <2>1, PacketTaken DEF ClientTakes
<1>3. \A i \in Places : HeardRing(Deactivate(cring, i), q)
  BY <1>1, HeardDeactivate
<1>4. ASSUME HeardRing(cring', q)
      PROVE  AllHeard(cring', toGateway', q) /\ DOMAIN toClient' \subseteq DOMAIN toClient
  BY <1>1, <1>2, <1>4 DEF AllHeard
<1>5. CASE ReceiveConnack
  BY <1>1, <1>4, <1>5 DEF ReceiveConnack, NoActiveMessage
<1>6. CASE ReceiveWilltopicreq \/ ReceiveWillmsgreq
  <2> DEFINE i == Current(cring)
             answer(type, activity) ==
               [Looked(cring) EXCEPT !.place[i] = ReplaceWith(@, type, cwill, activity)]
  <2>1. PICK type, activity :
          /\ type \in {"WILLTOPIC", "WILLMSG", "PUBREL"} /\ type # "PUBREL"
          /\ AnswerWith(type, activity)
    BY <1>6 DEF ReceiveWilltopicreq, ReceiveWillmsgreq
  <2>2. Active(cring) # {} => HeardRing(answer(type, activity), q)
    BY <1>1, <2>1, CurrentActive, HeardReplaced
  <2>3. \/ cring' = cring \/ cring' = Looked(cring)
        \/ Active(cring) # {} /\ cring' = answer(type, activity)
    BY <2>1 DEF AnswerWith, NoActiveMessage
  <2> HIDE DEF answer
  <2> QED
    BY <1>1, <1>4, <2>2, <2>3
<1>7. CASE ReceiveClientDisconnect
  BY <1>1, <1>4, <1>7 DEF ReceiveClientDisconnect
<1>8. CASE ReceiveGwinfo
  <2>1. Active(cring) # {} => HeardRing(Deactivate(Looked(cring), Current(cring)), q)
    BY <1>1, CurrentActive, HeardDeactivate
  <2> QED
    BY <1>1, <1>4, <1>8, <2>1 DEF ReceiveGwinfo
<1>9. CASE ReceivePuback \/ ReceivePubcomp
  <2>1. PICK id : \/ cring' = cring
                  \/ /\ Matches(cring, id, FALSE) # {}
                     /\ cring' = Deactivate(cring, Found(cring, id, FALSE))
    BY <1>9 DEF ReceivePuback, ReceivePubcomp, FoundQos2
  <2> QED
    BY <1>1, <1>3, <1>4, <2>1, FoundOwn
<1>10. CASE ReceivePubrec
  <2>1. \/ cring' = cring
        \/ /\ q.dialled = {}
           /\ \E i \in Places :
                /\ cring.place[i].qos = 2
                /\ cring' = [cring EXCEPT !.place[i] = ReplaceWith(@, "PUBREL", 0, "publishing")]
    <3>1. ASSUME cring' # cring
          PROVE  /\ q.dialled = {}
                 /\ \E id : /\ FoundQos2(id)
                           /\ cring' = [cring EXCEPT !.place[Found(cring, id, FALSE)] =
                                          ReplaceWith(@, "PUBREL", 0, "publishing")]
      BY <1>10, <3>1 DEF ReceivePubrec
    <3> QED
      BY <3>1, FoundOwn DEF FoundQos2
  <2>2. "PUBREL" \in {"WILLTOPIC", "WILLMSG", "PUBREL"}
    OBVIOUS
  <2>3. \A i \in Places : cring.place[i].qos = 2 /\ q.dialled = {} =>
          HeardRing([cring EXCEPT !.place[i] = ReplaceWith(@, "PUBREL", 0, "publishing")], q)
    BY <1>1, <2>2, HeardReplaced
  <2>4. HeardRing(cring', q)
    BY <1>1, <2>1, <2>3
  <2> QED
    BY <1>4, <2>4
<1> QED
  BY <1>5, <1>6, <1>7, <1>8, <1>9, <1>10 DEF ClientHandler

LEMMA QuietHandlesTopics ==
  ASSUME NEW q, Quiet(q), ClientTopicsHandler
  PROVE  AllHeard(cring', toGateway', q) /\ DOMAIN toClient' \subseteq DOMAIN toClient
<1>1. HeardRing(cring, q) /\ \A p \in DOMAIN toGateway : Heard(p, q)
  BY DEF Quiet, AllHeard
<1>2. \A id : Matches(cring, id, FALSE) # {} =>
                HeardRing(Deactivate(cring, Found(cring, id, FALSE)), q)
  BY <1>1, FoundOwn, HeardDeactivate
<1>3. \A id : Matches(cring, id, TRUE) # {} =>
                HeardRing(Deactivate(cring, Found(cring, id, TRUE)), q)
  BY <1>1, FoundExternal, HeardDeactivate
<1>4. ASSUME HeardRing(cring', q), NEW p,
             \/ ClientTakes(p)
             \/ \E x : ClientAnswers(p, x) /\ Heard(x, q)
      PROVE  AllHeard(cring', toGateway', q) /\ DOMAIN toClient' \subseteq DOMAIN toClient
  <2>1. DOMAIN toClient' \subseteq DOMAIN toClient
    BY <1>4, PacketTaken DEF ClientTakes, ClientAnswers
  <2>2. \A x \in DOMAIN toGateway' : Heard(x, q)
    BY <1>1, <1>4, PacketWritten DEF ClientTakes, ClientAnswers
  <2> QED
    BY <1>4, <2>1, <2>2 DEF AllHeard
<1>5. ASSUME NEW p, p.type \in Echoed, p \in ToClient(p.type)
      PROVE  p.id \notin q.asked
  BY <1>5 DEF ToClient, BagToSet, Quiet, AllSaid, Said
<1>6. ASSUME NEW type \in AtOnce, NEW id, id \notin q.asked, NEW data
      PROVE  Heard(Packet(type, id, 0, data), q)
  BY <1>6 DEF Heard, Packet, PacketAbout, AtOnce, Handed
<1>7. "REGACK" \in AtOnce /\ "PUBACK" \in AtOnce /\ "PUBCOMP" \in AtOnce
      /\ "REGISTER" \in Echoed /\ "PUBLISH" \in Echoed /\ "PUBREL" \in Echoed
  BY DEF AtOnce, Echoed
<1>8. \A type : \A p \in ToClient(type) : p.type = type
  BY DEF ToClient
<1>9. CASE ReceiveRegister
  <2>1. PICK p \in ToClient("REGISTER") :
          ClientAnswers(p, Packet("REGACK", p.id, 0, 0)) /\ UNCHANGED cring
    BY <1>9 DEF ReceiveRegister
  <2>2. p.id \notin q.asked
    BY <1>5, <1>7, <1>8
  <2>3. Heard(Packet("REGACK", p.id, 0, 0), q)
    BY <1>6, <1>7, <2>2
  <2> QED
    BY <1>1, <1>4, <2>1, <2>3
<1>10. CASE ReceiveRegack \/ ReceiveSuback
  <2>1. PICK p : /\ ClientTakes(p)
                 /\ \/ cring' = cring
                    \/ /\ Matches(cring, p.id, FALSE) # {}
                       /\ cring' = Deactivate(cring, Found(cring, p.id, FALSE))
    BY <1>10 DEF ReceiveRegack, ReceiveSuback
  <2> QED
    BY <1>1, <1>2, <1>4, <2>1
<1>11. CASE ReceiveDelivery
  <2>1. PICK p \in ToClient("PUBLISH") :
          \/ ClientTakes(p) /\ UNCHANGED cring
          \/ (\E data : ClientAnswers(p, Packet("PUBACK", p.id, 0, data))) /\ UNCHANGED cring
          \/ ClientTakes(p) /\ CanAdd(cring) /\ cring' = Recorded(p)
    BY <1>11 DEF ReceiveDelivery, AcceptDelivery, RefuseDelivery
  <2>2. p.id \notin q.asked
    BY <1>5, <1>7, <1>8
  <2>3. \A data : Heard(Packet("PUBACK", p.id, 0, data), q)
    BY <1>6, <1>7, <2>2
  <2>4. HeardRing(cring', q)
    BY <1>1, <2>1, <2>2, HeardRecorded
  <2> QED
    BY <1>4, <2>1, <2>3, <2>4
<1>12. CASE ReceiveDeliveryPubrel
  <2>1. PICK p \in ToClient("PUBREL") :
          \/ /\ Matches(cring, p.id, TRUE) # {}
             /\ ClientAnswers(p, Packet("PUBCOMP", p.id, 0, 0))
             /\ cring' \in {cring, Deactivate(cring, Found(cring, p.id, TRUE))}
          \/ ClientTakes(p) /\ UNCHANGED cring
    BY <1>12 DEF ReceiveDeliveryPubrel
  <2>2. p.id \notin q.asked
    BY <1>5, <1>7, <1>8
  <2>3. Heard(Packet("PUBCOMP", p.id, 0, 0), q)
    BY <1>6, <1>7, <2>2
  <2>4. HeardRing(cring', q)
    BY <1>1, <1>3, <2>1
  <2> QED
    BY <1>4, <2>1, <2>3, <2>4
<1>13. CASE Ignored({"REGISTER", "REGACK", "SUBACK", "PUBLISH", "PUBREL"})
  <2>1. PICK p : ClientTakes(p) /\ UNCHANGED cring
    BY <1>13 DEF Ignored
  <2> QED
    BY <1>1, <1>4, <2>1
<1> QED
  BY <1>9, <1>10, <1>11, <1>12, <1>13 DEF ClientTopicsHandler

----------------------------------------------------------------------------
(* The ring of the gateway.                                                   *)
LEMMA HoldingFresh ==
  ASSUME NEW r, NEW q
  PROVE  HoldingRing(EmptyRing, q) /\ HoldingRing(Cleared(r), q)
BY EmptyRingFields, ClearedRing, BlankFields, ResetFields DEF HoldingRing, Holding, Echoed, Done

LEMMA HoldingSet ==
  ASSUME NEW r, NEW q, HoldingRing(r, q), NEW i \in Places, NEW m, IsMessage(m), Holding(m, q)
  PROVE  HoldingRing([r EXCEPT !.place[i] = m], q)
<1> DEFINE n == [r EXCEPT !.place[i] = m]
<1>1. IsRing(n) /\ n.place[i] = m /\ \A j \in Places \ {i} : n.place[j] = r.place[j]
  BY PlaceSet DEF HoldingRing
<1> HIDE DEF n
<1>2. HoldingRing(n, q)
  BY <1>1 DEF HoldingRing
<1> QED
  BY <1>2 DEF n

LEMMA HoldingLooked ==
  ASSUME NEW r, NEW q, HoldingRing(r, q)
  PROVE  HoldingRing(Looked(r), q)
BY LookedRing DEF HoldingRing

LEMMA HoldingDeactivate ==
  ASSUME NEW r, NEW q, HoldingRing(r, q), NEW i \in Places
  PROVE  HoldingRing(Deactivate(r, i), q)
<1> DEFINE m == [r.place[i] EXCEPT !.active = FALSE]
<1>1. IsRing(r) /\ IsMessage(r.place[i]) /\ Holding(r.place[i], q)
  BY DEF HoldingRing, IsRing
<1>2. Holding(m, q)
  BY <1>1, InactiveFields DEF Holding, Fields
<1>3. LET n == Deactivate(r, i) IN
        /\ IsRing(n) /\ n.place[i] = m
        /\ \A j \in Places \ {i} : n.place[j] = r.place[j]
  BY <1>1, DeactivateRing
<1> HIDE DEF m
<1> QED
  BY <1>2, <1>3 DEF HoldingRing

LEMMA HoldingAdd ==
  ASSUME NEW r, NEW q, HoldingRing(r, q), CanAdd(r), NEW activity
  PROVE  HoldingRing(Add(r, activity), q)
<1>1. LET n == Add(r, activity)
          i == AddedAt(r)
      IN /\ IsRing(n) /\ n.place[i].type = "none" /\ n.place[i].mos = 0
         /\ \A j \in Places \ {i} : n.place[j] = r.place[j]
  BY AddRing DEF HoldingRing
<1> QED
  BY <1>1 DEF HoldingRing, Holding, Echoed, Done

(* A message that is to be echoed has a new id.                               *)
LEMMA HoldingNotice ==
  ASSUME NEW r, NEW q, HoldingRing(r, q), CanAdd(r), NEW activity, NEW type \in Notices,
         NEW tid, NEW name, NEW data, NEW qos, NEW oneshot,
         type # "WILLTOPICREQ" => NextId(r.last) \notin q.asked
  PROVE  HoldingRing(AddAbout(r, activity, type, tid, name, data, qos, oneshot), q)
<1>1. LET n == AddAbout(r, activity, type, tid, name, data, qos, oneshot)
          i == AddedAt(r)
      IN /\ IsRing(n) /\ n.place[i].type = type /\ n.place[i].mos = 0
         /\ n.place[i].id = NextId(r.last)
         /\ \A j \in Places \ {i} : n.place[j] = r.place[j]
  BY AddAboutRing DEF HoldingRing
<1> QED
  BY <1>1 DEF HoldingRing, Holding, Echoed, Done, Notices

(* A message that waits for mosquitto has the id of the packet it is for.     *)
LEMMA HoldingWaits ==
  ASSUME NEW r, NEW q, HoldingRing(r, q), CanAdd(r), NEW activity, NEW m, IsMessage(m),
         m.type = "none", m.id \notin q.dialled, m.qos \in 0 .. 2
  PROVE  HoldingRing([Add(r, activity) EXCEPT !.place[AddedAt(r)] = m], q)
<1>1. HoldingRing(Add(r, activity), q)
  BY HoldingAdd
<1>2. AddedAt(r) \in Places
  BY AddRing DEF HoldingRing
<1>3. Holding(m, q)
  BY DEF Holding, Echoed, Done
<1> QED
  BY <1>1, <1>2, <1>3, HoldingSet

(* A message that is replaced keeps its id and its mid.                       *)
LEMMA HoldingReplaced ==
  ASSUME NEW r, NEW q, HoldingRing(r, q), NEW i \in Places,
         NEW type \in {"WILLMSGREQ", "PUBREL"}, NEW data, NEW activity,
         type = "PUBREL" => r.place[i].id \notin q.asked
  PROVE  HoldingRing([r EXCEPT !.place[i] = ReplaceWith(@, type, data, activity)], q)
<1> DEFINE m == ReplaceWith(r.place[i], type, data, activity)
<1>1. IsRing(r) /\ IsMessage(r.place[i]) /\ Holding(r.place[i], q)
  BY DEF HoldingRing, IsRing
<1>2. IsMessage(m) /\ m.type = type /\ m.id = r.place[i].id /\ m.mos = r.place[i].mos
      /\ m.qos = r.place[i].qos
  BY <1>1, ReplaceFields
<1>3. [r EXCEPT !.place[i] = ReplaceWith(@, type, data, activity)] = [r EXCEPT !.place[i] = m]
  BY <1>1 DEF IsRing
<1> HIDE DEF m
<1>4. Holding(m, q)
  BY <1>1, <1>2 DEF Holding, Echoed, Done
<1> QED
  BY <1>2, <1>3, <1>4, HoldingSet

(* So does one that mosquitto's thread turns into the answer.                 *)
LEMMA HoldingTurned ==
  ASSUME NEW r, NEW q, HoldingRing(r, q), NEW i \in Places, NEW type \in {"PUBREC", "SUBACK"}
  PROVE  HoldingRing([r EXCEPT !.place[i].type = type], q)
<1> DEFINE m == [r.place[i] EXCEPT !.type = type]
<1>1. IsRing(r) /\ IsMessage(r.place[i]) /\ Holding(r.place[i], q)
  BY DEF HoldingRing, IsRing
<1>2. IsMessage(m) /\ m.type = type /\ m.id = r.place[i].id /\ m.mos = r.place[i].mos
      /\ m.qos = r.place[i].qos
  BY <1>1 DEF IsMessage, Fields
<1>3. [r EXCEPT !.place[i].type = type] = [r EXCEPT !.place[i] = m]
  BY <1>1 DEF IsRing
<1> HIDE DEF m
<1>4. Holding(m, q)
  BY <1>1, <1>2 DEF Holding, Echoed, Done
<1> QED
  BY <1>2, <1>3, <1>4, HoldingSet

(* The current message, and what the ring's turn makes of it.                 *)
LEMMA HoldingCurrent ==
  ASSUME NEW r, NEW q, HoldingRing(r, q), Active(r) # {}
  PROVE  LET m == r.place[Current(r)] IN
           /\ Current(r) \in Places
           /\ \A n \in {m, Sending(m), Expired(m), [Expired(m) EXCEPT !.active = FALSE]} :
                IsMessage(n) /\ Holding(n, q)
           /\ Said(Resent(m), q) /\ Said(Resent(Expired(m)), q)
<1> DEFINE m == r.place[Current(r)]
<1>1. Current(r) \in Places /\ IsMessage(m) /\ Holding(m, q)
  BY CurrentActive DEF HoldingRing, IsRing
<1> HIDE DEF m
<1>2. /\ IsMessage(Sending(m)) /\ Holding(Sending(m), q)
      /\ IsMessage(Expired(m)) /\ Holding(Expired(m), q)
  BY <1>1, SendingFields, ExpiredFields DEF Holding, Fields
<1>3. /\ IsMessage([Expired(m) EXCEPT !.active = FALSE])
      /\ Holding([Expired(m) EXCEPT !.active = FALSE], q)
  BY <1>2, InactiveFields DEF Holding, Fields
<1>4. \A x : Holding(x, q) => Said(Resent(x), q)
  BY DEF Holding, Said, Resent, PacketAbout, Echoed, Done
<1> QED
  BY <1>1, <1>2, <1>3, <1>4 DEF m

----------------------------------------------------------------------------
(* The gateway keeps quiet about these ids: while it is connecting it begins  *)
(* no other exchange.                                                         *)
LEMMA SaidAnswer ==
  ASSUME NEW q, Quiet(q), HoldingRing(gring', q),
         toClient' = toClient \/ \E p : Answer(p) /\ Said(p, q)
  PROVE  AllSaid(gring', toClient', q)
<1>1. \A p \in DOMAIN toClient' : Said(p, q)
  BY PacketWritten DEF Quiet, AllSaid, Answer
<1> QED
  BY <1>1 DEF AllSaid

LEMMA SaidPlain ==
  ASSUME NEW q, NEW id, NEW data, NEW tid
  PROVE  /\ \A type \in {"CONNACK", "DISCONNECT"} : Said(Plain(type), q)
         /\ \A type \in {"REGACK", "SUBACK"} : Said(PacketAbout(type, id, 0, data, tid, ""), q)
BY DEF Said, Plain, Packet, PacketAbout, Echoed, Done

LEMMA TakenHeard ==
  ASSUME NEW q, Quiet(q), NEW type, NEW p \in ToGateway(type), Take(p)
  PROVE  p.type = type /\ Heard(p, q) /\ DOMAIN toGateway' \subseteq DOMAIN toGateway
BY PacketTaken DEF ToGateway, BagToSet, Quiet, AllHeard, Take

LEMMA QuietHandshakes ==
  ASSUME NEW q, Quiet(q),
         ReceiveConnect \/ ReceiveWilltopic \/ ReceiveWillmsg \/ ReceiveDisconnect \/ ReceiveSearchgw
  PROVE  AllSaid(gring', toClient', q) /\ DOMAIN toGateway' \subseteq DOMAIN toGateway
<1>1. /\ HoldingRing(gring, q) /\ IsRing(gring)
      /\ HoldingRing(Looked(gring), q) /\ HoldingRing(Cleared(gring), q)
      /\ CanAdd(Cleared(gring))
  <2>1. 0 \in Places
    BY DEF Places
  <2> QED
    BY <2>1, HoldingLooked, HoldingFresh, ClearedRing DEF Quiet, AllSaid, HoldingRing, CanAdd
<1>2. DOMAIN toGateway' \subseteq DOMAIN toGateway
  <2>1. \E type : \E p \in ToGateway(type) : Take(p)
    BY DEF ReceiveConnect, ReceiveWilltopic, ReceiveWillmsg, ReceiveDisconnect, ReceiveSearchgw
  <2> QED
    BY <2>1, TakenHeard
<1>3. Said(Plain("CONNACK"), q) /\ Said(Plain("DISCONNECT"), q)
  BY SaidPlain
<1>4. ASSUME HoldingRing(gring', q),
             toClient' = toClient \/ Answer(Plain("CONNACK")) \/ Answer(Plain("DISCONNECT"))
      PROVE  AllSaid(gring', toClient', q) /\ DOMAIN toGateway' \subseteq DOMAIN toGateway
  BY <1>2, <1>3, <1>4, SaidAnswer
<1>5. CASE TurnAway
  BY <1>1, <1>4, <1>5 DEF TurnAway, gatewayVars
<1>6. CASE ReceiveConnect
  <2>1. \/ gring' = AddWith(Cleared(gring), "willtopic", "WILLTOPICREQ", 0)
           /\ toClient' = toClient
        \/ gring' = Cleared(gring) /\ Answer(Plain("CONNACK"))
    BY <1>6 DEF ReceiveConnect
  <2>2. "WILLTOPICREQ" \in Notices
    BY DEF Notices
  <2>3. HoldingRing(AddWith(Cleared(gring), "willtopic", "WILLTOPICREQ", 0), q)
    BY <1>1, <2>2, HoldingNotice DEF AddWith
  <2> QED
    BY <1>1, <1>4, <2>1, <2>3
<1>7. Active(gring) # {} =>
        /\ HoldingRing(Deactivate(Looked(gring), Current(gring)), q)
        /\ HoldingRing([Looked(gring) EXCEPT !.place[Current(gring)] =
                          ReplaceWith(@, "WILLMSGREQ", 0, "willmessage")], q)
  <2>1. "WILLMSGREQ" \in {"WILLMSGREQ", "PUBREL"} /\ "WILLMSGREQ" # "PUBREL"
    OBVIOUS
  <2>2. Active(gring) # {} => Current(gring) \in Places
    BY <1>1, CurrentActive
  <2> QED
    BY <1>1, <2>1, <2>2, HoldingDeactivate, HoldingReplaced
<1>8. CASE ReceiveWilltopic \/ ReceiveWillmsg
  <2>1. \/ TurnAway
        \/ gring' = Looked(gring) /\ toClient' = toClient
        \/ /\ Active(gring) # {} /\ gring' = Deactivate(Looked(gring), Current(gring))
           /\ Answer(Plain("CONNACK"))
        \/ /\ Active(gring) # {} /\ toClient' = toClient
           /\ gring' = [Looked(gring) EXCEPT !.place[Current(gring)] =
                          ReplaceWith(@, "WILLMSGREQ", 0, "willmessage")]
    BY <1>8 DEF ReceiveWilltopic, ReceiveWillmsg
  <2> QED
    BY <1>1, <1>4, <1>5, <1>7, <2>1
<1>9. CASE ReceiveDisconnect
  BY <1>1, <1>4, <1>9 DEF ReceiveDisconnect
<1>10. CASE ReceiveSearchgw
  <2>1. PICK p \in ToGateway("SEARCHGW") : Take(p)
    BY <1>10 DEF ReceiveSearchgw
  <2>2. q.searched
    BY <2>1, TakenHeard DEF Heard
  <2>3. Said(Plain("GWINFO"), q)
    BY <2>2 DEF Said, Plain, Packet, PacketAbout, Echoed, Done
  <2> QED
    BY <1>1, <1>2, <1>10, <2>3, SaidAnswer DEF ReceiveSearchgw, gatewayVars
<1> QED
  BY <1>2, <1>6, <1>8, <1>9, <1>10

LEMMA QuietPublishes ==
  ASSUME NEW q, Quiet(q), ReceivePublish \/ ReceivePubrel
  PROVE  AllSaid(gring', toClient', q) /\ DOMAIN toGateway' \subseteq DOMAIN toGateway
<1>1. HoldingRing(gring, q) /\ IsRing(gring)
  BY DEF Quiet, AllSaid, HoldingRing
<1>2. DOMAIN toGateway' \subseteq DOMAIN toGateway
  <2>1. \E type : \E p \in ToGateway(type) : Take(p)
    BY DEF ReceivePublish, ReceivePubrel
  <2> QED
    BY <2>1, TakenHeard
<1>3. CASE TurnAway
  BY <1>1, <1>2, <1>3, SaidPlain, SaidAnswer DEF TurnAway, gatewayVars
<1>4. CASE ReceivePublish
  <2>1. PICK p \in ToGateway("PUBLISH") : Take(p) /\ (TurnAway \/ Forward(p) \/ Refuse(p))
    BY <1>4 DEF ReceivePublish
  <2>2. p.id \notin q.dialled /\ p.qos \in 0 .. 2
    BY <2>1, TakenHeard DEF Heard, Handed
  <2>3. CASE Forward(p)
    <3> DEFINE a == Add(gring, "publishing")
               m == [a.place[AddedAt(gring)] EXCEPT !.mos = mids', !.qos = p.qos, !.id = p.id,
                                                    !.ext = TRUE]
    <3>1. CanAdd(gring) /\ toClient' = toClient
      BY <2>3 DEF Forward
    <3>2. IsRing(a) /\ a.tail = AddedAt(gring) /\ AddedAt(gring) \in Places
          /\ a.place[AddedAt(gring)].type = "none" /\ IsMessage(a.place[AddedAt(gring)])
      BY <1>1, <3>1, AddRing DEF IsRing
    <3>3. gring' = [a EXCEPT !.place[AddedAt(gring)] = m]
      BY <2>3, <3>2 DEF Forward
    <3> HIDE DEF a
    <3>4. IsMessage(m) /\ m.type = "none" /\ m.id = p.id /\ m.qos = p.qos
      BY <3>2 DEF IsMessage, Fields
    <3> HIDE DEF m
    <3>5. HoldingRing(gring', q)
      BY <1>1, <2>2, <3>1, <3>3, <3>4, HoldingWaits DEF a
    <3> QED
      BY <1>2, <3>1, <3>5, SaidAnswer
  <2>4. CASE Refuse(p)
    <3>1. CanAdd(gring) => HoldingRing(Deactivate(Add(gring, "publishing"), AddedAt(gring)), q)
      BY <1>1, HoldingAdd, AddRing, HoldingDeactivate
    <3>2. HoldingRing(gring', q)
      BY <1>1, <2>4, <3>1 DEF Refuse
    <3>3. \A data : Said(Packet("PUBACK", p.id, 0, data), q)
      BY <2>2 DEF Said, Packet, PacketAbout, Echoed, Done
    <3> QED
      BY <1>2, <2>4, <3>2, <3>3, SaidAnswer DEF Refuse
  <2> QED
    BY <1>2, <1>3, <2>1, <2>3, <2>4
<1>5. CASE ReceivePubrel
  <2>1. PICK p \in ToGateway("PUBREL") :
          /\ Take(p)
          /\ \/ TurnAway
             \/ UNCHANGED <<gring, toClient>>
             \/ /\ Matches(gring, p.id, TRUE) # {}
                /\ gring' = Deactivate(gring, Found(gring, p.id, TRUE))
                /\ Answer(Packet("PUBCOMP", p.id, 0, 0))
    BY <1>5 DEF ReceivePubrel
  <2>2. Said(Packet("PUBCOMP", p.id, 0, 0), q)
    <3>1. p.id \notin q.dialled
      BY <2>1, TakenHeard DEF Heard, Handed
    <3> QED
      BY <3>1 DEF Said, Packet, PacketAbout, Echoed, Done
  <2>3. Matches(gring, p.id, TRUE) # {} => HoldingRing(Deactivate(gring, Found(gring, p.id, TRUE)), q)
    BY <1>1, FoundExternal, HoldingDeactivate
  <2> QED
    BY <1>1, <1>2, <1>3, <2>1, <2>2, <2>3, SaidAnswer
<1> QED
  BY <1>4, <1>5

LEMMA QuietHears ==
  ASSUME NEW q, Quiet(q), \A w \in waiting : w.mid # 0, PublishCallback \/ SubscribeCallback
  PROVE  AllSaid(gring', toClient', q) /\ DOMAIN toGateway' \subseteq DOMAIN toGateway
<1>1. HoldingRing(gring, q) /\ IsRing(gring)
  BY DEF Quiet, AllSaid, HoldingRing
<1>2. toGateway' = toGateway
  BY DEF PublishCallback, SubscribeCallback, radioVars
<1>3. CASE SubscribeCallback
  <2>1. PICK mid \in pending :
          \/ gring' = gring
          \/ /\ MosMatches(gring, mid) # {}
             /\ gring' = [gring EXCEPT !.place[Lowest(MosMatches(gring, mid))].type = "SUBACK"]
    BY <1>3 DEF SubscribeCallback, Answered
  <2>2. MosMatches(gring, mid) # {} => Lowest(MosMatches(gring, mid)) \in Places
    BY LowestMember DEF MosMatches
  <2>3. \A i \in Places : HoldingRing([gring EXCEPT !.place[i].type = "SUBACK"], q)
    <3>1. "SUBACK" \in {"PUBREC", "SUBACK"}
      OBVIOUS
    <3> QED
      BY <1>1, <3>1, HoldingTurned
  <2>4. HoldingRing(gring', q)
    BY <1>1, <2>1, <2>2, <2>3, Zenon
  <2> QED
    BY <1>2, <1>3, <2>4, SaidAnswer DEF SubscribeCallback, radioVars
<1>4. CASE PublishCallback
  <2>1. PICK w \in waiting :
          \/ UNCHANGED <<gring, toClient>>
          \/ MosMatches(gring, w.mid) # {} /\ Confirm(Lowest(MosMatches(gring, w.mid)))
    BY <1>4 DEF PublishCallback
  <2>2. CASE UNCHANGED <<gring, toClient>>
    BY <1>1, <1>2, <2>2, SaidAnswer
  <2>3. CASE MosMatches(gring, w.mid) # {} /\ Confirm(Lowest(MosMatches(gring, w.mid)))
    <3> DEFINE i == Lowest(MosMatches(gring, w.mid))
               m == gring.place[i]
    <3>1. i \in Places /\ m.mos # 0
      BY <2>3, LowestMember DEF MosMatches
    <3>2. m.id \notin q.dialled /\ m.qos \in 0 .. 2
      BY <1>1, <3>1 DEF HoldingRing, Holding
    <3>3. Said(Packet("PUBACK", m.id, 0, 0), q)
      BY <3>2 DEF Said, Packet, PacketAbout, Echoed, Done
    <3>4. HoldingRing(Deactivate(gring, i), q) /\ HoldingRing([gring EXCEPT !.place[i].type = "PUBREC"], q)
      <4>1. "PUBREC" \in {"PUBREC", "SUBACK"}
        OBVIOUS
      <4> HIDE DEF i, m
      <4> QED
        BY <1>1, <3>1, <4>1, HoldingDeactivate, HoldingTurned
    <3>5. \/ gring' = Deactivate(gring, i) /\ toClient' = toClient
          \/ gring' = Deactivate(gring, i) /\ Answer(Packet("PUBACK", m.id, 0, 0))
          \/ gring' = [gring EXCEPT !.place[i].type = "PUBREC"] /\ toClient' = toClient
      <4>1. 0 # 1 /\ 0 # 2 /\ 1 # 2 /\ Confirm(i)
        BY <2>3
      <4>2. m.qos = 0 \/ m.qos = 1 \/ m.qos = 2
        BY <3>2
      <4> HIDE DEF i
      <4> QED
        BY <4>1, <4>2, Zenon DEF Confirm
    <3> HIDE DEF i
    <3> HIDE DEF m
    <3> QED
      BY <1>2, <3>3, <3>4, <3>5, SaidAnswer
  <2> QED
    BY <2>1, <2>2, <2>3
<1> QED
  BY <1>3, <1>4

LEMMA HoldingRegister ==
  ASSUME NEW q, q.asked = {} \/ gstate' = "connecting", NEW r, HoldingRing(r, q),
         NEW i, NEW all, RegisterTopic(r, i, all)
  PROVE  HoldingRing(gring', q)
<1>1. "REGISTER" \in Notices
  BY DEF Notices
<1>2. CASE gring' = r
  BY <1>2
<1>3. CASE /\ CanAdd(r) /\ gstate' = "connected"
           /\ gring' = AddAbout(r, IF all THEN "registeringall" ELSE "registering",
                                "REGISTER", gtopics'[i].id, gtopics'[i].name, 0, KeptQos(r), FALSE)
  <2>1. q.asked = {}
    BY <1>3
  <2> QED
    BY <1>1, <1>3, <2>1, HoldingNotice
<1> QED
  BY <1>2, <1>3 DEF RegisterTopic

LEMMA QuietTurns ==
  ASSUME NEW q, Quiet(q), q.asked = {} \/ gstate' = "connecting", GatewayManage \/ GatewayRestart
  PROVE  AllSaid(gring', toClient', q) /\ DOMAIN toGateway' \subseteq DOMAIN toGateway
<1> DEFINE i == Current(gring)
           m == gring.place[i]
<1>1. /\ HoldingRing(gring, q) /\ IsRing(gring)
      /\ HoldingRing(Looked(gring), q) /\ HoldingRing(Cleared(gring), q) /\ HoldingRing(EmptyRing, q)
  BY HoldingLooked, HoldingFresh DEF Quiet, AllSaid, HoldingRing
<1>2. CASE GatewayRestart
  <2>1. toClient' = toClient /\ toGateway' = EmptyBag /\ gring' = EmptyRing
    BY <1>2 DEF GatewayRestart
  <2> QED
    BY <1>1, <2>1, NoPackets, SaidAnswer
<1>3. CASE GatewayManage
  <2>1. toGateway' = toGateway
    BY <1>3 DEF GatewayManage, GatewayLost, GatewayWrite, GatewayResend, GatewayGiveUp, GatewayIdle,
                radioVars
  <2>2. ASSUME HoldingRing(gring', q), toClient' = toClient \/ \E p : Answer(p) /\ Said(p, q)
        PROVE  AllSaid(gring', toClient', q) /\ DOMAIN toGateway' \subseteq DOMAIN toGateway
    BY <2>1, <2>2, SaidAnswer
  <2>3. Active(gring) # {} =>
          /\ i \in Places
          /\ \A n \in {m, Sending(m), Expired(m), [Expired(m) EXCEPT !.active = FALSE]} :
               IsMessage(n) /\ Holding(n, q)
          /\ Said(Resent(m), q) /\ Said(Resent(Expired(m)), q)
    BY <1>1, HoldingCurrent
  <2>4. ASSUME Active(gring) # {},
               NEW n \in {m, Sending(m), Expired(m), [Expired(m) EXCEPT !.active = FALSE]},
               gring' = [Looked(gring) EXCEPT !.place[i] = n],
               toClient' = toClient \/ Answer(Resent(m)) \/ Answer(Resent(Expired(m)))
        PROVE  AllSaid(gring', toClient', q) /\ DOMAIN toGateway' \subseteq DOMAIN toGateway
    <3> HIDE DEF m, i
    <3>1. HoldingRing(gring', q)
      BY <1>1, <2>3, <2>4, HoldingSet
    <3> QED
      BY <2>2, <2>3, <2>4, <3>1
  <2>5. CASE GatewayLost
    <3>1. Said(Plain("DISCONNECT"), q)
      BY SaidPlain
    <3> QED
      BY <1>1, <2>2, <2>5, <3>1 DEF GatewayLost
  <2>6. CASE \E succeeds \in BOOLEAN : GatewayWrite(succeeds)
    <3>1. Active(gring) # {} /\ Answer(Resent(m))
          /\ \/ gring' = [Looked(gring) EXCEPT !.place[i] = Sending(m)]
             \/ gring' = [Looked(gring) EXCEPT !.place[i] = m]
      BY <2>6 DEF GatewayWrite, ToSend
    <3> HIDE DEF m, i
    <3> QED
      BY <2>4, <3>1
  <2>7. CASE GatewayResend
    <3>1. Active(gring) # {} /\ Answer(Resent(Expired(m)))
          /\ gring' = [Looked(gring) EXCEPT !.place[i] = Expired(m)]
      BY <2>7 DEF GatewayResend, ToSend
    <3> HIDE DEF m, i
    <3> QED
      BY <2>4, <3>1
  <2>8. CASE GatewayGiveUp
    <3>1. Active(gring) # {} /\ toClient' = toClient
          /\ \/ gring' = Cleared(gring)
             \/ gring' = [Looked(gring) EXCEPT !.place[i] = [Expired(m) EXCEPT !.active = FALSE]]
      BY <2>8 DEF GatewayGiveUp, ToSend, radioVars
    <3> HIDE DEF m, i
    <3> QED
      BY <1>1, <2>2, <2>4, <3>1
  <2>9. CASE GatewayIdle
    <3>1. toClient' = toClient
          /\ (gring' = Looked(gring) \/ \E j : RegisterTopic(Looked(gring), j, TRUE))
      BY <2>9 DEF GatewayIdle, radioVars
    <3> QED
      BY <1>1, <2>2, <3>1, HoldingRegister
  <2> QED
    BY <1>3, <2>5, <2>6, <2>7, <2>8, <2>9 DEF GatewayManage
<1> QED
  BY <1>2, <1>3

LEMMA QuietTopics ==
  ASSUME NEW q, Quiet(q), q.asked = {} \/ gstate' = "connecting", GatewayTopicsHandler
  PROVE  AllSaid(gring', toClient', q) /\ DOMAIN toGateway' \subseteq DOMAIN toGateway
<1>1. HoldingRing(gring, q) /\ IsRing(gring)
  BY DEF Quiet, AllSaid, HoldingRing
<1>2. \A id : Matches(gring, id, FALSE) # {} => HoldingRing(Deactivate(gring, Found(gring, id, FALSE)), q)
  BY <1>1, FoundOwn, HoldingDeactivate
<1>3. \A id, data, tid : /\ Said(PacketAbout("REGACK", id, 0, data, tid, ""), q)
                         /\ Said(PacketAbout("SUBACK", id, 0, data, tid, ""), q)
                         /\ Said(Plain("DISCONNECT"), q)
  BY SaidPlain
<1>4. ASSUME NEW type, NEW p \in ToGateway(type), Take(p),
             \/ TurnAway
             \/ /\ HoldingRing(gring', q)
                /\ toClient' = toClient \/ \E x : Answer(x) /\ Said(x, q)
      PROVE  AllSaid(gring', toClient', q) /\ DOMAIN toGateway' \subseteq DOMAIN toGateway
  <2>1. DOMAIN toGateway' \subseteq DOMAIN toGateway
    BY <1>4, TakenHeard
  <2>2. TurnAway => gring' = gring /\ Answer(Plain("DISCONNECT"))
    BY DEF TurnAway, gatewayVars
  <2> QED
    BY <1>1, <1>3, <1>4, <2>1, <2>2, SaidAnswer
<1>5. CASE ReceiveTopic
  <2>1. PICK p \in ToGateway("REGISTER") :
          /\ Take(p)
          /\ \/ TurnAway
             \/ /\ gring' = gring
                /\ Answer(PacketAbout("REGACK", p.id, 0, 0,
                                      gtopics'[ByName(gtopics', p.name)].id, ""))
    BY <1>5 DEF ReceiveTopic, Handle
  <2> QED
    BY <1>1, <1>3, <1>4, <2>1
<1>6. CASE ReceiveTopicAck
  <2>1. PICK p \in ToGateway("REGACK") :
          /\ Take(p)
          /\ \/ TurnAway
             \/ /\ toClient' = toClient
                /\ \/ gring' = gring
                   \/ Matches(gring, p.id, FALSE) # {} /\
                      LET r == Deactivate(gring, Found(gring, p.id, FALSE)) IN
                        gring' = r \/ \E j : RegisterTopic(r, j, TRUE)
    BY <1>6 DEF ReceiveTopicAck, Handle
  <2> QED
    BY <1>1, <1>2, <1>4, <2>1, HoldingRegister
<1>7. CASE ReceiveDelivered
  <2>1. PICK p \in ToGateway("PUBACK") :
          /\ Take(p)
          /\ \/ TurnAway
             \/ /\ toClient' = toClient
                /\ \/ gring' = gring
                   \/ /\ Matches(gring, p.id, FALSE) # {}
                      /\ gring' = Deactivate(gring, Found(gring, p.id, FALSE))
    BY <1>7 DEF ReceiveDelivered, Handle
  <2> QED
    BY <1>1, <1>2, <1>4, <2>1
<1>8. CASE ReceiveCompleted
  <2>1. PICK p \in ToGateway("PUBCOMP") :
          /\ Take(p)
          /\ \/ TurnAway
             \/ /\ toClient' = toClient
                /\ \/ gring' = gring
                   \/ /\ Matches(gring, p.id, FALSE) # {}
                      /\ gring' = Deactivate(gring, Found(gring, p.id, FALSE))
    BY <1>8 DEF ReceiveCompleted, Handle
  <2> QED
    BY <1>1, <1>2, <1>4, <2>1
<1>9. CASE ReceiveRecorded
  <2>1. PICK p \in ToGateway("PUBREC") :
          /\ Take(p)
          /\ \/ TurnAway
             \/ /\ toClient' = toClient
                /\ \/ gring' = gring
                   \/ /\ Matches(gring, p.id, FALSE) # {}
                      /\ gring' = [gring EXCEPT !.place[Found(gring, p.id, FALSE)] =
                                     ReplaceWith(@, "PUBREL", @.data, "publishing")]
    BY <1>9 DEF ReceiveRecorded, Handle
  <2>2. "PUBREL" \in {"WILLMSGREQ", "PUBREL"} /\ "PUBREC" \in Echoes
    BY DEF Echoes
  <2>3. p.id \notin q.asked
    BY <2>1, <2>2, TakenHeard DEF Heard
  <2>4. \A i \in Places : gring.place[i].id = p.id =>
          HoldingRing([gring EXCEPT !.place[i] =
                         ReplaceWith(@, "PUBREL", gring.place[i].data, "publishing")], q)
    BY <1>1, <2>2, <2>3, HoldingReplaced
  <2>5. Matches(gring, p.id, FALSE) # {} =>
          /\ Found(gring, p.id, FALSE) \in Places
          /\ gring.place[Found(gring, p.id, FALSE)].id = p.id
    BY FoundOwn
  <2>6. HoldingRing(gring', q) \/ TurnAway
    BY <1>1, <2>1, <2>4, <2>5
  <2> QED
    BY <1>4, <2>1, <2>6
<1>10. CASE ReceiveSubscribe
  <2> DEFINE a == Add(gring, "subscribing")
             topics(p) == AddTopic(gtopics, p.name, p.id)
             waits(p) == [a.place[a.tail] EXCEPT !.tid = topics(p)[ByName(topics(p), p.name)].id,
                                                 !.id = p.id, !.ext = TRUE, !.qos = p.qos,
                                                 !.mos = mids', !.oneshot = TRUE]
  <2>1. PICK p \in ToGateway("SUBSCRIBE") :
          /\ Take(p)
          /\ \/ TurnAway
             \/ /\ gring' = gring
                /\ \E data, tid : Answer(PacketAbout("SUBACK", p.id, 0, data, tid, ""))
             \/ /\ CanAdd(gring) /\ toClient' = toClient
                /\ gring' = [a EXCEPT !.place[a.tail] = waits(p)]
    BY <1>10 DEF ReceiveSubscribe, Handle, SubscribeTo, SubscribeFails, Packet
  <2>2. CASE CanAdd(gring) /\ toClient' = toClient /\ gring' = [a EXCEPT !.place[a.tail] = waits(p)]
    <3>1. p.id \notin q.dialled /\ p.qos \in 0 .. 2
      BY <2>1, TakenHeard DEF Heard, Handed
    <3>2. /\ IsRing(a) /\ a.tail = AddedAt(gring) /\ AddedAt(gring) \in Places
          /\ a.place[AddedAt(gring)].type = "none" /\ IsMessage(a.place[AddedAt(gring)])
      BY <1>1, <2>2, AddRing DEF IsRing
    <3> HIDE DEF a
    <3>3. IsMessage(waits(p)) /\ waits(p).type = "none" /\ waits(p).id = p.id /\ waits(p).qos = p.qos
      BY <3>2 DEF IsMessage, Fields
    <3> HIDE DEF waits
    <3>4. HoldingRing(gring', q)
      BY <1>1, <2>2, <3>1, <3>2, <3>3, HoldingWaits DEF a
    <3> QED
      BY <1>4, <2>1, <2>2, <3>4
  <2> HIDE DEF waits, a
  <2> QED
    BY <1>1, <1>3, <1>4, <2>1, <2>2
<1> QED
  BY <1>5, <1>6, <1>7, <1>8, <1>9, <1>10 DEF GatewayTopicsHandler

LEMMA QuietDelivers ==
  ASSUME NEW q, Quiet(q), q.asked = {} \/ gstate' = "connecting", NextId(gring.last) \notin q.asked,
         MessageCallback \/ MessageTail
  PROVE  AllSaid(gring', toClient', q) /\ DOMAIN toGateway' \subseteq DOMAIN toGateway
<1>1. HoldingRing(gring, q) /\ UNCHANGED <<toClient, toGateway>>
  BY CallbackQueues DEF Quiet, AllSaid, radioVars
<1>2. "PUBLISH" \in Notices
  BY DEF Notices
<1>3. ASSUME NEW tid, NEW name, NEW qos, NEW number
      PROVE  HoldingRing(Delivery(gring, tid, name, qos, number), q)
  <2>1. CanAdd(gring) => HoldingRing(AddAbout(gring, "publishing", "PUBLISH", tid, name, number, qos,
                                              qos = 0), q)
    BY <1>1, <1>2, HoldingNotice
  <2> QED
    BY <1>1, <2>1 DEF Delivery
<1>4. ASSUME NEW j, RegisterTopic(gring, j, gsend)
      PROVE  HoldingRing(gring', q)
  BY <1>1, <1>4, HoldingRegister
<1>5. HoldingRing(gring', q)
  BY <1>1, <1>3, <1>4, CallbackQueues
<1> QED
  BY <1>1, <1>5, SaidAnswer

----------------------------------------------------------------------------
(* The gateway goes on asking: a step after which it is connecting left its   *)
(* request at the head of the ring, or put it there.                          *)
AsksOn == Requested(gring') /\ Asked' \subseteq Asked \cup {NextId(gring.last)}

LEMMA RequestCurrent ==
  ASSUME IsRing(gring), Requested(gring)
  PROVE  /\ Active(gring) # {} /\ gring.head \in Places /\ Current(gring) = gring.head
         /\ IsRing(Looked(gring)) /\ Looked(gring).head = gring.head
         /\ Looked(gring).place = gring.place /\ HasContent(gring.place[gring.head])
<1>1. gring.head \in Active(gring) /\ gring.head \in Places
  BY DEF IsRing, Active, Requested, Asks
<1> QED
  BY <1>1, CurrentActive, LookedRing DEF Requested, Asks, HasContent

LEMMA RequestKept ==
  ASSUME gstate' = gstate, Requested(gring), gring'.head = gring.head,
         Asks(gring'.place[gring.head]), gring'.place[gring.head].id = gring.place[gring.head].id
  PROVE  AsksOn
BY DEF AsksOn, Requested, Asked

LEMMA RequestSame ==
  ASSUME gstate' = gstate, Requested(gring), gring'.head = gring.head,
         gring'.place[gring.head] = gring.place[gring.head]
  PROVE  AsksOn
BY RequestKept DEF Requested

(* What happens at another place does not disturb the request.                *)
LEMMA RequestElsewhere ==
  ASSUME gstate' = gstate, IsRing(gring), Requested(gring)
  PROVE  /\ \A i \in Places \ {gring.head} : gring' = Deactivate(gring, i) => AsksOn
         /\ \A i \in Places \ {gring.head} : \A m : gring' = [gring EXCEPT !.place[i] = m] => AsksOn
         /\ \A activity : CanAdd(gring) =>
              /\ gring' = Deactivate(Add(gring, activity), AddedAt(gring)) => AsksOn
              /\ \A m : gring' = [Add(gring, activity) EXCEPT !.place[AddedAt(gring)] = m] => AsksOn
<1>1. gring.head \in Active(gring) /\ gring.head \in Places
  BY DEF IsRing, Active, Requested, Asks
<1>2. ASSUME NEW i \in Places \ {gring.head}, gring' = Deactivate(gring, i)
      PROVE  AsksOn
  <2>1. LET n == Deactivate(gring, i) IN
          /\ n.head = gring.head
          /\ \A j \in Places \ {i} : n.place[j] = gring.place[j]
    BY DeactivateRing
  <2> QED
    BY <1>1, <1>2, <2>1, RequestSame
<1>3. ASSUME NEW i \in Places \ {gring.head}, NEW m, gring' = [gring EXCEPT !.place[i] = m]
      PROVE  AsksOn
  BY <1>1, <1>3, RequestSame DEF IsRing
<1>4. ASSUME NEW activity, CanAdd(gring)
      PROVE  /\ gring' = Deactivate(Add(gring, activity), AddedAt(gring)) => AsksOn
             /\ \A m : gring' = [Add(gring, activity) EXCEPT !.place[AddedAt(gring)] = m] => AsksOn
  <2> DEFINE a == Add(gring, activity)
             i == AddedAt(gring)
  <2>1. /\ IsRing(a) /\ a.head = gring.head /\ i \in Places /\ i # gring.head
        /\ a.place[gring.head] = gring.place[gring.head]
    BY <1>1, <1>4, AddRing
  <2> HIDE DEF a, i
  <2>2. ASSUME gring' = Deactivate(a, i)
        PROVE  AsksOn
    <3>1. LET n == Deactivate(a, i) IN
            /\ n.head = a.head
            /\ \A j \in Places \ {i} : n.place[j] = a.place[j]
      BY <2>1, DeactivateRing
    <3> QED
      BY <1>1, <2>1, <2>2, <3>1, RequestSame
  <2>3. ASSUME NEW m, gring' = [a EXCEPT !.place[i] = m]
        PROVE  AsksOn
    BY <1>1, <2>1, <2>3, RequestSame DEF IsRing
  <2> QED
    BY <2>2, <2>3 DEF a, i
<1> QED
  BY <1>2, <1>3, <1>4

(* The first message after a ring was cleared is at place 0.                  *)
LEMMA FirstAdded ==
  ASSUME NEW r, IsRing(r), NEW activity, NEW type, NEW tid, NEW name, NEW data, NEW qos, NEW oneshot
  PROVE  LET n == AddAbout(Cleared(r), activity, type, tid, name, data, qos, oneshot) IN
           /\ IsRing(n) /\ n.head = 0 /\ 0 \in Places
           /\ n.place[0].active /\ n.place[0].type = type /\ n.place[0].id = NextId(r.last)
           /\ ~n.place[0].ext /\ n.place[0].qos = qos /\ n.place[0].activity = activity
           /\ n.place[0].oneshot = oneshot
           /\ \A i \in Places \ {0} : ~n.place[i].active
<1> DEFINE c == Cleared(r)
<1>1. /\ IsRing(c) /\ c.head = 0 /\ c.tail = 0 /\ Active(c) = {} /\ c.last = r.last
      /\ 0 \in Places /\ \A i \in Places : ~c.place[i].active
  <2>1. 0 \in Places /\ c.head = 0 /\ c.tail = 0
    BY RingSizeAssumption DEF Places, Cleared, EmptyRing
  <2> QED
    BY <2>1, ClearedRing, ResetFields
<1>2. CanAdd(c) /\ AddedAt(c) = 0
  <2>1. Places \ Active(c) = Places /\ Places \in SUBSET Places
    BY <1>1
  <2>2. FirstFrom(0, Places) = 0
    BY <1>1, <2>1, FirstFromSelf
  <2> QED
    BY <1>1, <2>1, <2>2 DEF CanAdd, AddedAt
<1> HIDE DEF c
<1>3. LET n == AddAbout(c, activity, type, tid, name, data, qos, oneshot)
          i == AddedAt(c)
      IN /\ IsRing(n) /\ n.head = c.head
         /\ n.place[i].active /\ n.place[i].type = type /\ n.place[i].id = NextId(c.last)
         /\ ~n.place[i].ext /\ n.place[i].qos = qos /\ n.place[i].activity = activity
         /\ n.place[i].oneshot = oneshot
         /\ \A j \in Places \ {i} : n.place[j] = c.place[j]
  BY <1>1, <1>2, AddAboutRing
<1> QED
  BY <1>1, <1>2, <1>3 DEF c

LEMMA AsksOnConnect ==
  ASSUME IsRing(gring), ReceiveConnect, gstate' = "connecting"
  PROVE  AsksOn
<1>1. gring' = AddWith(Cleared(gring), "willtopic", "WILLTOPICREQ", 0)
  BY DEF ReceiveConnect
<1>2. PICK activity, type, none, name, qos, oneshot :
        /\ gring' = AddAbout(Cleared(gring), activity, type, none, name, none, qos, oneshot)
        /\ activity = "willtopic" /\ type = "WILLTOPICREQ" /\ ~oneshot
  BY <1>1 DEF AddWith
<1>3. LET n == AddAbout(Cleared(gring), activity, type, none, name, none, qos, oneshot) IN
        /\ n.head = 0
        /\ n.place[0].active /\ n.place[0].type = type /\ n.place[0].id = NextId(gring.last)
        /\ ~n.place[0].ext /\ n.place[0].activity = activity /\ n.place[0].oneshot = oneshot
  BY FirstAdded
<1> QED
  BY <1>2, <1>3 DEF AsksOn, Requested, Asks, Asked

LEMMA AsksOnHandshakes ==
  ASSUME IsRing(gring), gstate = "connecting" => Requested(gring), gstate' = "connecting",
         ReceiveConnect \/ ReceiveWilltopic \/ ReceiveWillmsg \/ ReceiveDisconnect \/ ReceiveSearchgw
  PROVE  AsksOn
<1>1. CASE gring' = gring /\ gstate' = gstate
  BY <1>1, RequestSame
<1>2. CASE TurnAway \/ ReceiveDisconnect \/ ReceiveSearchgw
  <2>1. CASE TurnAway \/ ReceiveSearchgw
    BY <1>1, <2>1 DEF TurnAway, ReceiveSearchgw, gatewayVars
  <2>2. CASE ReceiveDisconnect
    BY <1>1, <2>2 DEF ReceiveDisconnect
  <2> QED
    BY <1>2, <2>1, <2>2
<1>3. CASE ReceiveWilltopic \/ ReceiveWillmsg
  <2>1. \/ TurnAway
        \/ Active(gring) = {} /\ gstate' = gstate
        \/ gstate' = "connected"
        \/ /\ gstate' = gstate
           /\ gring' = [Looked(gring) EXCEPT !.place[Current(gring)] =
                          ReplaceWith(@, "WILLMSGREQ", 0, "willmessage")]
    BY <1>3 DEF ReceiveWilltopic, ReceiveWillmsg
  <2>2. CASE gstate = "connecting" /\ gring' = [Looked(gring) EXCEPT !.place[Current(gring)] =
                                                  ReplaceWith(@, "WILLMSGREQ", 0, "willmessage")]
    <3> DEFINE h == gring.head
               m == ReplaceWith(gring.place[h], "WILLMSGREQ", 0, "willmessage")
    <3>1. /\ Requested(gring) /\ h \in Places /\ Current(gring) = h
          /\ IsRing(Looked(gring)) /\ Looked(gring).head = h /\ Looked(gring).place = gring.place
      BY <2>2, RequestCurrent
    <3>2. IsMessage(gring.place[h])
      BY <3>1 DEF IsRing
    <3>3. gring' = [Looked(gring) EXCEPT !.place[h] = m]
      BY <2>2, <3>1
    <3> HIDE DEF h
    <3>4. Asks(m) /\ m.id = gring.place[h].id
      BY <3>1, <3>2, ReplaceFields DEF Requested, Asks, h
    <3> HIDE DEF m
    <3>5. gring'.head = h /\ gring'.place[h] = m
      BY <3>1, <3>3 DEF IsRing
    <3> QED
      BY <2>2, <3>1, <3>4, <3>5, RequestKept DEF h
  <2> QED
    BY <1>2, <2>1, <2>2, RequestCurrent
<1> QED
  BY <1>2, <1>3, AsksOnConnect

(* The end of a callback that began before adds a message elsewhere.          *)
LEMMA AsksOnTail ==
  ASSUME IsRing(gring), Requested(gring), MessageTail
  PROVE  gring'.head = gring.head /\ gring'.place[gring.head] = gring.place[gring.head]
<1>1. gring.head \in Active(gring) /\ gring.head \in Places
  BY DEF IsRing, Active, Requested, Asks
<1>2. CASE ~CanAdd(gring)
  BY <1>2 DEF MessageTail, Delivery
<1>3. CASE CanAdd(gring)
  <2>1. PICK activity, type, tid, name, data, qos, oneshot :
          gring' = AddAbout(gring, activity, type, tid, name, data, qos, oneshot)
    BY <1>3 DEF MessageTail, Delivery
  <2>2. LET n == AddAbout(gring, activity, type, tid, name, data, qos, oneshot)
            i == AddedAt(gring)
        IN /\ n.head = gring.head /\ i \in Places \ Active(gring)
           /\ \A j \in Places \ {i} : n.place[j] = gring.place[j]
    BY <1>3, AddAboutRing
  <2> QED
    BY <1>1, <2>1, <2>2
<1> QED
  BY <1>2, <1>3

(* A publish, a release or a callback is about another message.               *)
LEMMA AsksOnPublishes ==
  ASSUME gstate = "connecting", gstate' = "connecting", IsRing(gring), Requested(gring),
         ReceivePublish \/ ReceivePubrel \/ PublishCallback \/ SubscribeCallback \/ MessageCallback
           \/ MessageTail
  PROVE  AsksOn
<1>1. gstate' = gstate /\ Registered /\ gstate # "connected" /\ ~TurnAway
  BY DEF Registered, TurnAway
<1>2. CASE gring' = gring
  BY <1>1, <1>2, RequestSame
<1>3. CASE ReceivePublish
  <2>1. PICK p : Forward(p) \/ Refuse(p)
    BY <1>1, <1>3 DEF ReceivePublish
  <2>2. CASE Forward(p)
    <3>1. CanAdd(gring)
      BY <2>2 DEF Forward
    <3>2. LET a == Add(gring, "publishing") IN a.tail = AddedAt(gring)
      BY <3>1, AddRing
    <3>3. \E m : gring' = [Add(gring, "publishing") EXCEPT !.place[AddedAt(gring)] = m]
      BY <2>2, <3>2 DEF Forward
    <3> QED
      BY <1>1, <3>1, <3>3, RequestElsewhere
  <2>3. CASE Refuse(p)
    <3>1. \/ gring' = gring
          \/ CanAdd(gring) /\ gring' = Deactivate(Add(gring, "publishing"), AddedAt(gring))
      BY <2>3 DEF Refuse
    <3> QED
      BY <1>1, <1>2, <3>1, RequestElsewhere
  <2> QED
    BY <2>1, <2>2, <2>3
<1>4. CASE ReceivePubrel
  <2>1. PICK p : \/ gring' = gring
                 \/ /\ Matches(gring, p.id, TRUE) # {}
                    /\ gring' = Deactivate(gring, Found(gring, p.id, TRUE))
    BY <1>1, <1>4 DEF ReceivePubrel
  <2>2. Matches(gring, p.id, TRUE) # {} => Found(gring, p.id, TRUE) \in Places \ {gring.head}
    BY FoundExternal DEF Requested, Asks
  <2> QED
    BY <1>1, <1>2, <2>1, <2>2, RequestElsewhere
<1>5. CASE PublishCallback \/ SubscribeCallback \/ MessageCallback
  <2>1. gring' = gring
    BY <1>1, <1>5 DEF PublishCallback, SubscribeCallback, MessageCallback, Answered
  <2> QED
    BY <1>2, <2>1
<1>6. CASE MessageTail
  BY <1>1, <1>6, AsksOnTail, RequestSame
<1> QED
  BY <1>3, <1>4, <1>5, <1>6

(* The turn of the ring writes the request, as long as it does not fail.      *)
LEMMA AsksOnTurns ==
  ASSUME gstate = "connecting", gstate' = "connecting", IsRing(gring), Requested(gring),
         GatewayManage \/ GatewayRestart
  PROVE  AsksOn
<1> DEFINE h == gring.head
           m == gring.place[h]
<1>1. /\ Active(gring) # {} /\ h \in Places /\ Current(gring) = h /\ IsMessage(m) /\ Asks(m)
      /\ IsRing(Looked(gring)) /\ Looked(gring).head = h /\ HasContent(m)
  BY RequestCurrent DEF IsRing, Requested
<1>2. ToSend /\ gstate' = gstate
  BY <1>1 DEF ToSend, Managed
<1> HIDE DEF h, m
<1>3. ASSUME NEW n \in {m, Sending(m), Expired(m)}, gring' = [Looked(gring) EXCEPT !.place[h] = n]
      PROVE  AsksOn
  <2>1. Asks(n) /\ n.id = m.id
    BY <1>1, SendingFields, ExpiredFields DEF Asks, Fields
  <2>2. gring'.head = h /\ gring'.place[h] = n
    BY <1>1, <1>3 DEF IsRing
  <2> QED
    BY <1>2, <2>1, <2>2, RequestKept DEF h, m
<1>4. CASE \E succeeds \in BOOLEAN : GatewayWrite(succeeds)
  <2>1. \/ gring' = [Looked(gring) EXCEPT !.place[h] = Sending(m)]
        \/ gring' = [Looked(gring) EXCEPT !.place[h] = m]
    BY <1>1, <1>4 DEF GatewayWrite, m
  <2> QED
    BY <1>3, <2>1
<1>5. CASE GatewayResend
  BY <1>1, <1>3, <1>5 DEF GatewayResend, m
<1>6. ~GatewayLost /\ ~GatewayRestart /\ ~GatewayIdle
  BY <1>2 DEF GatewayLost, GatewayRestart, GatewayIdle
<1>7. ~GatewayGiveUp
  <2>1. Expired(m).activity = m.activity
    BY <1>1, ExpiredFields DEF Fields
  <2> QED
    BY <1>1, <2>1 DEF GatewayGiveUp, Asks, m
<1> QED
  BY <1>4, <1>5, <1>6, <1>7 DEF GatewayManage

(* An acknowledgement that completes a message has its id.                    *)
LEMMA AsksOnTopics ==
  ASSUME gstate = "connecting", IsRing(gring), Requested(gring), Quiet(Now), GatewayTopicsHandler
  PROVE  AsksOn
<1>1. gstate' = gstate /\ ~TurnAway /\ gstate # "connected"
  BY DEF GatewayTopicsHandler, TurnAway, Registered
<1>2. CASE gring' = gring
  BY <1>1, <1>2, RequestSame
<1>3. ASSUME NEW type \in Echoes, NEW p \in ToGateway(type), Take(p), Matches(gring, p.id, FALSE) # {},
             \/ gring' = Deactivate(gring, Found(gring, p.id, FALSE))
             \/ \E m : gring' = [gring EXCEPT !.place[Found(gring, p.id, FALSE)] = m]
      PROVE  AsksOn
  <2>1. p.type \in Echoes /\ p.id \notin Now.asked
    BY <1>3, TakenHeard DEF Heard
  <2>2. p.id # gring.place[gring.head].id
    BY <2>1 DEF Now, Asked
  <2>3. Matches(gring, p.id, FALSE) # {}
    BY <1>3
  <2>4. /\ Found(gring, p.id, FALSE) \in Places
        /\ gring.place[Found(gring, p.id, FALSE)].id = p.id
    BY <2>3, FoundOwn
  <2>5. Found(gring, p.id, FALSE) \in Places \ {gring.head}
    BY <2>2, <2>4
  <2> QED
    BY <1>1, <1>3, <2>5, RequestElsewhere
<1>4. "REGACK" \in Echoes /\ "PUBACK" \in Echoes /\ "PUBCOMP" \in Echoes /\ "PUBREC" \in Echoes
  BY DEF Echoes, AtOnce
<1>5. CASE ReceiveTopic
  BY <1>1, <1>2, <1>5 DEF ReceiveTopic, Handle
<1>6. CASE ReceiveTopicAck
  <2>1. PICK p \in ToGateway("REGACK") :
          /\ Take(p)
          /\ \/ gring' = gring
             \/ /\ Matches(gring, p.id, FALSE) # {}
                /\ gring' = Deactivate(gring, Found(gring, p.id, FALSE))
    BY <1>1, <1>6 DEF ReceiveTopicAck, Handle
  <2> QED
    BY <1>2, <1>3, <1>4, <2>1
<1>7. CASE ReceiveDelivered
  <2>1. PICK p \in ToGateway("PUBACK") :
          /\ Take(p)
          /\ \/ gring' = gring
             \/ /\ Matches(gring, p.id, FALSE) # {}
                /\ gring' = Deactivate(gring, Found(gring, p.id, FALSE))
    BY <1>1, <1>7 DEF ReceiveDelivered, Handle
  <2> QED
    BY <1>2, <1>3, <1>4, <2>1
<1>8. CASE ReceiveCompleted
  <2>1. PICK p \in ToGateway("PUBCOMP") :
          /\ Take(p)
          /\ \/ gring' = gring
             \/ /\ Matches(gring, p.id, FALSE) # {}
                /\ gring' = Deactivate(gring, Found(gring, p.id, FALSE))
    BY <1>1, <1>8 DEF ReceiveCompleted, Handle
  <2> QED
    BY <1>2, <1>3, <1>4, <2>1
<1>9. CASE ReceiveRecorded
  <2>1. PICK p \in ToGateway("PUBREC") :
          /\ Take(p)
          /\ \/ gring' = gring
             \/ /\ Matches(gring, p.id, FALSE) # {}
                /\ \E m : gring' = [gring EXCEPT !.place[Found(gring, p.id, FALSE)] = m]
    BY <1>1, <1>9 DEF ReceiveRecorded, Handle
  <2> QED
    BY <1>2, <1>3, <1>4, <2>1
<1>10. CASE ReceiveSubscribe
  <2> DEFINE a == Add(gring, "subscribing")
             topics(p) == AddTopic(gtopics, p.name, p.id)
             waits(p) == [a.place[a.tail] EXCEPT !.tid = topics(p)[ByName(topics(p), p.name)].id,
                                                 !.id = p.id, !.ext = TRUE, !.qos = p.qos,
                                                 !.mos = mids', !.oneshot = TRUE]
  <2>1. PICK p : \/ gring' = gring
                 \/ CanAdd(gring) /\ gring' = [a EXCEPT !.place[a.tail] = waits(p)]
    BY <1>1, <1>10 DEF ReceiveSubscribe, Handle, SubscribeTo, SubscribeFails
  <2> HIDE DEF waits
  <2>2. CanAdd(gring) => a.tail = AddedAt(gring)
    BY <1>1, AddRing
  <2> QED
    BY <1>1, <1>2, <2>1, <2>2, RequestElsewhere
<1> QED
  BY <1>5, <1>6, <1>7, <1>8, <1>9, <1>10 DEF GatewayTopicsHandler

LEMMA AsksOnAll ==
  ASSUME IsRing(gring), gstate = "connecting" => Requested(gring), gstate' = "connecting",
         Quiet(Now), GatewayNext \/ GatewayTopicsNext
  PROVE  AsksOn
<1>1. gstate # "connecting" =>
        ReceiveConnect \/ ReceiveWilltopic \/ ReceiveWillmsg \/ ReceiveDisconnect \/ ReceiveSearchgw
  BY DEF GatewayNext, GatewayHandler, GatewayTopicsNext, ReceivePublish, ReceivePubrel, TurnAway,
         gatewayVars, PublishCallback, SubscribeCallback, MessageCallback, MessageTail,
         GatewayRestart, GatewayTopicsHandler, GatewayManage, GatewayLost, GatewayWrite, GatewayResend,
         GatewayGiveUp, GatewayIdle, ToSend, Managed
<1>2. CASE ReceiveConnect \/ ReceiveWilltopic \/ ReceiveWillmsg \/ ReceiveDisconnect \/ ReceiveSearchgw
  BY <1>2, AsksOnHandshakes
<1>3. CASE gstate = "connecting"
  BY <1>2, <1>3, AsksOnPublishes, AsksOnTurns, AsksOnTopics
  DEF GatewayNext, GatewayHandler, GatewayTopicsNext
<1> QED
  BY <1>1, <1>2, <1>3

----------------------------------------------------------------------------
(* The client goes on dialling: a step after which it is connecting left a    *)
(* message of the handshake active, unless a search was made, and what it     *)
(* added to the ring has a new id.                                            *)
DialsOn ==
  /\ Dialled' \subseteq Dialled \cup {NextId(cring.last)}
  /\ made'["search"] = 0 => Dialling(cring')

Dialler(m) == m.active /\ m.type \in {"CONNECT", "WILLTOPIC", "WILLMSG"}
Follows(n, m) ==
  n.active => m.active /\ n.id = m.id /\ n.oneshot = m.oneshot

LEMMA DialsKept ==
  ASSUME cstate' = cstate, cstate = "connecting" /\ made["search"] = 0 => Dialling(cring),
         made' = made, \A i \in Places : Follows(cring'.place[i], cring.place[i]),
         cstate = "connecting" /\ made["search"] = 0 =>
           \A i \in Places : Dialler(cring.place[i]) => Dialler(cring'.place[i])
  PROVE  cstate' = "connecting" => DialsOn
<1> SUFFICES ASSUME cstate' = "connecting" PROVE DialsOn
  OBVIOUS
<1>1. Dialled' \subseteq Dialled
  BY DEF Dialled, Follows, Active
<1>2. ASSUME made'["search"] = 0
      PROVE  Dialling(cring')
  <2>1. Dialling(cring)
    BY <1>2
  <2>2. \A i \in Places : Dials(cring'.place[i])
    BY <2>1 DEF Dialling, Dials, Follows
  <2>3. \E i \in Places : Dialler(cring'.place[i])
    BY <1>2, <2>1 DEF Dialling, Dialler, Active
  <2> QED
    BY <2>2, <2>3 DEF Dialling, Dialler, Active
<1> QED
  BY <1>1, <1>2 DEF DialsOn

LEMMA DialsSame ==
  ASSUME cstate = "connecting" /\ made["search"] = 0 => Dialling(cring),
         UNCHANGED <<cstate, made>>, cring'.place = cring.place
  PROVE  cstate' = "connecting" => DialsOn
BY DialsKept DEF Follows

LEMMA DialsSet ==
  ASSUME cstate = "connecting" /\ made["search"] = 0 => Dialling(cring), UNCHANGED <<cstate, made>>,
         NEW i \in Places, \A j \in Places \ {i} : cring'.place[j] = cring.place[j],
         Follows(cring'.place[i], cring.place[i]),
         cstate = "connecting" /\ made["search"] = 0 =>
           (Dialler(cring.place[i]) => Dialler(cring'.place[i]))
  PROVE  cstate' = "connecting" => DialsOn
<1>1. \A j \in Places : Follows(cring'.place[j], cring.place[j])
  BY DEF Follows
<1>2. cstate = "connecting" /\ made["search"] = 0 =>
        \A j \in Places : Dialler(cring.place[j]) => Dialler(cring'.place[j])
  OBVIOUS
<1> QED
  BY <1>1, <1>2, DialsKept

LEMMA DialsDone ==
  ASSUME cstate = "connecting" /\ made["search"] = 0 => Dialling(cring), UNCHANGED <<cstate, made>>,
         NEW r, IsRing(r), r.place = cring.place, NEW i \in Places, cring' = Deactivate(r, i),
         cstate = "connecting" /\ made["search"] = 0 => ~cring.place[i].active
  PROVE  cstate' = "connecting" => DialsOn
<1>1. LET n == Deactivate(r, i) IN
        /\ n.place[i] = [r.place[i] EXCEPT !.active = FALSE]
        /\ \A j \in Places \ {i} : n.place[j] = r.place[j]
  BY DeactivateRing
<1>2. ~cring'.place[i].active
  BY <1>1, InactiveFields DEF IsRing
<1> QED
  BY <1>1, <1>2, DialsSet DEF Follows, Dialler

(* The calls of the application.                                              *)
LEMMA DialsCalls ==
  ASSUME IsRing(cring), cstate = "connecting" /\ made["search"] = 0 => Dialling(cring),
         made \in [Calls -> Nat], cstate' = "connecting",
         Connect \/ Disconnect \/ Publish \/ Searchgw \/ ClientRestart \/ Register \/ Subscribe
  PROVE  DialsOn
<1>1. CASE Connect
  <2>1. PICK activity, type, none, name, data, qos, oneshot :
          /\ cring' = AddAbout(Cleared(cring), activity, type, none, name, data, qos, oneshot)
          /\ type = "CONNECT" /\ ~oneshot
    <3>1. \E activity, data : cring' = AddWith(Cleared(cring), activity, "CONNECT", data)
      BY <1>1 DEF Connect
    <3> QED
      BY <3>1 DEF AddWith
  <2>2. LET n == AddAbout(Cleared(cring), activity, type, none, name, data, qos, oneshot) IN
          /\ 0 \in Places
          /\ n.place[0].active /\ n.place[0].type = type /\ n.place[0].id = NextId(cring.last)
          /\ n.place[0].oneshot = oneshot
          /\ \A i \in Places \ {0} : ~n.place[i].active
    BY FirstAdded
  <2>3. /\ 0 \in Places
        /\ cring'.place[0].active /\ cring'.place[0].type = "CONNECT"
        /\ cring'.place[0].id = NextId(cring.last) /\ ~cring'.place[0].oneshot
        /\ \A i \in Places \ {0} : ~cring'.place[i].active
    BY <2>1, <2>2
  <2>4. Active(cring') = {0}
    BY <2>3 DEF Active
  <2>5. Dialling(cring')
    BY <2>3, <2>4 DEF Dialling, Dials
  <2>6. Dialled' \subseteq {NextId(cring.last)}
    BY <2>3, <2>4 DEF Dialled, Active
  <2> QED
    BY <2>5, <2>6 DEF DialsOn
<1>2. ASSUME cstate = "connecting", CanAdd(cring), NEW activity, NEW type, NEW data,
             cring' = AddWith(cring, activity, type, data),
             made'["search"] = 0 => made["search"] = 0
      PROVE  DialsOn
  <2>1. PICK none, name, qos, oneshot :
          /\ cring' = AddAbout(cring, activity, type, none, name, data, qos, oneshot)
          /\ ~oneshot
    BY <1>2 DEF AddWith
  <2>2. LET n == AddAbout(cring, activity, type, none, name, data, qos, oneshot)
            i == AddedAt(cring)
        IN /\ i \in Places \ Active(cring)
           /\ n.place[i].id = NextId(cring.last)
           /\ n.place[i].oneshot = oneshot
           /\ \A j \in Places \ {i} : n.place[j] = cring.place[j]
    BY <1>2, AddAboutRing
  <2>3. PICK i \in Places \ Active(cring) :
          /\ cring'.place[i].id = NextId(cring.last)
          /\ ~cring'.place[i].oneshot
          /\ \A j \in Places \ {i} : cring'.place[j] = cring.place[j]
    BY <2>1, <2>2
  <2>4. Dialled' \subseteq Dialled \cup {NextId(cring.last)}
    <3>1. ASSUME NEW j \in Places, cring'.place[j].active
          PROVE  cring'.place[j].id \in Dialled \cup {NextId(cring.last)}
      BY <1>2, <2>3, <3>1 DEF Dialled, Active
    <3>2. Dialled' = {cring'.place[j].id : j \in {k \in Places : cring'.place[k].active}}
      BY DEF Dialled, Active
    <3> QED
      BY <3>1, <3>2
  <2>5. Dialling(cring) => Dialling(cring')
    BY <2>3 DEF Dialling, Dials, Active
  <2> QED
    BY <1>2, <2>4, <2>5 DEF DialsOn
<1>3. CASE Disconnect
  <2>1. cstate = "connecting" /\ CanAdd(cring) /\ made'["search"] = made["search"]
        /\ \E data : cring' = AddWith(cring, "disconnecting", "DISCONNECT", data)
    BY <1>3 DEF Disconnect, Count, Calls
  <2> QED
    BY <1>2, <2>1
<1>4. CASE Searchgw
  <2>1. cstate = "connecting" /\ CanAdd(cring) /\ made'["search"] # 0
        /\ cring' = AddWith(cring, "searching", "SEARCHGW", 0)
    BY <1>4 DEF Searchgw, Count, Calls
  <2> QED
    BY <1>2, <2>1
<1>5. ~(Publish \/ ClientRestart \/ Register \/ Subscribe)
  BY DEF Publish, ClientRestart, Register, Subscribe
<1> QED
  BY <1>1, <1>3, <1>4, <1>5

(* The turn of the ring.                                                      *)
LEMMA DialsTurns ==
  ASSUME IsRing(cring), cstate = "connecting" /\ made["search"] = 0 => Dialling(cring),
         cstate' = "connecting", ClientManage
  PROVE  DialsOn
<1> DEFINE i == Current(cring)
           m == cring.place[i]
<1>1. /\ IsRing(Looked(cring)) /\ Looked(cring).place = cring.place
      /\ Active(cring) # {} => i \in Places /\ IsMessage(m)
  BY LookedRing, CurrentActive DEF IsRing
<1>2. ASSUME Active(cring) # {}, NEW n \in {m, Sending(m), Expired(m)}, UNCHANGED <<cstate, made>>,
             cring' = [Looked(cring) EXCEPT !.place[i] = n]
      PROVE  DialsOn
  <2> HIDE DEF m, i
  <2>1. cring'.place[i] = n /\ \A j \in Places \ {i} : cring'.place[j] = cring.place[j]
    BY <1>1, <1>2 DEF IsRing
  <2>2. Follows(n, m) /\ n.type = m.type
    <3>1. Sending(m).active => m.active
      BY <1>1, <1>2 DEF IsMessage, Fields, Sending
    <3> QED
      BY <1>1, <1>2, <3>1, SendingFields, ExpiredFields DEF Follows, Fields
  <2>3. ~m.oneshot /\ m.active => n.active
    BY <1>1, <1>2, SendingFields, ExpiredFields DEF Fields
  <2>4. cstate = "connecting" /\ made["search"] = 0 => (m.active => ~m.oneshot)
    BY <1>1, <1>2 DEF Dialling, Dials, m
  <2>5. cstate = "connecting" /\ made["search"] = 0 => (Dialler(m) => Dialler(n))
    BY <2>2, <2>3, <2>4 DEF Dialler
  <2> QED
    BY <1>1, <1>2, <2>1, <2>2, <2>5, DialsSet DEF m
<1>3. CASE \E succeeds \in BOOLEAN : ClientWrite(succeeds)
  <2>1. Active(cring) # {} /\ UNCHANGED <<cstate, made>>
        /\ \/ cring' = [Looked(cring) EXCEPT !.place[i] = Sending(m)]
           \/ cring' = [Looked(cring) EXCEPT !.place[i] = m]
    BY <1>3 DEF ClientWrite
  <2> HIDE DEF m, i
  <2> QED
    BY <1>2, <2>1
<1>4. CASE ClientResend
  <2>1. Active(cring) # {} /\ UNCHANGED <<cstate, made>>
        /\ cring' = [Looked(cring) EXCEPT !.place[i] = Expired(m)]
    BY <1>4 DEF ClientResend
  <2> HIDE DEF m, i
  <2> QED
    BY <1>2, <2>1
<1>5. CASE ClientIdle
  BY <1>1, <1>5, DialsSame DEF ClientIdle
<1>6. ~ClientLost /\ ~ClientGiveUp
  BY DEF ClientLost, ClientGiveUp
<1> QED
  BY <1>3, <1>4, <1>5, <1>6 DEF ClientManage

(* The handlers: an acknowledgement that completes a message has its id.      *)
LEMMA DialsHandles ==
  ASSUME IsRing(cring), cstate = "connecting" /\ made["search"] = 0 => Dialling(cring),
         made \in [Calls -> Nat], Quiet(Now), cstate' = "connecting",
         ClientHandler \/ ClientTopicsHandler
  PROVE  DialsOn
<1>1. made' = made /\ cstate = "connecting" /\ cstate' = cstate
  BY DEF ClientHandler, ReceiveConnack, ReceiveWilltopicreq, ReceiveWillmsgreq,
         ReceiveClientDisconnect, ReceiveGwinfo, ReceivePuback, ReceivePubrec, ReceivePubcomp,
         ClientTopicsHandler, ClientTakes, ClientAnswers, ReceiveRegister, ReceiveRegack,
         ReceiveSuback, ReceiveDelivery, RefuseDelivery, AcceptDelivery, ReceiveDeliveryPubrel,
         Ignored, AnswerWith, NoActiveMessage
<1>2. IsRing(Looked(cring)) /\ Looked(cring).place = cring.place
  BY LookedRing
<1>3. \A type : \A p \in ToClient(type) : p.type = type /\ Said(p, Now)
  BY DEF ToClient, BagToSet, Quiet, AllSaid
<1>4. CASE cring' = cring
  BY <1>1, <1>4, DialsSame
<1>5. CASE ClientTopicsHandler \/ ReceivePubrec
  <2>1. cring' = cring
    BY <1>1, <1>5 DEF ClientTopicsHandler, ReceiveRegister, ReceiveRegack, ReceiveSuback,
                      ReceiveDelivery, ReceiveDeliveryPubrel, Ignored, ReceivePubrec
  <2> QED
    BY <1>4, <2>1
<1>6. CASE ReceiveWilltopicreq \/ ReceiveWillmsgreq
  <2> DEFINE i == Current(cring)
             answer(type, activity) == ReplaceWith(cring.place[i], type, cwill, activity)
  <2>1. PICK type, activity : type \in {"WILLTOPIC", "WILLMSG"} /\ AnswerWith(type, activity)
    BY <1>6 DEF ReceiveWilltopicreq, ReceiveWillmsgreq
  <2>2. Active(cring) # {} /\ cring' = [Looked(cring) EXCEPT !.place[i] =
                                          ReplaceWith(@, type, cwill, activity)]
    BY <1>1, <2>1 DEF AnswerWith, NoActiveMessage
  <2>3. i \in Active(cring) /\ i \in Places
    BY <2>2, CurrentActive
  <2>4. IsMessage(cring.place[i]) /\ cring.place[i].active
    BY <2>3 DEF IsRing, Active
  <2> HIDE DEF i
  <2>5. cring'.place[i] = answer(type, activity)
        /\ \A j \in Places \ {i} : cring'.place[j] = cring.place[j]
    BY <1>2, <2>2, <2>3 DEF IsRing
  <2>6. LET n == answer(type, activity) IN Follows(n, cring.place[i]) /\ Dialler(n)
    BY <2>1, <2>4, ReplaceFields DEF Follows, Dialler
  <2> HIDE DEF answer
  <2> QED
    BY <1>1, <2>3, <2>5, <2>6, DialsSet
<1>7. CASE ReceiveGwinfo
  <2>1. made["search"] # 0
    <3>1. PICK p \in ToClient("GWINFO") : TRUE
      BY <1>7 DEF ReceiveGwinfo
    <3>2. Now.searched
      BY <1>3, <3>1 DEF Said
    <3>3. Now.searched = (made["search"] > 0)
      BY DEF Now
    <3>4. made["search"] > 0
      BY <3>2, <3>3, Zenon
    <3> QED
      BY <3>4 DEF Calls
  <2>2. CASE Active(cring) = {}
    BY <1>1, <1>2, <1>7, <2>2, DialsSame DEF ReceiveGwinfo
  <2>3. CASE Active(cring) # {}
    BY <1>1, <1>2, <1>7, <2>1, <2>3, CurrentActive, DialsDone DEF ReceiveGwinfo
  <2> QED
    BY <2>2, <2>3
<1>8. CASE ReceivePuback \/ ReceivePubcomp
  <2>1. PICK type \in Done : \E p \in ToClient(type) :
          \/ cring' = cring
          \/ /\ Matches(cring, p.id, FALSE) # {}
             /\ cring' = Deactivate(cring, Found(cring, p.id, FALSE))
    BY <1>8 DEF ReceivePuback, ReceivePubcomp, FoundQos2, Done
  <2>2. PICK p \in ToClient(type) :
          \/ cring' = cring
          \/ /\ Matches(cring, p.id, FALSE) # {}
             /\ cring' = Deactivate(cring, Found(cring, p.id, FALSE))
    BY <2>1
  <2>3. p.id \notin Dialled
    BY <1>3 DEF Said, Now
  <2>4. ASSUME Matches(cring, p.id, FALSE) # {}
        PROVE  LET i == Found(cring, p.id, FALSE) IN i \in Places /\ ~cring.place[i].active
    <3>1. /\ Found(cring, p.id, FALSE) \in Places
          /\ cring.place[Found(cring, p.id, FALSE)].id = p.id
      BY <2>4, FoundOwn
    <3> QED
      BY <1>1, <2>3, <3>1 DEF Dialled, Active
  <2> QED
    BY <1>1, <1>4, <2>2, <2>4, DialsDone
<1>9. ~ReceiveConnack /\ ~ReceiveClientDisconnect
  BY <1>1 DEF ReceiveConnack, ReceiveClientDisconnect, NoActiveMessage
<1> QED
  BY <1>5, <1>6, <1>7, <1>8, <1>9 DEF ClientHandler

----------------------------------------------------------------------------
(* Together: what was quiet about the ids of the handshakes is so about those *)
(* of the next state, as the ids it adds are free.                            *)
LEMMA QuietFree ==
  ASSUME Quiet(Now), FreeIds, NEW q, q.asked \subseteq Asked \cup {NextId(gring.last)},
         q.dialled \subseteq Dialled \cup {NextId(cring.last)},
         made["search"] > 0 => q.searched
  PROVE  Quiet(q)
<1> DEFINE a == NextId(gring.last)
           d == NextId(cring.last)
<1>1. Now.asked = Asked /\ Now.dialled = Dialled /\ Now.searched = (made["search"] > 0)
  BY DEF Now
<1>2. Now.searched => q.searched
  BY <1>1, Zenon
<1> HIDE DEF a, d
<1>3. ASSUME NEW x, Heard(x, Now), x.type \in Echoes => x.id # a, x.type \in Handed => x.id # d
      PROVE  Heard(x, q)
  BY <1>1, <1>2, <1>3 DEF Heard, a, d
<1>4. ASSUME NEW m, Holding(m, Now), m.type \in Echoed => m.id # a, m.mos # 0 => m.id # d
      PROVE  Holding(m, q)
  BY <1>1, <1>4 DEF Holding, a, d
<1>5. ASSUME NEW p, Said(p, Now), p.type \in Echoed => p.id # a, p.type \in Done => p.id # d
      PROVE  Said(p, q)
  BY <1>1, <1>2, <1>5 DEF Said, a, d
<1>6. /\ \A x \in {cring.place[i] : i \in Places} \cup DOMAIN toGateway :
           (x.type \in Echoes => x.id # a) /\ (x.type \in Handed => x.id # d)
      /\ \A m \in {gring.place[i] : i \in Places} :
           (m.type \in Echoed => m.id # a) /\ (m.mos # 0 => m.id # d)
      /\ \A p \in DOMAIN toClient :
           (p.type \in Echoed => p.id # a) /\ (p.type \in Done => p.id # d)
  BY DEF FreeIds, a, d
<1>7. AllHeard(cring, toGateway, q)
  BY <1>3, <1>6 DEF Quiet, AllHeard, HeardRing
<1>8. AllSaid(gring, toClient, q)
  BY <1>4, <1>5, <1>6 DEF Quiet, AllSaid, HoldingRing
<1> QED
  BY <1>7, <1>8 DEF Quiet

LEMMA HandshakeClient ==
  ASSUME HandshakeInv, FreeIds, ClientNext \/ ClientTopicsNext, UNCHANGED gatewayVars
  PROVE  HandshakeInv'
<1>1. IsRing(cring) /\ Quiet(Now) /\ made \in [Calls -> Nat]
      /\ (cstate = "connecting" /\ made["search"] = 0 => Dialling(cring))
  BY DEF HandshakeInv, Quiet, AllHeard, HeardRing
<1>2. made' \in [Calls -> Nat] /\ made["search"] <= made'["search"]
  <2>1. (\E c \in Calls : Count(c)) \/ made' = made
    BY DEF ClientNext, Connect, Disconnect, Publish, Searchgw, ClientRestart, ClientManage,
           ClientLost, ClientWrite, ClientResend, ClientGiveUp, ClientIdle, ClientHandler,
           ReceiveConnack, ReceiveWilltopicreq, ReceiveWillmsgreq, ReceiveClientDisconnect,
           ReceiveGwinfo, ReceivePuback, ReceivePubrec, ReceivePubcomp, ClientTakes, ClientAnswers,
           ClientTopicsNext, Register, Subscribe, ClientTopicsHandler, ReceiveRegister,
           ReceiveRegack, ReceiveSuback, ReceiveDelivery, RefuseDelivery, AcceptDelivery,
           ReceiveDeliveryPubrel, Ignored, Calls
  <2> QED
    BY <1>1, <2>1 DEF Count, Calls
<1>3. cstate' = "connecting" => DialsOn
  BY <1>1, DialsCalls, DialsTurns, DialsHandles DEF ClientNext, ClientTopicsNext
<1>4. /\ Now'.asked = Asked /\ Now'.dialled = Dialled'
      /\ Now'.searched = (made'["search"] > 0)
      /\ UNCHANGED <<gstate, gring, mids, waiting>>
  BY DEF Now, Asked, gatewayVars, publishVars
<1>5. Quiet(Now')
  <2>1. Now'.dialled \subseteq Dialled \cup {NextId(cring.last)}
    BY <1>3, <1>4 DEF DialsOn, Dialled
  <2>2. made["search"] > 0 => Now'.searched
    <3>1. made["search"] > 0 => made'["search"] > 0
      BY <1>1, <1>2 DEF Calls
    <3> QED
      BY <1>4, <3>1, Zenon
  <2> QED
    BY <1>1, <1>4, <2>1, <2>2, QuietFree
<1>6. Now'.dialled = {} \/ cstate' = "connecting"
  BY <1>4 DEF Dialled
<1>7. Now'.searched \/ made'["search"] = 0
  <2>1. made'["search"] > 0 \/ made'["search"] = 0
    BY <1>2 DEF Calls
  <2> QED
    BY <1>4, <2>1, Zenon
<1>8. AllHeard(cring', toGateway', Now') /\ DOMAIN toClient' \subseteq DOMAIN toClient
  BY <1>1, <1>5, <1>6, <1>7, QuietCalls, QuietManages, QuietHandles, QuietHandlesTopics
  DEF ClientNext, ClientTopicsNext
<1>9. AllSaid(gring', toClient', Now')
  BY <1>4, <1>5, <1>8 DEF Quiet, AllSaid
<1> QED
  BY <1>2, <1>3, <1>4, <1>8, <1>9 DEF HandshakeInv, Quiet, DialsOn

LEMMA HandshakeGateway ==
  ASSUME HandshakeInv, FreeIds, GatewayNext \/ GatewayTopicsNext, UNCHANGED clientVars
  PROVE  HandshakeInv'
<1>1. IsRing(gring) /\ Quiet(Now) /\ mids \in Nat /\ (\A w \in waiting : w.mid # 0)
      /\ (gstate = "connecting" => Requested(gring))
  BY DEF HandshakeInv, Quiet, AllSaid, HoldingRing
<1>2. mids' \in Nat /\ \A w \in waiting' : w.mid # 0
  <2>1. \/ UNCHANGED <<mids, waiting>>
        \/ mids' = 0 /\ waiting' = {}
        \/ mids' = mids + 1 /\ waiting' = waiting
        \/ mids' = mids /\ waiting' \subseteq waiting
        \/ \E p : Accept(p)
    BY DEF GatewayNext, GatewayHandler, ReceiveConnect, ReceiveWilltopic, ReceiveWillmsg,
           ReceiveDisconnect, ReceiveSearchgw, ReceivePublish, ReceivePubrel, Forward, Refuse,
           TurnAway, gatewayVars, publishVars, PublishCallback, GatewayManage, GatewayLost,
           GatewayWrite, GatewayResend, GatewayGiveUp, GatewayIdle, GatewayRestart,
           GatewayTopicsNext, GatewayTopicsHandler, ReceiveTopic, ReceiveSubscribe,
           ReceiveTopicAck, ReceiveDelivered, ReceiveRecorded, ReceiveCompleted, Handle,
           SubscribeTo, SubscribeFails, SubscribeCallback, MessageCallback, MessageTail
  <2> QED
    BY <1>1, <2>1 DEF Accept
<1>3. gstate' = "connecting" => AsksOn
  BY <1>1, AsksOnAll
<1>4. /\ Now'.asked = Asked' /\ Now'.dialled = Dialled
      /\ Now'.searched = (made["search"] > 0)
      /\ UNCHANGED <<cstate, cring, made>>
  BY DEF Now, Dialled, Active, clientVars
<1>5. Quiet(Now')
  <2>1. Now'.asked \subseteq Asked \cup {NextId(gring.last)}
    BY <1>3, <1>4 DEF AsksOn, Asked
  <2>2. made["search"] > 0 => Now'.searched
    BY <1>4, Zenon
  <2> QED
    BY <1>1, <1>4, <2>1, <2>2, QuietFree
<1>6. Now'.asked = {} \/ gstate' = "connecting"
  BY <1>4 DEF Asked
<1>7. MessageCallback \/ MessageTail => NextId(gring.last) \notin Asked'
  <2>1. CASE gstate' = "connecting" /\ MessageTail
    <3>1. gstate = "connecting" /\ Requested(gring)
      BY <1>1, <2>1 DEF MessageTail
    <3>2. gring'.head = gring.head /\ gring'.place[gring.head] = gring.place[gring.head]
      BY <1>1, <2>1, <3>1, AsksOnTail
    <3>3. Asked' = {gring.place[gring.head].id} /\ gring.head \in Places
      BY <1>1, <2>1, <3>2 DEF Asked, IsRing
    <3> QED
      BY <3>1, <3>3 DEF FreeIds, Requested
  <2>2. CASE gstate' = "connecting" /\ MessageCallback
    <3>1. gstate = "connecting" /\ Requested(gring) /\ gring' = gring
      BY <1>1, <2>2 DEF MessageCallback
    <3>2. Asked' = {gring.place[gring.head].id} /\ gring.head \in Places
      BY <1>1, <2>2, <3>1 DEF Asked, IsRing
    <3> QED
      BY <3>1, <3>2 DEF FreeIds, Requested
  <2> QED
    BY <2>1, <2>2 DEF Asked
<1>8. AllSaid(gring', toClient', Now') /\ DOMAIN toGateway' \subseteq DOMAIN toGateway
  BY <1>1, <1>4, <1>5, <1>6, <1>7, QuietHandshakes, QuietPublishes, QuietHears, QuietTurns,
     QuietTopics, QuietDelivers
  DEF GatewayNext, GatewayHandler, GatewayTopicsNext
<1>9. AllHeard(cring', toGateway', Now')
  BY <1>4, <1>5, <1>8 DEF Quiet, AllHeard
<1> QED
  BY <1>2, <1>3, <1>4, <1>8, <1>9 DEF HandshakeInv, Quiet, AsksOn

LEMMA HandshakeInit == Init => HandshakeInv
<1> SUFFICES ASSUME Init PROVE HandshakeInv
  OBVIOUS
<1>1. /\ cstate = "disconnected" /\ gstate \in {"none", "disconnected"}
      /\ cring = EmptyRing /\ gring = [EmptyRing EXCEPT !.last = Cardinality(brokersubs)]
      /\ made = [c \in Calls |-> 0] /\ mids = 0 /\ waiting = {}
      /\ DOMAIN toGateway = {} /\ DOMAIN toClient = {}
  BY NoPackets DEF Init, CInit, GInit
<1>2. IsRing(cring) /\ IsRing(gring)
      /\ \A i \in Places : cring.place[i] = Blank /\ gring.place[i] = Blank
  BY <1>1, EmptyRingFields, InitialRing
<1>3. \A q : Quiet(q)
  BY <1>1, <1>2, BlankFields DEF Quiet, AllHeard, AllSaid, HeardRing, HoldingRing, Heard, Holding,
                                 Echoes, AtOnce, Echoed, Handed, Done
<1> QED
  BY <1>1, <1>3 DEF HandshakeInv

LEMMA HandshakeStep == HandshakeInv /\ FreeIds /\ [Next]_vars => HandshakeInv'
<1> SUFFICES ASSUME HandshakeInv, FreeIds, [Next]_vars PROVE HandshakeInv'
  OBVIOUS
<1>1. CASE UNCHANGED vars
  BY <1>1 DEF vars, clientVars, gatewayVars, publishVars, radioVars, HandshakeInv, Quiet, Now,
              Asked, Dialled, Active
<1>2. CASE Next
  BY <1>2, HandshakeClient, HandshakeGateway DEF Next
<1> QED
  BY <1>1, <1>2

(* While the gateway waits for a will, its request is next, as long as the    *)
(* ids its program gives are not those of packets still on their way.         *)
THEOREM WillAsked == Spec /\ []FreeIds => []WillRequested
<1>1. HandshakeInv => WillRequested
  <2> SUFFICES ASSUME HandshakeInv, gstate = "connecting"
               PROVE  /\ Active(gring) # {}
                      /\ gring.place[Current(gring)].type \in {"WILLTOPICREQ", "WILLMSGREQ"}
    BY DEF WillRequested
  <2>1. IsRing(gring) /\ Requested(gring)
    BY DEF HandshakeInv, Quiet, AllSaid, HoldingRing
  <2> QED
    BY <2>1, RequestCurrent DEF Requested, Asks
<1> QED
  BY <1>1, HandshakeInit, HandshakeStep, PTL DEF Spec

(* A client that is connecting has a message of its handshake active, so the  *)
(* attempt is retried and ends, if it makes no search and ids are free.       *)
THEOREM ConnectDriven == Spec /\ []FreeIds => []ConnectPendingUnsearched
<1>1. HandshakeInv => ConnectPendingUnsearched
  BY DEF HandshakeInv, ConnectPendingUnsearched, ConnectPending, Dialling
<1> QED
  BY <1>1, HandshakeInit, HandshakeStep, PTL DEF Spec
====
