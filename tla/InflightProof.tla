---- MODULE InflightProof ----
(* What Inflight guarantees for every size of the ring, every largest message *)
(* id and every number of attempts.                                           *)
EXTENDS Inflight, FiniteSetTheorems, WellFoundedInduction, TLAPS

(* The one message that may be on its way is the one at the head.            *)
SentAtHead ==
  \A i \in Places : ring.place[i].active /\ ring.place[i].sent => i = ring.head

(* A message that used its last attempt has been given up.                   *)
AttemptsLeft ==
  \A i \in Places : ring.place[i].active => ring.place[i].attempts < Nretry

Inv == TypeOK /\ SentAtHead /\ AttemptsLeft

(* The values of a place and of the ring.                                    *)
NoNames == {""}
Message == Messages(Types, {0}, {0}, {0}, NoNames)
Ring == [place : [Places -> Message], head : Places, tail : Places, last : 0 .. MaxId]

USE RingSizeAssumption, MaxIdAssumption, NretryAssumption, MaxInflightAssumption,
    MaxBurnedAssumption

----------------------------------------------------------------------------
(* The scans of the ring: each ends at a place it looks for, the first.      *)

LEMMA WalkType ==
  ASSUME NEW from \in Places, NEW i \in Places
  PROVE  Walk(from, i) \in Nat /\ (Walk(from, i) = 0 <=> i = from)
BY DEF Walk, Places

LEMMA FirstFromMember ==
  ASSUME NEW from \in Places, NEW S \in SUBSET Places, S # {}
  PROVE  /\ FirstFrom(from, S) \in S
         /\ \A j \in S : Walk(from, FirstFrom(from, S)) <= Walk(from, j)
<1> DEFINE T == {Walk(from, i) : i \in S}
           R == {ss \in Nat \X Nat : ss[1] < ss[2]}
<1>1. T \subseteq Nat /\ T # {}
  BY WalkType
<1>2. \E n \in T : \A m \in T : <<m, n>> \notin R
  <2> IsWellFoundedOn(R, Nat)
    BY NatLessThanWellFounded DEF OpToRel
  <2> HIDE DEF T, R
  <2> QED
    BY <1>1, WFMin
<1>3. PICK i \in S : \A j \in S : <<Walk(from, j), Walk(from, i)>> \notin R
  BY <1>2
<1>4. \A j \in S : Walk(from, i) <= Walk(from, j)
  <2>1. SUFFICES ASSUME NEW j \in S
                 PROVE  Walk(from, i) <= Walk(from, j)
    OBVIOUS
  <2>2. Walk(from, i) \in Nat /\ Walk(from, j) \in Nat
    BY WalkType
  <2>3. ~(Walk(from, j) < Walk(from, i))
    <3> DEFINE u == Walk(from, j)
               v == Walk(from, i)
    <3>1. <<u, v>> \notin R
      BY <1>3
    <3> HIDE DEF u, v
    <3> QED
      BY <2>2, <3>1 DEF u, v
  <2> QED
    BY <2>2, <2>3
<1> QED
  BY <1>4 DEF FirstFrom

(* The scan for the current message stops at once when the head is active.   *)
LEMMA FirstFromSelf ==
  ASSUME NEW from \in Places, NEW S \in SUBSET Places, from \in S
  PROVE  FirstFrom(from, S) = from
<1>1. FirstFrom(from, S) \in S /\ Walk(from, FirstFrom(from, S)) <= Walk(from, from)
  BY FirstFromMember
<1> QED
  BY <1>1, WalkType

----------------------------------------------------------------------------
(* What the changes of one message and of one place do to the types.         *)

Histories(y, b) == y \in [Places -> SUBSET Places] /\ b \in [Places -> 0 .. MaxBurned]

LEMMA TypeOKRing ==
  /\ TypeOK <=> ring \in Ring /\ Histories(younger, burned)
  /\ TypeOK' <=> ring' \in Ring /\ Histories(younger', burned')
<1>1. Rings(Types, {0}, {0}, {0}, {""}) = Ring
  BY DEF Rings, Ring, Message, NoNames
<1> QED
  BY <1>1, Zenon DEF TypeOK, Histories

LEMMA ActiveInPlaces == \A r : Active(r) \in SUBSET Places
BY DEF Active

LEMMA BlankType ==
  /\ Blank \in Message
  /\ ~Blank.active /\ ~Blank.sent /\ Blank.attempts = 0 /\ ~Blank.ext
BY DEF Blank, Message, Messages, Activities, NoNames

LEMMA ResetType ==
  ASSUME NEW m \in Message
  PROVE  /\ Reset(m) \in Message
         /\ ~Reset(m).active /\ ~Reset(m).sent /\ Reset(m).attempts = 0 /\ ~Reset(m).ext
<1>1. m.qos \in 0 .. 2
  BY DEF Message, Messages
<1>2. Reset(m) = [Blank EXCEPT !.qos = m.qos]
  BY DEF Reset
<1> QED
  BY <1>1, <1>2, BlankType DEF Message, Messages

LEMMA InactiveType == \A m \in Message : [m EXCEPT !.active = FALSE] \in Message
BY DEF Message, Messages

LEMMA SendingType ==
  ASSUME NEW m \in Message
  PROVE  /\ Sending(m) \in Message
         /\ Sending(m).active => Sending(m).attempts = 0
<1>1. CASE m.oneshot
  BY <1>1, InactiveType DEF Sending, Message, Messages
<1>2. CASE ~m.oneshot
  <2>1. 0 \in 0 .. Nretry /\ TRUE \in BOOLEAN
    OBVIOUS
  <2> QED
    BY <1>2, <2>1 DEF Sending, Message, Messages
<1> QED
  BY <1>1, <1>2

LEMMA ExpiredType ==
  ASSUME NEW m \in Message, m.attempts < Nretry
  PROVE  /\ Expired(m) \in Message
         /\ ~HasFailed(Expired(m)) => Expired(m).attempts < Nretry
<1>1. m.attempts \in 0 .. Nretry
  BY DEF Message, Messages
<1>2. m.attempts + 1 \in 0 .. Nretry
  BY <1>1
<1>3. Expired(m) \in Message /\ Expired(m).attempts = m.attempts + 1
  BY <1>2 DEF Expired, Message, Messages
<1> QED
  BY <1>2, <1>3 DEF HasFailed

LEMMA ReplaceType ==
  ASSUME NEW m \in Message
  PROVE  LET n == ReplaceWith(m, "PUBREL", 0, "publishing") IN
           n \in Message /\ ~n.sent /\ n.attempts = 0
<1>1. /\ "PUBREL" \in Types /\ 0 \in {0} /\ "" \in NoNames /\ FALSE \in BOOLEAN
      /\ "publishing" \in Activities /\ 0 \in 0 .. Nretry
  BY DEF Types, Activities, NoNames
<1> QED
  BY <1>1 DEF ReplaceWith, Message, Messages

(* A place that is not one of the ring changes nothing.                      *)
LEMMA PlaceChange ==
  ASSUME NEW r \in Ring, NEW i, NEW m, i \in Places => m \in Message
  PROVE  LET n == [r EXCEPT !.place[i] = m] IN
           /\ n \in Ring
           /\ n.head = r.head /\ n.tail = r.tail /\ n.last = r.last
           /\ \A j \in Places : n.place[j] = IF j = i THEN m ELSE r.place[j]
<1>1. [r.place EXCEPT ![i] = m] \in [Places -> Message]
  BY DEF Ring
<1> QED
  BY <1>1 DEF Ring

LEMMA PlaceChanged ==
  ASSUME NEW r \in Ring, NEW i \in Places, NEW m \in Message, NEW n,
         n = [r EXCEPT !.place[i] = m]
  PROVE  /\ n \in Ring
         /\ n.head = r.head /\ n.tail = r.tail /\ n.last = r.last
         /\ \A j \in Places : n.place[j] = IF j = i THEN m ELSE r.place[j]
<1>1. [r.place EXCEPT ![i] = m] \in [Places -> Message]
  BY DEF Ring
<1> QED
  BY <1>1 DEF Ring

LEMMA NextIdType == \A last \in 0 .. MaxId : NextId(last) \in 0 .. MaxId
BY DEF NextId

Fresh(m, id) ==
  m.active /\ ~m.sent /\ m.attempts = 0 /\ ~m.ext /\ m.id = id

(* add_message() fills one place with a message that is not sent and has all *)
(* its attempts.                                                             *)
LEMMA AddChange ==
  ASSUME NEW r \in Ring, AddedAt(r) \in Places, NEW activity \in Activities
  PROVE  LET n == Add(r, activity) IN
           /\ n \in Ring
           /\ n.head = r.head /\ n.tail = AddedAt(r) /\ n.last = NextId(r.last)
           /\ Fresh(n.place[AddedAt(r)], n.last)
           /\ \A j \in Places \ {AddedAt(r)} : n.place[j] = r.place[j]
<1> DEFINE a == AddedAt(r)
           e == Reset(r.place[a])
           b == [e EXCEPT !.active = TRUE, !.id = NextId(r.last), !.activity = activity]
           s == Add(r, activity)
<1>1. NextId(r.last) \in 0 .. MaxId /\ r.place[a] \in Message
  BY NextIdType DEF Ring
<1>2. e \in Message /\ ~e.sent /\ e.attempts = 0 /\ ~e.ext
  BY <1>1, ResetType
<1>3. s = [r EXCEPT !.place[a] = b, !.last = NextId(r.last), !.tail = a]
  BY DEF Add
<1> HIDE DEF e, s
<1>4. b \in Message /\ Fresh(b, NextId(r.last))
  BY <1>1, <1>2 DEF Message, Messages, Fresh
<1> HIDE DEF b
<1>5. /\ s \in Ring /\ s.tail = a /\ s.head = r.head /\ s.last = NextId(r.last)
      /\ s.place[a] = b /\ \A j \in Places \ {a} : s.place[j] = r.place[j]
  BY <1>1, <1>3, <1>4 DEF Ring
<1> QED
  BY <1>4, <1>5 DEF s

(* set_message() and one_shot() leave that so.                               *)
LEMMA PublishChange ==
  ASSUME NEW r \in Ring, AddedAt(r) \in Places, NEW oneshot \in BOOLEAN
  PROVE  LET n == Publication(r, oneshot) IN
           /\ n \in Ring
           /\ n.head = r.head /\ n.tail = AddedAt(r) /\ n.last = NextId(r.last)
           /\ Fresh(n.place[AddedAt(r)], n.last)
           /\ \A j \in Places \ {AddedAt(r)} : n.place[j] = r.place[j]
<1> DEFINE a == AddedAt(r)
           s == Add(r, "publishing")
           b == s.place[a]
           c == [b EXCEPT !.type = "PUBLISH", !.tid = 0, !.name = "", !.data = 0,
                          !.qos = 0, !.oneshot = oneshot]
           n == [s EXCEPT !.place[a] = c]
<1>1. /\ s \in Ring /\ s.head = r.head /\ s.tail = a /\ s.last = NextId(r.last)
      /\ Fresh(b, s.last) /\ \A j \in Places \ {a} : s.place[j] = r.place[j]
  <2>1. "publishing" \in Activities
    BY DEF Activities
  <2> QED
    BY <2>1, AddChange
<1>2. Publication(r, oneshot) = n
  BY <1>1 DEF Publication, AddAbout
<1>3. a \in Places /\ b \in Message
  BY <1>1 DEF Ring
<1> HIDE DEF a, s, b
<1>4. c \in Message /\ Fresh(c, s.last)
  <2>1. "PUBLISH" \in Types /\ 0 \in {0} /\ "" \in NoNames /\ 0 \in 0 .. 2
    BY DEF Types, NoNames
  <2> QED
    BY <1>1, <1>3, <2>1 DEF Message, Messages, Fresh
<1> HIDE DEF c
<1>5. /\ n \in Ring /\ n.head = s.head /\ n.tail = s.tail /\ n.last = s.last
      /\ n.place[a] = c /\ \A j \in Places \ {a} : n.place[j] = s.place[j]
  BY <1>1, <1>3, <1>4, PlaceChange
<1> HIDE DEF n
<1> QED
  BY <1>1, <1>2, <1>4, <1>5 DEF a

(* The message of a known topic is gone, its place is the tail.              *)
LEMMA RegisterChange ==
  ASSUME NEW r \in Ring, AddedAt(r) \in Places
  PROVE  LET n == [Add(r, "registering") EXCEPT !.place[AddedAt(r)] = Reset(@)] IN
           /\ n \in Ring
           /\ n.head = r.head /\ n.tail = AddedAt(r) /\ n.last = NextId(r.last)
           /\ ~n.place[AddedAt(r)].active /\ ~n.place[AddedAt(r)].ext
           /\ \A j \in Places \ {AddedAt(r)} : n.place[j] = r.place[j]
<1> DEFINE a == AddedAt(r)
           s == Add(r, "registering")
           e == Reset(s.place[a])
           n == [s EXCEPT !.place[a] = e]
<1>1. /\ s \in Ring /\ s.head = r.head /\ s.tail = a /\ s.last = NextId(r.last)
      /\ \A j \in Places \ {a} : s.place[j] = r.place[j]
  <2>1. "registering" \in Activities
    BY DEF Activities
  <2> QED
    BY <2>1, AddChange
<1>2. [s EXCEPT !.place[a] = Reset(@)] = n
  BY <1>1 DEF Ring
<1>3. e \in Message /\ ~e.active /\ ~e.ext
  BY <1>1, ResetType DEF Ring
<1> HIDE DEF s, e
<1>4. /\ n \in Ring /\ n.head = s.head /\ n.tail = s.tail /\ n.last = s.last
      /\ n.place[a] = e /\ \A j \in Places \ {a} : n.place[j] = s.place[j]
  <2>1. [s.place EXCEPT ![a] = e] \in [Places -> Message]
    BY <1>1, <1>3 DEF Ring
  <2>2. n \in Ring /\ n.place = [s.place EXCEPT ![a] = e]
        /\ n.head = s.head /\ n.tail = s.tail /\ n.last = s.last
    BY <1>1, <2>1 DEF Ring
  <2> HIDE DEF n
  <2> QED
    BY <1>1, <2>2 DEF Ring
<1> HIDE DEF n
<1> QED
  BY <1>1, <1>2, <1>3, <1>4 DEF s
----------------------------------------------------------------------------
(* The application leaves a free place: add_message finds one.          *)
LEMMA FreePlace ==
  ASSUME TypeOK, HasRoom
  PROVE  AddedAt(ring) \in Places \ Active(ring)
<1>1. Cardinality(Places) = RingSize
  BY FS_Interval DEF Places
<1>2. Places \ Active(ring) # {}
  BY <1>1, ActiveInPlaces DEF HasRoom
<1>3. ring.tail \in Places
  BY TypeOKRing DEF Ring
<1> QED
  BY <1>2, <1>3, FirstFromMember DEF AddedAt

(* manage_connections turns to the message at the head as long as it is      *)
(* active: a message that was sent keeps its turn.                           *)
LEMMA CurrentActive ==
  ASSUME TypeOK, Active(ring) # {}
  PROVE  /\ Current(ring) \in Active(ring)
         /\ Current(ring) \in Places
         /\ ring.head \in Active(ring) => Current(ring) = ring.head
<1>1. ring.head \in Places
  BY TypeOKRing DEF Ring
<1> QED
  BY <1>1, ActiveInPlaces, FirstFromMember, FirstFromSelf DEF Current

(* The scan leaves the messages and puts the head at the one it found.       *)
LEMMA LookedChange ==
  ASSUME TypeOK
  PROVE  /\ Looked(ring) \in Ring
         /\ Looked(ring).place = ring.place
         /\ Active(ring) # {} => Looked(ring).head = Current(ring)
<1>1. ring \in Ring /\ 0 \in Places
  BY TypeOKRing DEF Places
<1>2. CASE Active(ring) = {}
  BY <1>1, <1>2 DEF Looked, Ring
<1>3. CASE Active(ring) # {}
  BY <1>1, <1>3, CurrentActive DEF Looked, Ring
<1> QED
  BY <1>2, <1>3

(* A service of the current message leaves every other message as it was,    *)
(* and none of these is on its way.                                          *)
LEMMA ServiceKeeps ==
  ASSUME Inv, Active(ring) # {}, NEW m \in Message,
         m.active => m.attempts < Nretry,
         ring' = [Looked(ring) EXCEPT !.place[Current(ring)] = m],
         younger' = younger, burned' = burned
  PROVE  Inv'
<1> DEFINE c == Current(ring)
<1>1. c \in Places /\ (ring.head \in Active(ring) => c = ring.head)
  BY CurrentActive DEF Inv
<1>2. /\ ring' \in Ring /\ ring'.head = c
      /\ \A j \in Places : ring'.place[j] = IF j = c THEN m ELSE ring.place[j]
  <2> DEFINE l == Looked(ring)
  <2>1. l \in Ring /\ l.place = ring.place /\ l.head = c
    BY LookedChange DEF Inv
  <2>2. ring' = [l EXCEPT !.place[c] = m]
    OBVIOUS
  <2> HIDE DEF c, l
  <2>3. [l.place EXCEPT ![c] = m] \in [Places -> Message]
    BY <2>1 DEF Ring
  <2>4. ring' \in Ring /\ ring'.head = l.head /\ ring'.place = [l.place EXCEPT ![c] = m]
    BY ONLY <2>1, <2>2, <2>3 DEF Ring
  <2>5. \A j \in Places : ring'.place[j] = IF j = c THEN m ELSE l.place[j]
    BY <2>1, <2>4 DEF Ring
  <2> QED
    BY <2>1, <2>4, <2>5
<1>3. TypeOK'
  BY <1>2, TypeOKRing DEF Inv
<1>4. ASSUME NEW j \in Places, ring'.place[j].active, ring'.place[j].sent
      PROVE  j = ring'.head
  <2>1. SUFFICES ASSUME j # c
                 PROVE  FALSE
    BY <1>2
  <2>2. ring.place[j].active /\ ring.place[j].sent
    BY <1>2, <1>4, <2>1
  <2>3. j = ring.head /\ j \in Active(ring)
    BY <2>2 DEF Inv, SentAtHead, Active
  <2> QED
    BY <1>1, <2>1, <2>3
<1>5. AttemptsLeft'
  BY <1>2 DEF Inv, AttemptsLeft
<1> QED
  BY <1>3, <1>4, <1>5 DEF Inv, SentAtHead

(* An answer stops a message or makes it wait to be sent again.              *)
LEMMA AnswerKeeps ==
  ASSUME Inv, NEW f, NEW m, f \in Places => m \in Message,
         f \in Places => ~m.active \/ (~m.sent /\ m.attempts < Nretry),
         ring' = [ring EXCEPT !.place[f] = m],
         younger' = younger, burned' = burned
  PROVE  Inv'
<1>1. ring \in Ring
  BY TypeOKRing DEF Inv
<1>2. /\ ring' \in Ring /\ ring'.head = ring.head
      /\ \A j \in Places : ring'.place[j] = IF j = f THEN m ELSE ring.place[j]
  <2>1. [ring.place EXCEPT ![f] = m] \in [Places -> Message]
    BY <1>1 DEF Ring
  <2> QED
    BY <1>1, <2>1 DEF Ring
<1>3. TypeOK'
  BY <1>2, TypeOKRing DEF Inv
<1>4. SentAtHead' /\ AttemptsLeft'
  BY <1>2 DEF Inv, SentAtHead, AttemptsLeft
<1> QED
  BY <1>3, <1>4 DEF Inv

----------------------------------------------------------------------------
LEMMA InvInit == Init => Inv
<1> SUFFICES ASSUME Init
             PROVE  Inv
  OBVIOUS
<1>1. 0 \in Places /\ 0 \in 0 .. MaxId
  BY DEF Places
<1>2. /\ [i \in Places |-> Blank] \in [Places -> Message]
      /\ Histories(younger, burned)
  BY BlankType DEF Init, Histories
<1>3. ring \in Ring
  BY <1>1, <1>2 DEF Init, EmptyRing, Ring
<1>4. \A i \in Places : ~ring.place[i].active
  BY BlankType DEF Init, EmptyRing
<1> QED
  BY <1>2, <1>3, <1>4, TypeOKRing DEF Inv, SentAtHead, AttemptsLeft

(* A message that is added is not on its way; nor is one that is reset.      *)
LEMMA JoinKeeps ==
  ASSUME Inv, NEW a \in Places, a \notin Active(ring), ring' \in Ring,
         ring'.head = ring.head,
         ring'.place[a].active => ~ring'.place[a].sent /\ ring'.place[a].attempts = 0,
         \A j \in Places \ {a} : ring'.place[j] = ring.place[j],
         Histories(younger', burned')
  PROVE  Inv'
<1>1. TypeOK'
  BY TypeOKRing
<1>2. SentAtHead' /\ AttemptsLeft'
  BY DEF Inv, SentAtHead, AttemptsLeft
<1> QED
  BY <1>1, <1>2 DEF Inv

LEMMA JoinHistories ==
  ASSUME TypeOK, AddedAt(ring) \in Places, Joins
  PROVE  Histories(younger', burned')
BY TypeOKRing DEF Joins, Histories

LEMMA InvPublish ==
  ASSUME Inv, Publish \/ SubscribeKnown
  PROVE  Inv'
<1> DEFINE a == AddedAt(ring)
<1>1. a \in Places /\ a \notin Active(ring) /\ ring \in Ring /\ TypeOK
  BY FreePlace, TypeOKRing DEF Publish, SubscribeKnown, Inv
<1>2. Histories(younger', burned')
  BY <1>1, JoinHistories DEF Publish, SubscribeKnown
<1>3. /\ ring' \in Ring /\ ring'.head = ring.head
      /\ ~ring'.place[a].sent /\ ring'.place[a].attempts = 0
      /\ \A j \in Places \ {a} : ring'.place[j] = ring.place[j]
  <2>1. CASE Publish
    BY <1>1, <2>1, PublishChange DEF Publish, Fresh
  <2>2. CASE SubscribeKnown
    <3>1. "subscribing" \in Activities
      BY DEF Activities
    <3> QED
      BY <1>1, <2>2, <3>1, AddChange DEF SubscribeKnown, Fresh
  <2> QED
    BY <2>1, <2>2
<1> HIDE DEF a
<1> QED
  BY <1>1, <1>2, <1>3, JoinKeeps

LEMMA InvRegister ==
  ASSUME Inv, RegisterKnown
  PROVE  Inv'
<1> DEFINE a == AddedAt(ring)
<1>1. a \in Places /\ a \notin Active(ring) /\ ring \in Ring /\ TypeOK
  BY FreePlace, TypeOKRing DEF RegisterKnown, Inv
<1>2. Histories(younger', burned')
  <2>1. \A i \in Active(ring) : burned[i] + 1 \in 0 .. MaxBurned
    BY <1>1, ActiveInPlaces, TypeOKRing DEF RegisterKnown, Histories
  <2> QED
    BY <1>1, <2>1, TypeOKRing DEF RegisterKnown, Histories
<1>3. /\ ring' \in Ring /\ ring'.head = ring.head /\ ~ring'.place[a].active
      /\ \A j \in Places \ {a} : ring'.place[j] = ring.place[j]
  BY <1>1, RegisterChange DEF RegisterKnown
<1> HIDE DEF a
<1> QED
  BY <1>1, <1>2, <1>3, JoinKeeps

LEMMA InvTurns ==
  ASSUME Inv, Turns
  PROVE  Inv'
<1>1. ring' \in Ring /\ ring'.place = ring.place /\ younger' = younger /\ burned' = burned
  BY LookedChange DEF Turns, Inv
<1>2. TypeOK'
  BY <1>1, TypeOKRing DEF Inv
<1>3. SentAtHead'
  <2> SUFFICES ASSUME NEW i \in Places, ring.place[i].active, ring.place[i].sent
               PROVE  i = ring'.head
    BY <1>1 DEF SentAtHead
  <2>1. i = ring.head /\ i \in Active(ring) /\ TypeOK
    BY DEF Inv, SentAtHead, Active
  <2> QED
    BY <2>1, CurrentActive, LookedChange DEF Turns
<1> QED
  BY <1>1, <1>2, <1>3 DEF Inv, AttemptsLeft

LEMMA InvWorks ==
  ASSUME Inv, Sends \/ Expires
  PROVE  Inv'
<1> DEFINE c == Current(ring)
<1>1. /\ Active(ring) # {} /\ younger' = younger /\ burned' = burned
      /\ FirstWrite(c) \/ Expire(c)
  BY DEF Sends, Expires, Works
<1>2. c \in Places /\ ring.place[c].active /\ ring.place[c] \in Message
  BY <1>1, CurrentActive, TypeOKRing DEF Inv, Active, Ring
<1>3. Looked(ring).place[c] = ring.place[c]
  BY LookedChange DEF Inv
<1>4. CASE FirstWrite(c)
  <2>1. ring' = [Looked(ring) EXCEPT !.place[c] = Sending(ring.place[c])]
    BY <1>3, <1>4 DEF FirstWrite
  <2>2. Sending(ring.place[c]) \in Message
        /\ (Sending(ring.place[c]).active => Sending(ring.place[c]).attempts < Nretry)
    BY <1>2, SendingType
  <2> QED
    BY <1>1, <2>1, <2>2, ServiceKeeps
<1>5. CASE Expire(c)
  <2> DEFINE e == Expired(ring.place[c])
             m == IF HasFailed(e) THEN [e EXCEPT !.active = FALSE] ELSE e
  <2>1. ring.place[c].attempts < Nretry
    BY <1>2 DEF Inv, AttemptsLeft
  <2>2. e \in Message /\ (~HasFailed(e) => e.attempts < Nretry)
    BY <1>2, <2>1, ExpiredType
  <2>3. ring' = [Looked(ring) EXCEPT !.place[c] = m]
    BY <1>5 DEF Expire
  <2> HIDE DEF e
  <2>4. m \in Message /\ (m.active => m.attempts < Nretry)
    BY <2>2, InactiveType DEF Message, Messages
  <2> HIDE DEF m
  <2> QED
    BY <1>1, <2>3, <2>4, ServiceKeeps
<1> QED
  BY <1>1, <1>4, <1>5

LEMMA InvAcknowledge ==
  ASSUME Inv, Acknowledge
  PROVE  Inv'
<1>1. PICK f : ring' = Deactivate(ring, f)
  BY DEF Acknowledge
<1> DEFINE m == [ring.place[f] EXCEPT !.active = FALSE]
<1>2. ring' = [ring EXCEPT !.place[f] = m]
  BY <1>1 DEF Deactivate
<1>3. f \in Places => m \in Message /\ ~m.active
  <2> SUFFICES ASSUME f \in Places
               PROVE  m \in Message /\ ~m.active
    OBVIOUS
  <2>1. ring.place[f] \in Message
    BY TypeOKRing DEF Inv, Ring
  <2> QED
    BY <2>1 DEF Message, Messages
<1> HIDE DEF m
<1> QED
  BY <1>2, <1>3, AnswerKeeps DEF Acknowledge

LEMMA InvRecord ==
  ASSUME Inv, Record
  PROVE  Inv'
<1>1. PICK f : ring' = [ring EXCEPT !.place[f] = ReplaceWith(@, "PUBREL", 0, "publishing")]
  BY DEF Record
<1> DEFINE m == ReplaceWith(ring.place[f], "PUBREL", 0, "publishing")
<1>2. ring' = [ring EXCEPT !.place[f] = m]
  BY <1>1
<1>3. f \in Places => m \in Message /\ ~m.sent /\ m.attempts < Nretry
  BY ReplaceType, TypeOKRing DEF Inv, Ring
<1> HIDE DEF m
<1> QED
  BY <1>2, <1>3, AnswerKeeps DEF Record

LEMMA ClearedRing ==
  ASSUME NEW r \in Ring
  PROVE  /\ Cleared(r) \in Ring
         /\ Cleared(r).head = 0 /\ Cleared(r).tail = 0
         /\ \A i \in Places : ~Cleared(r).place[i].active /\ ~Cleared(r).place[i].ext
<1> DEFINE p == [i \in Places |-> Reset(r.place[i])]
<1>1. /\ p \in [Places -> Message]
      /\ \A i \in Places : p[i] = Reset(r.place[i]) /\ r.place[i] \in Message
  BY ResetType DEF Ring
<1>2. \A i \in Places : ~p[i].active /\ ~p[i].ext
  BY <1>1, ResetType
<1> HIDE DEF p
<1>3. Cleared(r) = [EmptyRing EXCEPT !.place = p, !.last = r.last]
  BY DEF Cleared, p
<1>4. 0 \in Places /\ 0 \in 0 .. MaxId /\ r.last \in 0 .. MaxId
  BY DEF Places, Ring
<1>5. [i \in Places |-> Blank] \in [Places -> Message]
  BY BlankType
<1>6. EmptyRing \in Ring /\ EmptyRing.head = 0 /\ EmptyRing.tail = 0
  BY <1>4, <1>5 DEF EmptyRing, Ring
<1>7. /\ Cleared(r) \in Ring /\ Cleared(r).place = p
      /\ Cleared(r).head = 0 /\ Cleared(r).tail = 0
  BY <1>1, <1>3, <1>4, <1>6 DEF Ring
<1> QED
  BY <1>2, <1>7

LEMMA InvClear ==
  ASSUME Inv, Clear
  PROVE  Inv'
<1>1. ring' \in Ring /\ \A i \in Places : ~ring'.place[i].active
  BY ClearedRing, TypeOKRing DEF Clear, Inv
<1>2. Histories(younger', burned')
  BY DEF Clear, Histories
<1> QED
  BY <1>1, <1>2, TypeOKRing DEF Inv, SentAtHead, AttemptsLeft

LEMMA InvStep == Inv /\ [Next]_vars => Inv'
<1> SUFFICES ASSUME Inv, [Next]_vars
             PROVE  Inv'
  OBVIOUS
<1>1. CASE UNCHANGED vars
  BY <1>1, TypeOKRing DEF vars, Inv, SentAtHead, AttemptsLeft
<1> QED
  BY <1>1, InvPublish, InvRegister, InvTurns, InvWorks, InvAcknowledge, InvRecord, InvClear
  DEF Next, Service

(* The message at the head is the only one on its way, and no active message *)
(* has used all its attempts.                                                *)
THEOREM Invariance == Spec => []Inv
BY InvInit, InvStep, PTL DEF Spec

(* Every place of the ring holds a message, and head, tail and last id stay  *)
(* in their ranges (mqttconnection.hpp).                                     *)
THEOREM TypeCorrect == Spec => []TypeOK
<1>1. Inv => TypeOK
  BY DEF Inv
<1> QED
  BY <1>1, Invariance, PTL

(* Stop and wait: at most one message of the ring is sent and unanswered,    *)
(* whatever calls, retries and acknowledgements come in between              *)
(* (get_active_message and add_message, mqttconnection.cpp).                 *)
THEOREM StopAndWait == Spec => []OneInFlight
<1>1. Inv => OneInFlight
  BY ActiveInPlaces DEF Inv, SentAtHead, OneInFlight, Active
<1> QED
  BY <1>1, Invariance, PTL
----------------------------------------------------------------------------
(* First in, first out. While a place stays free the active messages fill    *)
(* the places from the head, which may be done already, to the tail, which   *)
(* may have been left empty, in the order in which they were added.          *)

(* How many places from the head on are filled; the next message goes there. *)
Fill(r) == Walk(r.head, r.tail) + (IF r.place[r.tail].active THEN 1 ELSE 0)

(* How many messages that is: the head's may be done.                        *)
Length(r) ==
  Fill(r) - (IF ~r.place[r.head].active /\ r.head # r.tail THEN 1 ELSE 0)

Contiguous(r) ==
  \A i \in Places \ {r.head} : r.place[i].active <=> Walk(r.head, i) < Fill(r)

(* The id that get_new_messageid gave k ids before the last one.             *)
Before(last, k) == IF last > k THEN last - k ELSE last + MaxId - k

(* How many messages were added after that of place i.                       *)
Gap(r, i) == Fill(r) - 1 - Walk(r.head, i)

Numbered(r, b) ==
  \A i \in Active(r) : r.last # 0 /\ r.place[i].id = Before(r.last, Gap(r, i) + b[i])

(* An older message has seen more ids burned.                                *)
Aged(r, b) ==
  \A i, j \in Active(r) : Walk(r.head, i) <= Walk(r.head, j) => b[j] <= b[i]

Ordered(r, y) ==
  \A i, j \in Active(r) : i \in y[j] => Walk(r.head, j) < Walk(r.head, i)

Own(r) == \A i \in Places : ~r.place[i].ext

Fifo(r, y, b) ==
  /\ Length(r) <= MaxInflight
  /\ Contiguous(r) /\ Numbered(r, b) /\ Aged(r, b) /\ Ordered(r, y) /\ Own(r)

FifoInv == Inv /\ Fifo(ring, younger, burned)

LEMMA RingFields ==
  ASSUME NEW r \in Ring
  PROVE  /\ r.head \in Places /\ r.tail \in Places /\ r.last \in 0 .. MaxId
         /\ \A i \in Places : r.place[i] \in Message
         /\ \A i : i \in Active(r) <=> i \in Places /\ r.place[i].active
BY DEF Ring, Active

(* The place k steps ahead, and how many steps ahead a place is.             *)
Ahead(from, k) == IF from + k < RingSize THEN from + k ELSE from + k - RingSize

LEMMA AheadWalk ==
  ASSUME NEW from \in Places, NEW k \in Places
  PROVE  Ahead(from, k) \in Places /\ Walk(from, Ahead(from, k)) = k
BY DEF Ahead, Walk, Places

LEMMA WalkAhead ==
  ASSUME NEW from \in Places, NEW i \in Places
  PROVE  Walk(from, i) \in Places /\ Ahead(from, Walk(from, i)) = i
BY DEF Ahead, Walk, Places

LEMMA FillType ==
  ASSUME NEW r \in Ring
  PROVE  /\ Walk(r.head, r.tail) \in Nat /\ Walk(r.head, r.tail) < RingSize
         /\ Walk(r.head, r.tail) = 0 <=> r.head = r.tail
         /\ Fill(r) \in Nat /\ Fill(r) <= RingSize
         /\ Fill(r) = Walk(r.head, r.tail) + (IF r.place[r.tail].active THEN 1 ELSE 0)
         /\ Length(r) = Fill(r) - (IF ~r.place[r.head].active /\ r.head # r.tail THEN 1 ELSE 0)
         /\ Length(r) \in Nat
<1> DEFINE w == Walk(r.head, r.tail)
<1>1. w \in Nat /\ w < RingSize /\ (w = 0 <=> r.head = r.tail)
  <2>1. r.head \in Places /\ r.tail \in Places
    BY RingFields
  <2>2. w \in Places /\ (w = 0 <=> r.head = r.tail)
    BY <2>1, WalkType, WalkAhead
  <2> HIDE DEF w
  <2> QED
    BY <2>2 DEF Places
<1>2. Fill(r) = w + (IF r.place[r.tail].active THEN 1 ELSE 0)
  BY DEF Fill
<1>3. Length(r) = Fill(r) - (IF ~r.place[r.head].active /\ r.head # r.tail THEN 1 ELSE 0)
  BY DEF Length
<1> HIDE DEF w
<1>4. Fill(r) \in Nat /\ Fill(r) <= RingSize /\ Length(r) \in Nat
  BY <1>1, <1>2, <1>3
<1> QED
  BY <1>1, <1>2, <1>3, <1>4 DEF w

LEMMA ActiveCount ==
  ASSUME NEW r \in Ring, Contiguous(r)
  PROVE  Cardinality(Active(r)) = Length(r)
<1> DEFINE h == r.head
           n == Fill(r)
           lo == IF r.place[h].active THEN 0 ELSE 1
           f == [k \in lo .. n - 1 |-> Ahead(h, k)]
<1>1. /\ h \in Places /\ n \in Nat /\ n <= RingSize
      /\ lo \in Nat /\ (lo = 0 <=> r.place[h].active)
  BY RingFields, FillType
<1>2. \A k \in Places : k \in lo .. n - 1 <=> lo <= k /\ k < n
  <2> HIDE DEF lo, n
  <2> QED
    BY <1>1 DEF Places
<1>3. \A k \in lo .. n - 1 : k \in Places
  <2> HIDE DEF lo, n
  <2> QED
    BY <1>1 DEF Places
<1>4. (r.place[h].active => n > 0) /\ (~r.place[h].active /\ h = r.tail => n = 0)
  <2> HIDE DEF n
  <2> QED
    BY FillType DEF n
<1>5. n = Length(r) + (IF ~r.place[h].active /\ h # r.tail THEN 1 ELSE 0)
  <2>1. n = Fill(r) /\ h = r.head
    OBVIOUS
  <2> HIDE DEF n, h
  <2> QED
    BY <2>1, FillType
<1>6. ~r.place[h].active /\ h # r.tail => n > 0
  <2> HIDE DEF n
  <2> QED
    BY FillType DEF n
<1>7. \A i \in Places \ {h} : r.place[i].active <=> Walk(h, i) < n
  BY DEF Contiguous
<1>8. lo = IF r.place[h].active THEN 0 ELSE 1
  OBVIOUS
<1> HIDE DEF h, n, lo
<1>9. \A k \in lo .. n - 1 : Ahead(h, k) \in Active(r) /\ Walk(h, Ahead(h, k)) = k
  <2> TAKE k \in lo .. n - 1
  <2>1. k \in Places /\ lo <= k /\ k < n
    BY <1>2, <1>3
  <2>2. Ahead(h, k) \in Places /\ Walk(h, Ahead(h, k)) = k
    BY <1>1, <2>1, AheadWalk
  <2>3. CASE Ahead(h, k) = h
    <3>1. k = 0
      BY <1>1, <2>2, <2>3, WalkType
    <3>2. r.place[h].active
      BY <1>1, <2>1, <3>1
    <3> QED
      BY <2>2, <2>3, <3>2 DEF Active
  <2>4. CASE Ahead(h, k) # h
    BY <1>7, <2>1, <2>2, <2>4 DEF Active
  <2> QED
    BY <2>3, <2>4
<1>10. \A i \in Active(r) : Walk(h, i) \in lo .. n - 1 /\ Ahead(h, Walk(h, i)) = i
  <2> TAKE i \in Active(r)
  <2>1. i \in Places /\ r.place[i].active /\ Walk(h, i) \in Places /\ Ahead(h, Walk(h, i)) = i
    BY <1>1, WalkAhead DEF Active
  <2>2. (Walk(h, i) = 0 <=> i = h)
    BY <1>1, <2>1, WalkType
  <2>3. Walk(h, i) < n
    BY <1>1, <1>4, <1>7, <2>1, <2>2
  <2>4. lo <= Walk(h, i)
    BY <1>8, <2>1, <2>2 DEF Places
  <2> QED
    BY <1>2, <2>1, <2>3, <2>4
<1>11. f \in Bijection(lo .. n - 1, Active(r))
  <2>1. f \in [lo .. n - 1 -> Active(r)]
    BY <1>9
  <2>2. \A k, l \in lo .. n - 1 : f[k] = f[l] => k = l
    BY <1>9
  <2>3. \A i \in Active(r) : \E k \in lo .. n - 1 : f[k] = i
    BY <1>10
  <2> HIDE DEF f
  <2> QED
    BY <2>1, <2>2, <2>3 DEF Bijection, Injection, IsInjective, Surjection
<1>12. Cardinality(Active(r)) = Cardinality(lo .. n - 1)
  <2>1. ExistsBijection(lo .. n - 1, Active(r)) /\ IsFiniteSet(lo .. n - 1)
    BY <1>1, <1>11, FS_Interval DEF ExistsBijection
  <2> QED
    BY <2>1, FS_Bijection
<1>13. Cardinality(lo .. n - 1) = IF lo > n - 1 THEN 0 ELSE (n - 1) - lo + 1
  BY <1>1, FS_Interval
<1>14. Length(r) \in Nat
  BY FillType
<1> QED
  BY <1>1, <1>4, <1>5, <1>6, <1>8, <1>12, <1>13, <1>14
(* Distances along the ring, seen from one place and from the next.          *)
LEMMA WalkNext ==
  ASSUME NEW h \in Places, NEW c \in Places, Walk(h, c) = 1
  PROVE  /\ Walk(c, h) = RingSize - 1
         /\ \A i \in Places \ {h} : Walk(c, i) = Walk(h, i) - 1
BY DEF Walk, Places

LEMMA WalkInjective ==
  ASSUME NEW h \in Places, NEW i \in Places, NEW j \in Places
  PROVE  /\ Walk(h, i) = Walk(h, j) => i = j
         /\ Walk(i, h) = Walk(j, h) => i = j
BY DEF Walk, Places

LEMMA BeforeNext ==
  ASSUME NEW last \in 1 .. MaxId, NEW k \in 0 .. MaxId - 1
  PROVE  /\ Before(NextId(last), k + 1) = Before(last, k)
         /\ NextId(last) \in 1 .. MaxId /\ Before(last, 0) = last
BY DEF Before, NextId

LEMMA BeforeInjective ==
  ASSUME NEW last \in 1 .. MaxId, NEW k \in 0 .. MaxId - 1, NEW l \in 0 .. MaxId - 1,
         Before(last, k) = Before(last, l)
  PROVE  k = l
BY DEF Before

(* How many messages follow an active one.                                   *)
LEMMA ActiveGap ==
  ASSUME NEW r \in Ring, Contiguous(r), NEW i \in Active(r)
  PROVE  /\ i \in Places /\ Walk(r.head, i) \in Nat /\ Walk(r.head, i) < Fill(r)
         /\ Gap(r, i) \in Nat /\ Gap(r, i) < Length(r)
<1> DEFINE h == r.head
<1>1. h \in Places /\ i \in Places /\ r.place[i].active
  BY RingFields
<1>2. Walk(h, i) \in Nat /\ (Walk(h, i) = 0 <=> i = h)
  BY <1>1, WalkType
<1>3. i # h => Walk(h, i) < Fill(r)
  BY <1>1 DEF Contiguous
<1>4. /\ Fill(r) \in Nat
      /\ r.place[h].active => Fill(r) > 0
      /\ Length(r) = Fill(r) - (IF ~r.place[h].active /\ h # r.tail THEN 1 ELSE 0)
  BY FillType
<1>5. Gap(r, i) = Fill(r) - 1 - Walk(h, i)
  BY DEF Gap
<1> HIDE DEF h
<1>6. Walk(h, i) < Fill(r)
  BY <1>1, <1>2, <1>3, <1>4
<1>7. Gap(r, i) \in Nat /\ Gap(r, i) < Length(r)
  BY <1>1, <1>2, <1>4, <1>5, <1>6
<1> QED
  BY <1>1, <1>2, <1>6, <1>7 DEF h

(* The ids that were given since that of an active message stay below the    *)
(* number of ids there are.                                                  *)
LEMMA Since ==
  ASSUME MaxInflight + MaxBurned <= MaxId, NEW r \in Ring, NEW y,
         NEW b \in [Places -> 0 .. MaxBurned], Fifo(r, y, b), NEW i \in Active(r)
  PROVE  /\ r.last \in 1 .. MaxId /\ Gap(r, i) + b[i] \in 0 .. MaxId - 1
         /\ r.place[i].id = Before(r.last, Gap(r, i) + b[i])
<1>1. r.last \in 0 .. MaxId /\ r.last # 0 /\ r.place[i].id = Before(r.last, Gap(r, i) + b[i])
  BY RingFields DEF Fifo, Numbered
<1>2. i \in Places /\ Gap(r, i) \in Nat /\ Gap(r, i) < Length(r) /\ Length(r) \in Nat
  BY ActiveGap, FillType DEF Fifo
<1>3. b[i] \in 0 .. MaxBurned /\ Length(r) <= MaxInflight
  BY <1>2 DEF Fifo
<1> QED
  BY <1>1, <1>2, <1>3

LEMMA FifoUnique ==
  ASSUME MaxInflight + MaxBurned <= MaxId, NEW r \in Ring, NEW y,
         NEW b \in [Places -> 0 .. MaxBurned], Fifo(r, y, b),
         NEW i \in Active(r), NEW j \in Active(r), r.place[i].id = r.place[j].id
  PROVE  i = j
<1> DEFINE k == Gap(r, i) + b[i]
           l == Gap(r, j) + b[j]
           u == Walk(r.head, i)
           v == Walk(r.head, j)
<1>1. /\ r.last \in 1 .. MaxId /\ k \in 0 .. MaxId - 1 /\ l \in 0 .. MaxId - 1
      /\ Before(r.last, k) = Before(r.last, l)
  BY Since
<1>2. /\ i \in Places /\ j \in Places /\ r.head \in Places
      /\ u \in Nat /\ v \in Nat /\ b[i] \in Nat /\ b[j] \in Nat
  BY ActiveGap, RingFields DEF Fifo
<1>3. (u <= v => b[j] <= b[i]) /\ (v <= u => b[i] <= b[j])
  BY DEF Fifo, Aged
<1>4. k = Fill(r) - 1 - u + b[i] /\ l = Fill(r) - 1 - v + b[j] /\ Fill(r) \in Nat
  BY FillType DEF Gap
<1> HIDE DEF k, l, u, v
<1>5. k = l
  BY <1>1, BeforeInjective
<1>6. u = v
  BY <1>2, <1>3, <1>4, <1>5
<1> QED
  BY <1>2, <1>6, WalkInjective DEF u, v

LEMMA FifoOldest ==
  ASSUME NEW r \in Ring, NEW y, NEW b, Fifo(r, y, b), NEW i \in Active(r)
  PROVE  Current(r) \in Active(r) /\ Current(r) \notin y[i]
<1>1. r.head \in Places /\ i \in Places
  BY RingFields
<1>2. Current(r) \in Active(r) /\ Walk(r.head, Current(r)) <= Walk(r.head, i)
  BY <1>1, ActiveInPlaces, FirstFromMember DEF Current
<1>3. Walk(r.head, Current(r)) \in Nat /\ Walk(r.head, i) \in Nat
  BY <1>1, <1>2, RingFields, WalkType
<1> QED
  BY <1>2, <1>3 DEF Fifo, Ordered
(* get_active_message moves the head from a message that is done to the next *)
(* place, and to place 0 if nothing is left.                                 *)
LEMMA EmptyFifo ==
  ASSUME NEW r \in Ring, NEW y, NEW b, r.head = 0, r.tail = 0,
         \A i \in Places : ~r.place[i].active /\ ~r.place[i].ext
  PROVE  Fifo(r, y, b)
<1>1. 0 \in Places /\ Active(r) = {}
  BY DEF Places, Active
<1>2. Walk(0, 0) = 0 /\ \A i \in Places \ {0} : Walk(0, i) \in Nat
  BY <1>1, WalkType
<1>3. Fill(r) = 0 /\ Length(r) = 0
  BY <1>1, <1>2 DEF Fill, Length
<1>4. Contiguous(r)
  BY <1>2, <1>3 DEF Contiguous
<1> QED
  BY <1>1, <1>3, <1>4 DEF Fifo, Numbered, Aged, Ordered, Own

LEMMA LookedFifo ==
  ASSUME NEW r \in Ring, NEW y, NEW b, Fifo(r, y, b)
  PROVE  /\ Fifo(Looked(r), y, b) /\ Looked(r) \in Ring /\ Looked(r).place = r.place
         /\ Active(r) # {} => Looked(r).head = Current(r)
<1> DEFINE n == Looked(r)
           h == r.head
           t == r.tail
           c == Current(r)
<1>1. h \in Places /\ t \in Places /\ 0 \in Places
  BY RingFields DEF Places
<1>2. CASE Active(r) = {}
  <2>1. n \in Ring /\ n.place = r.place /\ n.head = 0 /\ n.tail = 0
    BY <1>1, <1>2 DEF Looked, Ring
  <2>2. \A i \in Places : ~r.place[i].active /\ ~r.place[i].ext
    BY <1>2 DEF Active, Fifo, Own
  <2> HIDE DEF n
  <2> QED
    BY <1>2, <2>1, <2>2, EmptyFifo DEF n
<1>3. CASE Active(r) # {}
  <2>1. /\ c \in Active(r) /\ c \in Places /\ \A i \in Active(r) : Walk(h, c) <= Walk(h, i)
        /\ h \in Active(r) => c = h
    BY <1>1, <1>3, ActiveInPlaces, FirstFromMember, FirstFromSelf DEF Current
  <2>2. n \in Ring /\ n.place = r.place /\ n.head = c /\ n.tail = t /\ n.last = r.last
    BY <1>3, <2>1 DEF Looked, Ring
  <2>3. Active(n) = Active(r)
    BY <2>2 DEF Active
  <2>4. CASE h \in Active(r)
    <3>1. n.head = h
      BY <2>1, <2>2, <2>4
    <3> HIDE DEF n
    <3>2. Fill(n) = Fill(r)
      BY <2>2, <3>1 DEF Fill
    <3>3. Length(n) = Length(r) /\ Contiguous(n) /\ Numbered(n, b)
      BY <2>2, <2>3, <3>1, <3>2 DEF Fifo, Length, Contiguous, Numbered, Gap
    <3>4. Aged(n, b) /\ Ordered(n, y) /\ Own(n)
      BY <2>2, <2>3, <3>1 DEF Fifo, Aged, Ordered, Own
    <3> QED
      BY <1>3, <2>2, <3>3, <3>4 DEF Fifo, n
  <2>5. CASE h \notin Active(r)
    <3>1. c # h /\ Walk(h, c) \in Nat /\ Walk(h, c) # 0 /\ Walk(h, c) < Fill(r)
      BY <1>1, <2>1, <2>5, WalkType, ActiveGap DEF Fifo
    <3>2. /\ Fill(r) \in Nat /\ Fill(r) <= RingSize
          /\ Fill(r) = Walk(h, t) + (IF r.place[t].active THEN 1 ELSE 0)
          /\ Length(r) = Fill(r) - (IF ~r.place[h].active /\ h # t THEN 1 ELSE 0)
          /\ Walk(h, t) \in Nat /\ (Walk(h, t) = 0 <=> h = t)
      BY FillType
    <3>3. 1 \in Places
      BY <3>1, <3>2 DEF Places
    <3>4. Ahead(h, 1) \in Places /\ Walk(h, Ahead(h, 1)) = 1
      BY <1>1, <3>3, AheadWalk
    <3>5. Ahead(h, 1) # h /\ Walk(h, Ahead(h, 1)) < Fill(r)
      BY <1>1, <3>1, <3>2, <3>4, WalkType
    <3>6. Ahead(h, 1) \in Active(r)
      BY <3>4, <3>5 DEF Contiguous, Fifo, Active
    <3>7. Walk(h, c) = 1
      BY <2>1, <3>1, <3>4, <3>6
    <3>8. \A i \in Places \ {h} : Walk(c, i) = Walk(h, i) - 1 /\ Walk(h, i) \in Nat
      BY <1>1, <2>1, <3>7, WalkNext, WalkType
    <3>9. Walk(c, h) = RingSize - 1
      BY <1>1, <2>1, <3>7, WalkNext
    <3>10. /\ ~r.place[h].active /\ r.place[c].active
           /\ \A i \in Active(r) : i \in Places \ {h}
      BY <1>1, <2>1, <2>5 DEF Active
    <3>11. t # h /\ Walk(c, t) = Walk(h, t) - 1
      <4>1. t # h
        BY <3>1, <3>2, <3>10
      <4> QED
        BY <1>1, <3>8, <4>1
    <3>12. Fill(n) = Walk(c, t) + (IF r.place[t].active THEN 1 ELSE 0)
      BY <2>2 DEF Fill
    <3>13. Length(n) = Fill(n)
      BY <2>2, <3>10, <3>12, <3>11, <3>2 DEF Length
    <3> HIDE DEF n, c, h, t
    <3>14. Fill(n) = Fill(r) - 1 /\ Length(n) = Length(r)
      BY <3>2, <3>10, <3>11, <3>12, <3>13
    <3>15. Contiguous(n)
      <4> SUFFICES ASSUME NEW i \in Places \ {c}
                   PROVE  r.place[i].active <=> Walk(c, i) < Fill(n)
        BY <2>2 DEF Contiguous
      <4>1. CASE i = h
        BY <3>2, <3>9, <3>10, <3>14, <4>1
      <4>2. CASE i # h
        <5>1. r.place[i].active <=> Walk(h, i) < Fill(r)
          BY <4>2 DEF Fifo, Contiguous, h
        <5> QED
          BY <3>2, <3>8, <3>14, <4>2, <5>1
      <4> QED
        BY <4>1, <4>2
    <3>16. Ordered(n, y)
      <4> SUFFICES ASSUME NEW i \in Active(r), NEW j \in Active(r), i \in y[j]
                   PROVE  Walk(c, j) < Walk(c, i)
        BY <2>2, <2>3 DEF Ordered
      <4>1. Walk(h, j) < Walk(h, i)
        BY DEF Fifo, Ordered, h
      <4> QED
        BY <3>8, <3>10, <4>1
    <3>17. Aged(n, b)
      <4> SUFFICES ASSUME NEW i \in Active(r), NEW j \in Active(r), Walk(c, i) <= Walk(c, j)
                   PROVE  b[j] <= b[i]
        BY <2>2, <2>3 DEF Aged
      <4>1. Walk(h, i) <= Walk(h, j)
        BY <3>8, <3>10
      <4> QED
        BY <4>1 DEF Fifo, Aged, h
    <3>18. \A i \in Active(r) : Gap(n, i) = Gap(r, i)
      <4> TAKE i \in Active(r)
      <4>1. Gap(n, i) = Fill(n) - 1 - Walk(c, i) /\ Gap(r, i) = Fill(r) - 1 - Walk(h, i)
        BY <2>2 DEF Gap, h
      <4> QED
        BY <3>2, <3>8, <3>10, <3>14, <4>1
    <3>19. Numbered(n, b) /\ Own(n)
      BY <2>2, <2>3, <3>18 DEF Fifo, Numbered, Own
    <3> QED
      BY <1>3, <2>2, <3>14, <3>15, <3>16, <3>17, <3>19 DEF Fifo, n, c
  <2> QED
    BY <2>4, <2>5
<1> QED
  BY <1>2, <1>3

(* An answer or a write changes one message and completes none but the head. *)
LEMMA AnswerFifo ==
  ASSUME NEW r \in Ring, NEW y, NEW b, Fifo(r, y, b), NEW n \in Ring, NEW f \in Places,
         r.place[f].active => f = r.head,
         n.head = r.head, n.tail = r.tail, n.last = r.last,
         \A j \in Places \ {f} : n.place[j] = r.place[j],
         n.place[f].id = r.place[f].id, ~n.place[f].ext,
         n.place[f].active => r.place[f].active
  PROVE  Fifo(n, y, b)
<1> DEFINE h == r.head
           t == r.tail
<1>1. h \in Places /\ t \in Places /\ Active(n) \subseteq Active(r)
  BY RingFields DEF Active
<1>2. /\ \A i \in Places \ {h} : n.place[i].active <=> r.place[i].active
      /\ n.place[h].active => r.place[h].active
      /\ \A i \in Places : n.place[i].id = r.place[i].id
  <2>1. \A i \in Places : n.place[i].id = r.place[i].id
    OBVIOUS
  <2>2. \A i \in Places \ {f} : n.place[i].active <=> r.place[i].active
    OBVIOUS
  <2>3. f # h => ~r.place[f].active /\ ~n.place[f].active
    OBVIOUS
  <2> HIDE DEF h
  <2> QED
    BY <1>1, <2>1, <2>2, <2>3
<1>3. /\ Walk(h, t) \in Nat /\ (Walk(h, t) = 0 <=> h = t)
      /\ Fill(r) = Walk(h, t) + (IF r.place[t].active THEN 1 ELSE 0)
      /\ Length(r) = Fill(r) - (IF ~r.place[h].active /\ h # t THEN 1 ELSE 0)
      /\ Fill(n) = Walk(h, t) + (IF n.place[t].active THEN 1 ELSE 0)
      /\ Length(n) = Fill(n) - (IF ~n.place[h].active /\ h # t THEN 1 ELSE 0)
  <2>1. n.head = h /\ n.tail = t
    OBVIOUS
  <2> HIDE DEF h, t
  <2> QED
    BY <2>1, FillType DEF h, t
<1>4. Contiguous(r) /\ Numbered(r, b) /\ Aged(r, b) /\ Ordered(r, y) /\ Own(r)
      /\ Length(r) <= MaxInflight
  BY DEF Fifo
<1>5. \A i \in Places \ {h} : Walk(h, i) \in Nat /\ Walk(h, i) # 0
  BY <1>1, WalkType
<1>6. Aged(n, b) /\ Ordered(n, y) /\ Own(n)
  BY <1>1, <1>4 DEF Aged, Ordered, Own
<1>7. \A i \in Places \ {h} : r.place[i].active <=> Walk(h, i) < Fill(r)
  BY <1>4 DEF Contiguous
<1> HIDE DEF h, t
<1>8. Length(n) <= MaxInflight
  BY <1>1, <1>2, <1>3, <1>4
<1>9. CASE Fill(n) = Fill(r)
  <2>1. Contiguous(n)
    BY <1>2, <1>7, <1>9 DEF Contiguous, h
  <2>2. \A i \in Active(n) : Gap(n, i) = Gap(r, i)
    BY <1>9 DEF Gap
  <2>3. Numbered(n, b)
    <3> SUFFICES ASSUME NEW i \in Active(n)
                 PROVE  n.last # 0 /\ n.place[i].id = Before(n.last, Gap(n, i) + b[i])
      BY DEF Numbered
    <3>1. i \in Active(r) /\ i \in Places
      BY <1>1, ActiveInPlaces
    <3>2. r.last # 0 /\ r.place[i].id = Before(r.last, Gap(r, i) + b[i])
      BY <1>4, <3>1 DEF Numbered
    <3> QED
      BY <1>2, <2>2, <3>1, <3>2
  <2> QED
    BY <1>6, <1>8, <2>1, <2>3 DEF Fifo
<1>10. CASE Fill(n) # Fill(r)
  <2>1. h = t /\ r.place[h].active /\ ~n.place[h].active
    BY <1>1, <1>2, <1>3, <1>10
  <2>2. Fill(r) = 1 /\ Fill(n) = 0
    BY <1>3, <2>1
  <2>3. \A i \in Places : ~n.place[i].active
    BY <1>2, <1>5, <1>7, <2>1, <2>2
  <2>4. Contiguous(n)
    BY <1>5, <2>2, <2>3 DEF Contiguous, h
  <2>5. Numbered(n, b)
    BY <2>3 DEF Numbered, Active
  <2> QED
    BY <1>6, <1>8, <2>4, <2>5 DEF Fifo
<1> QED
  BY <1>9, <1>10
(* With a place left over add_message takes the one behind the filled ones.  *)
LEMMA AddedBehind ==
  ASSUME MaxInflight < RingSize, NEW r \in Ring, Contiguous(r), Length(r) < MaxInflight
  PROVE  /\ AddedAt(r) \in Places \ Active(r)
         /\ Walk(r.head, AddedAt(r)) = Fill(r)
<1> DEFINE h == r.head
           t == r.tail
           a == AddedAt(r)
<1>1. h \in Places /\ t \in Places
  BY RingFields
<1>2. /\ Walk(h, t) \in Nat /\ Fill(r) \in Nat
      /\ Fill(r) = Walk(h, t) + (IF r.place[t].active THEN 1 ELSE 0)
      /\ Length(r) = Fill(r) - (IF ~r.place[h].active /\ h # t THEN 1 ELSE 0)
  BY FillType
<1>3. Walk(h, h) = 0
  BY <1>1, WalkType
<1>4. CASE r.place[t].active
  <2>1. Walk(h, t) + 1 < RingSize /\ Fill(r) = Walk(h, t) + 1
    BY <1>2, <1>4
  <2>2. 1 \in Places
    BY <1>2, <2>1 DEF Places
  <2>3. Ahead(t, 1) \in Places /\ Walk(t, Ahead(t, 1)) = 1
    BY <1>1, <2>2, AheadWalk
  <2>4. Walk(h, Ahead(t, 1)) = Walk(h, t) + 1
    BY <1>1, <2>1 DEF Ahead, Walk, Places
  <2>5. Ahead(t, 1) \in Places \ Active(r)
    <3>1. Ahead(t, 1) # h /\ ~(Walk(h, Ahead(t, 1)) < Fill(r))
      BY <1>2, <1>3, <2>1, <2>4
    <3> QED
      BY <2>3, <3>1 DEF Contiguous, Active
  <2>6. a \in Places \ Active(r) /\ Walk(t, a) <= 1
    BY <1>1, <2>3, <2>5, FirstFromMember DEF AddedAt
  <2>7. Walk(t, a) = 1
    <3>1. a # t
      BY <1>1, <1>4, <2>6 DEF Active
    <3> QED
      BY <1>1, <2>6, <3>1, WalkType
  <2>8. a = Ahead(t, 1)
    BY <1>1, <2>3, <2>6, <2>7, WalkInjective
  <2> QED
    BY <2>1, <2>4, <2>6, <2>8
<1>5. CASE ~r.place[t].active
  <2>1. t \in Places \ Active(r)
    BY <1>1, <1>5 DEF Active
  <2>2. a = t
    BY <1>1, <2>1, FirstFromSelf DEF AddedAt
  <2> QED
    BY <1>2, <1>5, <2>1, <2>2
<1> QED
  BY <1>4, <1>5

(* A ring whose tail is the place behind the filled ones, with a message in  *)
(* it or not: its length, and which places are filled.                       *)
LEMMA BehindFill ==
  ASSUME MaxInflight < RingSize,
         NEW r \in Ring, Contiguous(r), Length(r) < MaxInflight,
         NEW n \in Ring, n.head = r.head, n.tail = AddedAt(r),
         \A j \in Places \ {AddedAt(r)} : n.place[j] = r.place[j]
  PROVE  /\ Fill(n) = Fill(r) + (IF n.place[AddedAt(r)].active THEN 1 ELSE 0)
         /\ Length(n) <= MaxInflight
         /\ Contiguous(n)
<1> DEFINE h == r.head
           t == r.tail
           a == AddedAt(r)
<1>1. h \in Places /\ a \in Places /\ a \notin Active(r) /\ Walk(h, a) = Fill(r)
  BY RingFields, AddedBehind
<1>2. /\ Fill(r) \in Nat /\ Walk(h, t) \in Nat /\ (Walk(h, t) = 0 <=> h = t)
      /\ Fill(r) = Walk(h, t) + (IF r.place[t].active THEN 1 ELSE 0)
      /\ Length(r) = Fill(r) - (IF ~r.place[h].active /\ h # t THEN 1 ELSE 0)
  BY FillType
<1>3. /\ Fill(n) = Walk(h, a) + (IF n.place[a].active THEN 1 ELSE 0)
      /\ Length(n) = Fill(n) - (IF ~n.place[h].active /\ h # a THEN 1 ELSE 0)
  <2>1. n.head = h /\ n.tail = a
    OBVIOUS
  <2> HIDE DEF h, a
  <2> QED
    BY <2>1 DEF Fill, Length
<1>4. \A i \in Places : Walk(h, i) \in Nat /\ (Walk(h, i) = 0 <=> i = h)
  BY <1>1, WalkType
<1>5. \A i \in Places \ {h} : r.place[i].active <=> Walk(h, i) < Fill(r)
  BY DEF Contiguous
<1>6. \A j \in Places \ {a} : n.place[j] = r.place[j]
  OBVIOUS
<1>7. n.head = h
  OBVIOUS
<1>8. \A i \in Places \ {a} : Walk(h, i) # Fill(r)
  <2> TAKE i \in Places \ {a}
  <2>1. Walk(h, i) = Walk(h, a) => i = a
    BY <1>1, WalkInjective
  <2> QED
    BY <1>1, <2>1
<1> HIDE DEF h, t, a
<1>9. Fill(n) = Fill(r) + (IF n.place[a].active THEN 1 ELSE 0)
  BY <1>1, <1>3
<1>10. Length(n) <= MaxInflight
  <2>1. CASE a = h
    <3>1. Fill(r) = 0
      BY <1>1, <1>4, <2>1
    <3> QED
      BY <1>3, <1>9, <2>1, <3>1
  <2>2. CASE a # h
    <3>1. n.place[h] = r.place[h] /\ Fill(r) # 0
      BY <1>1, <1>4, <1>6, <2>2
    <3>2. ~r.place[h].active => h # t
      BY <1>2, <3>1
    <3> QED
      BY <1>2, <1>3, <1>9, <2>2, <3>1, <3>2
  <2> QED
    BY <2>1, <2>2
<1>11. Contiguous(n)
  <2> SUFFICES ASSUME NEW i \in Places \ {h}
               PROVE  n.place[i].active <=> Walk(h, i) < Fill(n)
    BY <1>7 DEF Contiguous
  <2>1. CASE i = a
    BY <1>1, <1>2, <1>9, <2>1
  <2>2. CASE i # a
    <3>1. n.place[i] = r.place[i] /\ Walk(h, i) # Fill(r) /\ Walk(h, i) \in Nat
      BY <1>4, <1>6, <1>8, <2>2
    <3> QED
      BY <1>2, <1>5, <1>9, <3>1
  <2> QED
    BY <2>1, <2>2
<1> QED
  BY <1>9, <1>10, <1>11 DEF a

(* The message that is added is the last, with the last id.                  *)
LEMMA AddFifo ==
  ASSUME MaxInflight < RingSize, MaxInflight + MaxBurned <= MaxId,
         NEW r \in Ring, NEW y, NEW b \in [Places -> 0 .. MaxBurned], Fifo(r, y, b),
         Length(r) < MaxInflight,
         NEW n \in Ring, n.head = r.head, n.tail = AddedAt(r), n.last = NextId(r.last),
         n.place[AddedAt(r)].active, ~n.place[AddedAt(r)].ext,
         n.place[AddedAt(r)].id = NextId(r.last),
         \A j \in Places \ {AddedAt(r)} : n.place[j] = r.place[j]
  PROVE  Fifo(n, [i \in Places |->
                    IF i \in Active(r) THEN (y[i] \cap Active(r)) \cup {AddedAt(r)} ELSE {}],
                 [i \in Places |-> IF i \in Active(r) THEN b[i] ELSE 0])
<1> DEFINE h == r.head
           a == AddedAt(r)
           z == [i \in Places |-> IF i \in Active(r) THEN (y[i] \cap Active(r)) \cup {a} ELSE {}]
           c == [i \in Places |-> IF i \in Active(r) THEN b[i] ELSE 0]
<1>1. h \in Places /\ a \in Places /\ a \notin Active(r) /\ Walk(h, a) = Fill(r)
  BY RingFields, AddedBehind DEF Fifo
<1>2. /\ Fill(n) = Fill(r) + 1 /\ Length(n) <= MaxInflight /\ Contiguous(n)
      /\ Fill(r) \in Nat
  BY BehindFill, FillType DEF Fifo
<1>3. Active(n) = Active(r) \cup {a}
  BY <1>1 DEF Active
<1>4. NextId(r.last) \in 1 .. MaxId /\ n.head = h /\ n.last = NextId(r.last)
  BY RingFields DEF NextId
<1>5. \A j \in Active(r) : /\ j \in Places /\ j # a /\ n.place[j] = r.place[j]
                            /\ Walk(h, j) \in Nat /\ Walk(h, j) < Fill(r)
  BY <1>1, ActiveGap DEF Fifo
<1>6. n.place[a].id = NextId(r.last)
  OBVIOUS
<1>7. Own(n)
  BY DEF Fifo, Own
<1>8. /\ c[a] = 0 /\ \A j \in Active(r) : c[j] = b[j] /\ b[j] \in Nat
      /\ \A j \in Active(r) : z[j] = (y[j] \cap Active(r)) \cup {a}
  BY <1>1, <1>5
<1> HIDE DEF h, a, z, c
<1>9. Numbered(n, c)
  <2> SUFFICES ASSUME NEW i \in Active(n)
               PROVE  n.place[i].id = Before(NextId(r.last), Gap(n, i) + c[i])
    BY <1>4 DEF Numbered
  <2>0. Gap(n, i) = Fill(r) - Walk(h, i)
    BY <1>2, <1>3, <1>4, <1>5, <1>1 DEF Gap
  <2>1. CASE i = a
    <3>1. Gap(n, i) + c[i] = 0
      BY <1>1, <1>2, <1>8, <2>0, <2>1
    <3>2. Before(NextId(r.last), 0) = NextId(r.last)
      BY <1>4 DEF Before
    <3> QED
      BY <1>6, <2>1, <3>1, <3>2
  <2>2. CASE i # a
    <3>1. i \in Active(r)
      BY <1>3, <2>2
    <3>2. /\ r.last \in 1 .. MaxId /\ Gap(r, i) + b[i] \in 0 .. MaxId - 1
          /\ r.place[i].id = Before(r.last, Gap(r, i) + b[i])
      BY <3>1, Since
    <3>3. Gap(n, i) + c[i] = (Gap(r, i) + b[i]) + 1
      <4>1. Gap(r, i) = Fill(r) - 1 - Walk(h, i)
        BY DEF Gap, h
      <4> QED
        BY <1>2, <1>5, <1>8, <2>0, <3>1, <4>1
    <3>4. Before(NextId(r.last), (Gap(r, i) + b[i]) + 1) = Before(r.last, Gap(r, i) + b[i])
      BY <3>2, BeforeNext
    <3> QED
      BY <1>5, <3>1, <3>2, <3>3, <3>4
  <2> QED
    BY <2>1, <2>2
<1>10. Aged(n, c)
  <2> SUFFICES ASSUME NEW i \in Active(n), NEW j \in Active(n), Walk(h, i) <= Walk(h, j)
               PROVE  c[j] <= c[i]
    BY <1>4 DEF Aged
  <2>1. CASE j = a
    BY <1>3, <1>8, <2>1
  <2>2. CASE j # a /\ i = a
    BY <1>1, <1>2, <1>3, <1>5, <2>2
  <2>3. CASE j # a /\ i # a
    <3>1. i \in Active(r) /\ j \in Active(r)
      BY <1>3, <2>3
    <3>2. b[j] <= b[i]
      BY <3>1 DEF Fifo, Aged, h
    <3> QED
      BY <1>8, <3>1, <3>2
  <2> QED
    BY <2>1, <2>2, <2>3
<1>11. Ordered(n, z)
  <2> SUFFICES ASSUME NEW i \in Active(n), NEW j \in Active(n), i \in z[j]
               PROVE  Walk(h, j) < Walk(h, i)
    BY <1>4 DEF Ordered
  <2>1. j \in Active(r) /\ i \in (y[j] \cap Active(r)) \cup {a}
    <3>1. j # a
      BY <1>1 DEF z
    <3>2. j \in Active(r)
      BY <1>3, <3>1
    <3> QED
      BY <1>8, <3>2
  <2>2. CASE i = a
    BY <1>1, <1>5, <2>1, <2>2
  <2>3. CASE i # a
    BY <2>1, <2>3 DEF Fifo, Ordered, h
  <2> QED
    BY <2>2, <2>3
<1> QED
  BY <1>2, <1>7, <1>9, <1>10, <1>11 DEF Fifo, z, c, a

(* An id that is burned makes every message of the ring older by one.        *)
LEMMA RegisterFifo ==
  ASSUME MaxInflight < RingSize, MaxInflight + MaxBurned <= MaxId,
         NEW r \in Ring, NEW y, NEW b \in [Places -> 0 .. MaxBurned], Fifo(r, y, b),
         Length(r) < MaxInflight,
         NEW n \in Ring, n.head = r.head, n.tail = AddedAt(r), n.last = NextId(r.last),
         ~n.place[AddedAt(r)].active, ~n.place[AddedAt(r)].ext,
         \A j \in Places \ {AddedAt(r)} : n.place[j] = r.place[j]
  PROVE  Fifo(n, y, [i \in Places |-> IF i \in Active(r) THEN b[i] + 1 ELSE 0])
<1> DEFINE a == AddedAt(r)
           c == [i \in Places |-> IF i \in Active(r) THEN b[i] + 1 ELSE 0]
<1>1. a \in Places /\ a \notin Active(r)
  BY AddedBehind DEF Fifo
<1>2. /\ Fill(n) = Fill(r) /\ Length(n) <= MaxInflight /\ Contiguous(n)
      /\ Fill(r) \in Nat
  BY BehindFill, FillType DEF Fifo
<1>3. Active(n) = Active(r) /\ \A j \in Active(r) : n.place[j] = r.place[j]
  BY <1>1 DEF Active
<1>4. NextId(r.last) \in 1 .. MaxId /\ n.head = r.head /\ n.last = NextId(r.last)
  BY RingFields DEF NextId
<1>5. \A j \in Active(r) : c[j] = b[j] + 1 /\ b[j] \in Nat
  BY ActiveInPlaces
<1>6. Own(n)
  BY DEF Fifo, Own
<1> HIDE DEF a, c
<1>7. Numbered(n, c)
  <2> SUFFICES ASSUME NEW i \in Active(r)
               PROVE  r.place[i].id = Before(NextId(r.last), Gap(n, i) + c[i])
    BY <1>3, <1>4 DEF Numbered
  <2>1. /\ r.last \in 1 .. MaxId /\ Gap(r, i) + b[i] \in 0 .. MaxId - 1
        /\ r.place[i].id = Before(r.last, Gap(r, i) + b[i]) /\ Gap(r, i) \in Nat
    BY Since, ActiveGap DEF Fifo
  <2>2. Gap(n, i) = Gap(r, i)
    BY <1>2, <1>4 DEF Gap
  <2>3. Gap(n, i) + c[i] = (Gap(r, i) + b[i]) + 1
    BY <1>5, <2>1, <2>2
  <2>4. Before(NextId(r.last), (Gap(r, i) + b[i]) + 1) = Before(r.last, Gap(r, i) + b[i])
    BY <2>1, BeforeNext
  <2> QED
    BY <2>1, <2>3, <2>4
<1>8. Aged(n, c)
  <2> SUFFICES ASSUME NEW i \in Active(r), NEW j \in Active(r),
                      Walk(r.head, i) <= Walk(r.head, j)
               PROVE  c[j] <= c[i]
    BY <1>3, <1>4 DEF Aged
  <2>1. b[j] <= b[i]
    BY DEF Fifo, Aged
  <2> QED
    BY <1>5, <2>1
<1>9. Ordered(n, y)
  BY <1>3, <1>4 DEF Fifo, Ordered
<1> QED
  BY <1>2, <1>6, <1>7, <1>8, <1>9 DEF Fifo, c

LEMMA FifoInit == Init => Fifo(ring, younger, burned)
<1> SUFFICES ASSUME Init
             PROVE  Fifo(ring, younger, burned)
  OBVIOUS
<1>1. ring.head = 0 /\ ring.tail = 0 /\ \A i \in Places : ring.place[i] = Blank
  BY DEF Init, EmptyRing
<1>2. \A i \in Places : ~ring.place[i].active /\ ~ring.place[i].ext
  BY <1>1, BlankType
<1>3. ring \in Ring
  BY InvInit, TypeOKRing DEF Inv
<1> QED
  BY <1>1, <1>2, <1>3, EmptyFifo

LEMMA FifoState ==
  ASSUME FifoInv
  PROVE  /\ ring \in Ring /\ Fifo(ring, younger, burned)
         /\ burned \in [Places -> 0 .. MaxBurned]
BY TypeOKRing DEF FifoInv, Inv, Histories

LEMMA Room ==
  ASSUME FifoInv, HasRoom
  PROVE  Length(ring) < MaxInflight
BY FifoState, ActiveCount DEF HasRoom, Fifo

LEMMA FifoPublish ==
  ASSUME MaxInflight < RingSize, MaxInflight + MaxBurned <= MaxId, FifoInv,
         Publish \/ SubscribeKnown
  PROVE  Fifo(ring, younger, burned)'
<1> DEFINE a == AddedAt(ring)
<1>1. /\ ring \in Ring /\ Fifo(ring, younger, burned)
      /\ burned \in [Places -> 0 .. MaxBurned] /\ Length(ring) < MaxInflight
  BY FifoState, Room DEF Publish, SubscribeKnown
<1>2. a \in Places
  BY <1>1, AddedBehind DEF Fifo
<1>3. /\ ring' \in Ring
      /\ ring'.head = ring.head /\ ring'.tail = a /\ ring'.last = NextId(ring.last)
      /\ Fresh(ring'.place[a], ring'.last)
      /\ \A j \in Places \ {a} : ring'.place[j] = ring.place[j]
  <2>1. CASE Publish
    BY <1>1, <1>2, <2>1, PublishChange DEF Publish
  <2>2. CASE SubscribeKnown
    <3>1. "subscribing" \in Activities
      BY DEF Activities
    <3> QED
      BY <1>1, <1>2, <2>2, <3>1, AddChange DEF SubscribeKnown
  <2> QED
    BY <2>1, <2>2
<1>4. /\ younger' = [i \in Places |->
                     IF i \in Active(ring) THEN (younger[i] \cap Active(ring)) \cup {a} ELSE {}]
      /\ burned' = [i \in Places |-> IF i \in Active(ring) THEN burned[i] ELSE 0]
  BY DEF Publish, SubscribeKnown, Joins
<1> QED
  BY <1>1, <1>3, <1>4, AddFifo DEF Fresh

LEMMA FifoRegister ==
  ASSUME MaxInflight < RingSize, MaxInflight + MaxBurned <= MaxId, FifoInv, RegisterKnown
  PROVE  Fifo(ring, younger, burned)'
<1>1. /\ ring \in Ring /\ Fifo(ring, younger, burned)
      /\ burned \in [Places -> 0 .. MaxBurned] /\ Length(ring) < MaxInflight
  BY FifoState, Room DEF RegisterKnown
<1>2. AddedAt(ring) \in Places
  BY <1>1, AddedBehind DEF Fifo
<1>3. /\ ring' \in Ring
      /\ ring'.head = ring.head /\ ring'.tail = AddedAt(ring)
      /\ ring'.last = NextId(ring.last)
      /\ ~ring'.place[AddedAt(ring)].active /\ ~ring'.place[AddedAt(ring)].ext
      /\ \A j \in Places \ {AddedAt(ring)} : ring'.place[j] = ring.place[j]
  BY <1>1, <1>2, RegisterChange DEF RegisterKnown
<1>4. /\ younger' = younger
      /\ burned' = [i \in Places |-> IF i \in Active(ring) THEN burned[i] + 1 ELSE 0]
  BY DEF RegisterKnown
<1> QED
  BY <1>1, <1>3, <1>4, RegisterFifo

LEMMA FifoTurns ==
  ASSUME FifoInv, Turns
  PROVE  Fifo(ring, younger, burned)'
BY FifoState, LookedFifo DEF Turns

LEMMA FifoWorks ==
  ASSUME FifoInv, Sends \/ Expires
  PROVE  Fifo(ring, younger, burned)'
<1> DEFINE n == Looked(ring)
           c == Current(ring)
<1>1. /\ ring \in Ring /\ Fifo(ring, younger, burned)
      /\ Active(ring) # {} /\ younger' = younger /\ burned' = burned
      /\ FirstWrite(c) \/ Expire(c)
  BY FifoState DEF Sends, Expires, Works
<1>2. /\ Fifo(n, younger, burned) /\ n \in Ring /\ n.place = ring.place
      /\ n.head = c
  BY <1>1, LookedFifo
<1>3. c \in Places /\ ring.place[c] \in Message /\ ring.place[c].active /\ ~ring.place[c].ext
  BY <1>1, RingFields, ActiveInPlaces, FirstFromMember DEF Current, Fifo, Own
<1>4. PICK m \in Message : /\ ring' = [n EXCEPT !.place[c] = m]
                           /\ m.id = ring.place[c].id /\ m.ext = ring.place[c].ext
  <2>1. CASE FirstWrite(c)
    <3>1. ring' = [n EXCEPT !.place[c] = Sending(ring.place[c])]
      BY <1>2, <2>1 DEF FirstWrite
    <3>2. LET m == Sending(ring.place[c])
          IN  m \in Message /\ m.id = ring.place[c].id /\ m.ext = ring.place[c].ext
      BY <1>3, SendingType DEF Sending, Message, Messages
    <3> HIDE DEF n, c
    <3> QED
      BY <3>1, <3>2
  <2>2. CASE Expire(c)
    <3> DEFINE e == Expired(ring.place[c])
               m == IF HasFailed(e) THEN [e EXCEPT !.active = FALSE] ELSE e
    <3>1. ring' = [n EXCEPT !.place[c] = m]
      BY <2>2 DEF Expire
    <3>2. m.id = ring.place[c].id /\ m.ext = ring.place[c].ext
      BY <1>3 DEF Expired, Message, Messages
    <3>3. m \in Message
      <4>1. ring.place[c].attempts < Nretry
        BY <1>3 DEF FifoInv, Inv, AttemptsLeft
      <4>2. e \in Message
        BY <1>3, <4>1, ExpiredType
      <4> HIDE DEF e
      <4> QED
        BY <4>2, InactiveType
    <3> HIDE DEF n, c, m
    <3> QED
      BY <3>1, <3>2, <3>3
  <2> QED
    BY <1>1, <2>1, <2>2
<1> HIDE DEF n, c
<1>5. /\ ring' \in Ring
      /\ ring'.head = n.head /\ ring'.tail = n.tail /\ ring'.last = n.last
      /\ \A j \in Places : ring'.place[j] = IF j = c THEN m ELSE n.place[j]
  BY <1>2, <1>3, <1>4, PlaceChanged
<1>6. /\ n.place[c].active => c = n.head
      /\ ring'.place[c].id = n.place[c].id /\ ~ring'.place[c].ext
      /\ ring'.place[c].active => n.place[c].active
  BY <1>2, <1>3, <1>4, <1>5
<1>7. Fifo(ring', younger, burned)
  BY <1>2, <1>3, <1>5, <1>6, AnswerFifo
<1> QED
  BY <1>1, <1>7

(* An acknowledgement names the head's message or one that is done already.  *)
LEMMA FoundHead ==
  ASSUME MaxInflight + MaxBurned <= MaxId, FifoInv, NEW i \in Active(ring), ring.place[i].sent
  PROVE  LET f == Found(ring, ring.place[i].id, FALSE) IN
           f \in Places /\ (ring.place[f].active => f = ring.head)
<1> DEFINE id == ring.place[i].id
           f == Found(ring, id, FALSE)
<1>1. ring \in Ring /\ i \in Places /\ i = ring.head
  BY TypeOKRing DEF FifoInv, Inv, SentAtHead, Active
<1>2. i \in Matches(ring, id, FALSE) /\ 0 \in Places
  <2>1. ring.place[i].ext = FALSE
    BY <1>1 DEF FifoInv, Fifo, Own, Ring, Message, Messages
  <2> QED
    BY <1>1, <2>1 DEF Matches, Places
<1>3. f \in Matches(ring, id, FALSE)
  <2>1. Matches(ring, id, FALSE) \in SUBSET Places
    BY DEF Matches
  <2> QED
    BY <1>2, <2>1, FirstFromMember DEF Found, Lowest
<1>4. f \in Places /\ ring.place[f].id = id
  BY <1>3 DEF Matches
<1> HIDE DEF f
<1>5. ring.place[f].active => f = i
  <2> SUFFICES ASSUME ring.place[f].active
               PROVE  f = i
    OBVIOUS
  <2>1. f \in Active(ring)
    BY <1>4 DEF Active
  <2> QED
    BY <1>4, <2>1, FifoState, FifoUnique
<1> QED
  BY <1>1, <1>4, <1>5 DEF f

LEMMA FifoAnswered ==
  ASSUME MaxInflight + MaxBurned <= MaxId, FifoInv, Acknowledge \/ Record
  PROVE  Fifo(ring, younger, burned)'
<1>1. /\ ring \in Ring /\ Fifo(ring, younger, burned)
      /\ younger' = younger /\ burned' = burned
  BY FifoState DEF Acknowledge, Record
<1>2. PICK i \in Active(ring) :
        /\ ring.place[i].sent
        /\ LET f == Found(ring, ring.place[i].id, FALSE) IN
             \/ ring' = Deactivate(ring, f)
             \/ ring' = [ring EXCEPT !.place[f] = ReplaceWith(@, "PUBREL", 0, "publishing")]
  BY DEF Acknowledge, Record
<1> DEFINE f == Found(ring, ring.place[i].id, FALSE)
<1>3. f \in Places /\ (ring.place[f].active => f = ring.head)
  BY <1>2, FoundHead
<1>4. \/ ring' = Deactivate(ring, f)
      \/ ring' = [ring EXCEPT !.place[f] = ReplaceWith(@, "PUBREL", 0, "publishing")]
  BY <1>2
<1> HIDE DEF f
<1>5. ring.place[f] \in Message /\ ~ring.place[f].ext
  BY <1>1, <1>3, RingFields DEF Fifo, Own
<1>6. PICK m \in Message :
               /\ ring' = [ring EXCEPT !.place[f] = m]
               /\ m.id = ring.place[f].id /\ m.ext = ring.place[f].ext
               /\ m.active => ring.place[f].active
  <2>1. CASE ring' = Deactivate(ring, f)
    <3>1. ring' = [ring EXCEPT !.place[f] = [ring.place[f] EXCEPT !.active = FALSE]]
      BY <2>1 DEF Deactivate
    <3>2. LET m == [ring.place[f] EXCEPT !.active = FALSE]
          IN  m \in Message /\ m.id = ring.place[f].id /\ m.ext = ring.place[f].ext /\ ~m.active
      BY <1>5 DEF Message, Messages
    <3> QED
      BY <3>1, <3>2
  <2>2. CASE ring' = [ring EXCEPT !.place[f] = ReplaceWith(@, "PUBREL", 0, "publishing")]
    <3>1. ring' = [ring EXCEPT !.place[f] = ReplaceWith(ring.place[f], "PUBREL", 0, "publishing")]
      BY <2>2
    <3>2. LET m == ReplaceWith(ring.place[f], "PUBREL", 0, "publishing")
          IN  m.id = ring.place[f].id /\ m.ext = ring.place[f].ext
              /\ m.active = ring.place[f].active
      BY <1>5 DEF ReplaceWith, Message, Messages
    <3>3. ReplaceWith(ring.place[f], "PUBREL", 0, "publishing") \in Message
      BY <1>5, ReplaceType
    <3> QED
      BY <3>1, <3>2, <3>3
  <2> QED
    BY <1>4, <2>1, <2>2
<1>7. /\ ring' \in Ring
      /\ ring'.head = ring.head /\ ring'.tail = ring.tail /\ ring'.last = ring.last
      /\ \A j \in Places : ring'.place[j] = IF j = f THEN m ELSE ring.place[j]
  <2>1. [ring.place EXCEPT ![f] = m] \in [Places -> Message]
    BY <1>1 DEF Ring
  <2>2. /\ ring' \in Ring /\ ring'.place = [ring.place EXCEPT ![f] = m]
        /\ ring'.head = ring.head /\ ring'.tail = ring.tail /\ ring'.last = ring.last
    BY <1>1, <1>6, <2>1 DEF Ring
  <2> QED
    BY <1>1, <1>3, <2>2 DEF Ring
<1>8. /\ ring'.place[f].id = ring.place[f].id /\ ~ring'.place[f].ext
      /\ ring'.place[f].active => ring.place[f].active
      /\ \A j \in Places \ {f} : ring'.place[j] = ring.place[j]
  BY <1>3, <1>5, <1>6, <1>7
<1>9. Fifo(ring', younger, burned)
  BY <1>1, <1>3, <1>7, <1>8, AnswerFifo
<1> QED
  BY <1>1, <1>9

LEMMA FifoCleared ==
  ASSUME FifoInv, Clear
  PROVE  Fifo(ring, younger, burned)'
BY FifoState, ClearedRing, EmptyFifo DEF Clear

(* As long as one place stays free and the ids outnumber the messages and    *)
(* the ids burned while one waits, the active messages are in the order of   *)
(* their age and of their ids.                                               *)
THEOREM FifoInvariance ==
  ASSUME MaxInflight < RingSize, MaxInflight + MaxBurned <= MaxId
  PROVE  Spec => []FifoInv
<1>1. Init => FifoInv
  BY InvInit, FifoInit DEF FifoInv
<1>2. FifoInv /\ [Next]_vars => FifoInv'
  <2> SUFFICES ASSUME FifoInv, [Next]_vars
               PROVE  FifoInv'
    OBVIOUS
  <2>1. Inv'
    BY InvStep DEF FifoInv
  <2>2. CASE UNCHANGED vars
    BY <2>1, <2>2 DEF vars, FifoInv
  <2>3. CASE Next
    BY <2>1, <2>3, FifoPublish, FifoRegister, FifoTurns, FifoWorks, FifoAnswered,
       FifoCleared DEF Next, Service, FifoInv
  <2> QED
    BY <2>2, <2>3
<1> QED
  BY <1>1, <1>2, PTL DEF Spec

(* The message manage_connections turns to is the oldest in the ring: what   *)
(* add_message puts behind the tail never overtakes (mqttconnection.cpp:117  *)
(* and 159).                                                                 *)
THEOREM FirstInFirstOut ==
  ASSUME MaxInflight < RingSize, MaxInflight + MaxBurned <= MaxId
  PROVE  Spec => []OldestFirst
<1>1. FifoInv => OldestFirst
  BY FifoState, FifoOldest DEF OldestFirst
<1> QED
  BY <1>1, FifoInvariance, PTL

(* get_new_messageid() never gives an id that a message of the ring has,     *)
(* however often the ids wrap, unless registers of known topics have burned  *)
(* all the others while that message waits (clientmqtt.cpp:987).             *)
THEOREM NoSharedIds ==
  ASSUME MaxInflight < RingSize, MaxInflight + MaxBurned <= MaxId
  PROVE  Spec => []UniqueIds
<1>1. FifoInv => UniqueIds
  BY FifoState, FifoUnique DEF UniqueIds
<1> QED
  BY <1>1, FifoInvariance, PTL
====
