---- MODULE MessageRingProof ----
(* What the operators of MessageRing find and change, for rings of every      *)
(* size, whatever their messages hold; and what a write or a handler does to  *)
(* the packets of Radio. The proofs about Inflight and Session rest on this.  *)
EXTENDS MessageRing, Radio, FiniteSetTheorems, WellFoundedInduction, TLAPS

USE RingSizeAssumption, MaxIdAssumption, NretryAssumption

----------------------------------------------------------------------------
(* The scans of the ring: each ends at a place it looks for, the first.      *)

LEMMA LeastNatural ==
  ASSUME NEW S \in SUBSET Nat, S # {}
  PROVE  \E n \in S : \A m \in S : n <= m
<1> DEFINE R == {ss \in Nat \X Nat : ss[1] < ss[2]}
<1>1. \E n \in S : \A m \in S : <<m, n>> \notin R
  <2> IsWellFoundedOn(R, Nat)
    BY NatLessThanWellFounded DEF OpToRel
  <2> HIDE DEF R
  <2> QED
    BY WFMin
<1>2. PICK n \in S : \A m \in S : <<m, n>> \notin R
  BY <1>1
<1>3. \A m \in S : ~(m < n)
  BY <1>2
<1> QED
  BY <1>3

LEMMA WalkType ==
  ASSUME NEW from \in Places, NEW i \in Places
  PROVE  Walk(from, i) \in Nat /\ (Walk(from, i) = 0 <=> i = from)
BY DEF Walk, Places

LEMMA FirstFromMember ==
  ASSUME NEW from \in Places, NEW S \in SUBSET Places, S # {}
  PROVE  /\ FirstFrom(from, S) \in S
         /\ \A j \in S : Walk(from, FirstFrom(from, S)) <= Walk(from, j)
<1> DEFINE T == {Walk(from, i) : i \in S}
           R == {ss \in Nat \X Nat : ss[1] < ss[2]}
<1>1. T \subseteq Nat /\ T # {}
  BY WalkType
<1>2. \E n \in T : \A m \in T : <<m, n>> \notin R
  <2> IsWellFoundedOn(R, Nat)
    BY NatLessThanWellFounded DEF OpToRel
  <2> HIDE DEF T, R
  <2> QED
    BY <1>1, WFMin
<1>3. PICK i \in S : \A j \in S : <<Walk(from, j), Walk(from, i)>> \notin R
  BY <1>2
<1>4. \A j \in S : Walk(from, i) <= Walk(from, j)
  <2>1. SUFFICES ASSUME NEW j \in S
                 PROVE  Walk(from, i) <= Walk(from, j)
    OBVIOUS
  <2>2. Walk(from, i) \in Nat /\ Walk(from, j) \in Nat
    BY WalkType
  <2>3. ~(Walk(from, j) < Walk(from, i))
    <3> DEFINE u == Walk(from, j)
               v == Walk(from, i)
    <3>1. <<u, v>> \notin R
      BY <1>3
    <3> HIDE DEF u, v
    <3> QED
      BY <2>2, <3>1 DEF u, v
  <2> QED
    BY <2>2, <2>3
<1> QED
  BY <1>4 DEF FirstFrom

(* The scan for the current message stops at once when the head is active.   *)
LEMMA FirstFromSelf ==
  ASSUME NEW from \in Places, NEW S \in SUBSET Places, from \in S
  PROVE  FirstFrom(from, S) = from
<1>1. FirstFrom(from, S) \in S /\ Walk(from, FirstFrom(from, S)) <= Walk(from, from)
  BY FirstFromMember
<1> QED
  BY <1>1, WalkType

(* get_message() and get_mos_message() return a place with what they look    *)
(* for, get_active_message() an active one.                                  *)
LEMMA LowestMember ==
  ASSUME NEW S \in SUBSET Places, S # {}
  PROVE  Lowest(S) \in S
<1>1. 0 \in Places
  BY DEF Places
<1> QED
  BY <1>1, FirstFromMember DEF Lowest

LEMMA FoundOwn ==
  ASSUME NEW r, NEW id, Matches(r, id, FALSE) # {}
  PROVE  /\ Found(r, id, FALSE) \in Places
         /\ r.place[Found(r, id, FALSE)].id = id
         /\ ~r.place[Found(r, id, FALSE)].ext
BY LowestMember DEF Found, Matches

LEMMA FoundExternal ==
  ASSUME NEW r, NEW id, Matches(r, id, TRUE) # {}
  PROVE  /\ Found(r, id, TRUE) \in Places
         /\ r.place[Found(r, id, TRUE)].id = id
         /\ r.place[Found(r, id, TRUE)].ext
BY LowestMember DEF Found, Matches

LEMMA ActiveInPlaces == \A r : Active(r) \in SUBSET Places
BY DEF Active

----------------------------------------------------------------------------
(* A record with the fields of a message, and one with those of a ring.      *)
Fields == {"active", "type", "data", "tid", "name", "id", "ext", "mos", "qos", "activity",
           "sent", "attempts", "oneshot"}
IsMessage(m) == m = [f \in Fields |-> m[f]]
IsRing(r) ==
  /\ r = [f \in {"place", "head", "tail", "last"} |-> r[f]]
  /\ r.place = [i \in Places |-> r.place[i]]
  /\ \A i \in Places : IsMessage(r.place[i])
  /\ r.head \in Places /\ r.tail \in Places

LEMMA BlankFields ==
  /\ IsMessage(Blank)
  /\ ~Blank.active /\ Blank.type = "none" /\ Blank.mos = 0 /\ Blank.activity = "none"
BY DEF IsMessage, Fields, Blank

LEMMA ResetFields ==
  ASSUME NEW m
  PROVE  /\ IsMessage(Reset(m))
         /\ \A f \in Fields \ {"qos"} : Reset(m)[f] = Blank[f]
         /\ Reset(m).qos = m.qos
         /\ ~Reset(m).active /\ Reset(m).type = "none" /\ Reset(m).mos = 0
         /\ Reset(m).activity = "none"
BY DEF IsMessage, Fields, Reset, Blank

(* The changes of one message.                                               *)
LEMMA InactiveFields ==
  ASSUME NEW m, IsMessage(m)
  PROVE  LET n == [m EXCEPT !.active = FALSE] IN
           /\ IsMessage(n) /\ ~n.active
           /\ \A f \in Fields \ {"active"} : n[f] = m[f]
BY DEF IsMessage, Fields

LEMMA SendingFields ==
  ASSUME NEW m, IsMessage(m)
  PROVE  /\ IsMessage(Sending(m))
         /\ \A f \in Fields \ {"active", "sent", "attempts"} : Sending(m)[f] = m[f]
         /\ ~m.oneshot => Sending(m).active = m.active
BY DEF IsMessage, Fields, Sending

LEMMA ExpiredFields ==
  ASSUME NEW m, IsMessage(m)
  PROVE  /\ IsMessage(Expired(m))
         /\ \A f \in Fields \ {"attempts"} : Expired(m)[f] = m[f]
BY DEF IsMessage, Fields, Expired

LEMMA ReplaceFields ==
  ASSUME NEW m, IsMessage(m), NEW type, NEW data, NEW activity
  PROVE  LET n == ReplaceWith(m, type, data, activity) IN
           /\ IsMessage(n)
           /\ n.type = type /\ n.data = data /\ n.activity = activity
           /\ \A f \in {"active", "id", "ext", "mos", "qos", "oneshot"} : n[f] = m[f]
BY DEF IsMessage, Fields, ReplaceWith

(* The changes of a ring. A place that is set leaves the others alone.       *)
LEMMA PlaceSet ==
  ASSUME NEW r, IsRing(r), NEW i \in Places, NEW m, IsMessage(m)
  PROVE  LET n == [r EXCEPT !.place[i] = m] IN
           /\ IsRing(n)
           /\ n.head = r.head /\ n.tail = r.tail /\ n.last = r.last
           /\ n.place[i] = m
           /\ \A j \in Places \ {i} : n.place[j] = r.place[j]
BY DEF IsRing

LEMMA DeactivateRing ==
  ASSUME NEW r, IsRing(r), NEW i \in Places
  PROVE  LET n == Deactivate(r, i) IN
           /\ IsRing(n)
           /\ n.head = r.head /\ n.tail = r.tail /\ n.last = r.last
           /\ n.place[i] = [r.place[i] EXCEPT !.active = FALSE]
           /\ \A j \in Places \ {i} : n.place[j] = r.place[j]
<1> DEFINE m == [r.place[i] EXCEPT !.active = FALSE]
<1>1. IsMessage(m)
  BY InactiveFields DEF IsRing
<1>2. Deactivate(r, i) = [r EXCEPT !.place[i] = m]
  BY DEF Deactivate, IsRing
<1> HIDE DEF m
<1>3. LET n == [r EXCEPT !.place[i] = m] IN
           /\ IsRing(n)
           /\ n.head = r.head /\ n.tail = r.tail /\ n.last = r.last
           /\ n.place[i] = m
           /\ \A j \in Places \ {i} : n.place[j] = r.place[j]
  BY <1>1, PlaceSet
<1> QED
  BY <1>2, <1>3 DEF m

LEMMA EmptyRingFields ==
  /\ IsRing(EmptyRing)
  /\ \A i \in Places : EmptyRing.place[i] = Blank
<1>1. 0 \in Places
  BY DEF Places
<1> QED
  BY <1>1, BlankFields DEF EmptyRing, IsRing

(* The ring of a connection that has used some message ids.                   *)
LEMMA InitialRing ==
  ASSUME NEW n
  PROVE  LET r == [EmptyRing EXCEPT !.last = n] IN
           /\ IsRing(r) /\ r.last = n
           /\ \A i \in Places : r.place[i] = Blank
           /\ Active(r) = {}
<1>1. 0 \in Places
  BY DEF Places
<1> QED
  BY <1>1, BlankFields DEF EmptyRing, IsRing, Active

LEMMA ClearedRing ==
  ASSUME NEW r
  PROVE  /\ IsRing(Cleared(r)) /\ Cleared(r).last = r.last
         /\ \A i \in Places : Cleared(r).place[i] = Reset(r.place[i])
         /\ Active(Cleared(r)) = {}
<1>1. 0 \in Places
  BY DEF Places
<1>2. /\ IsRing(Cleared(r)) /\ Cleared(r).last = r.last
      /\ \A i \in Places : Cleared(r).place[i] = Reset(r.place[i])
  BY <1>1, ResetFields DEF Cleared, EmptyRing, IsRing
<1> QED
  BY <1>2, ResetFields DEF Active

LEMMA CurrentActive ==
  ASSUME NEW r, IsRing(r), Active(r) # {}
  PROVE  /\ Current(r) \in Active(r) /\ Current(r) \in Places
         /\ r.head \in Active(r) => Current(r) = r.head
BY ActiveInPlaces, FirstFromMember, FirstFromSelf DEF Current, IsRing

LEMMA LookedRing ==
  ASSUME NEW r, IsRing(r)
  PROVE  /\ IsRing(Looked(r))
         /\ Looked(r).place = r.place /\ Looked(r).last = r.last
         /\ Active(r) # {} => Looked(r).head = Current(r)
<1>1. 0 \in Places
  BY DEF Places
<1>2. CASE Active(r) = {}
  BY <1>1, <1>2 DEF Looked, IsRing
<1>3. CASE Active(r) # {}
  BY <1>3, CurrentActive DEF Looked, IsRing
<1> QED
  BY <1>2, <1>3

(* add_message() fills a free place. AddAbout() also gives it content.       *)
LEMMA AddRing ==
  ASSUME NEW r, IsRing(r), CanAdd(r), NEW activity
  PROVE  LET n == Add(r, activity)
             i == AddedAt(r)
         IN /\ IsRing(n) /\ n.head = r.head /\ n.tail = i /\ n.last = NextId(r.last)
            /\ i \in Places \ Active(r)
            /\ n.place[i].active /\ n.place[i].type = "none"
            /\ n.place[i].id = NextId(r.last) /\ ~n.place[i].ext /\ n.place[i].mos = 0
            /\ n.place[i].activity = activity
            /\ \A j \in Places \ {i} : n.place[j] = r.place[j]
<1> DEFINE i == AddedAt(r)
           b == [Reset(r.place[i]) EXCEPT !.active = TRUE, !.id = NextId(r.last),
                                          !.activity = activity]
<1>1. i \in Places \ Active(r)
  BY ActiveInPlaces, FirstFromMember DEF AddedAt, CanAdd, IsRing
<1>2. /\ IsMessage(b) /\ b.active /\ b.type = "none"
      /\ b.id = NextId(r.last) /\ ~b.ext /\ b.mos = 0 /\ b.activity = activity
  BY DEF IsMessage, Fields, Reset, Blank
<1>3. Add(r, activity) = [r EXCEPT !.place[i] = b, !.last = NextId(r.last), !.tail = i]
  BY <1>1 DEF Add, IsRing
<1> HIDE DEF i, b
<1>4. LET n == [r EXCEPT !.place[i] = b, !.last = NextId(r.last), !.tail = i] IN
        /\ IsRing(n) /\ n.head = r.head /\ n.tail = i /\ n.last = NextId(r.last)
        /\ n.place[i] = b
        /\ \A j \in Places \ {i} : n.place[j] = r.place[j]
  BY <1>1, <1>2 DEF IsRing
<1> QED
  BY <1>1, <1>2, <1>3, <1>4 DEF i, b

LEMMA AddAboutRing ==
  ASSUME NEW r, IsRing(r), CanAdd(r), NEW activity, NEW type, NEW tid, NEW name, NEW data,
         NEW qos, NEW oneshot
  PROVE  LET n == AddAbout(r, activity, type, tid, name, data, qos, oneshot)
             i == AddedAt(r)
         IN /\ IsRing(n) /\ n.head = r.head /\ n.tail = i /\ n.last = NextId(r.last)
            /\ i \in Places \ Active(r)
            /\ n.place[i].active /\ n.place[i].type = type /\ n.place[i].data = data
            /\ n.place[i].id = NextId(r.last) /\ ~n.place[i].ext /\ n.place[i].mos = 0
            /\ n.place[i].qos = qos /\ n.place[i].activity = activity
            /\ n.place[i].oneshot = oneshot
            /\ \A j \in Places \ {i} : n.place[j] = r.place[j]
<1> DEFINE i == AddedAt(r)
           a == Add(r, activity)
           b == a.place[i]
           c == [b EXCEPT !.type = type, !.tid = tid, !.name = name, !.data = data,
                          !.qos = qos, !.oneshot = oneshot]
<1>1. /\ IsRing(a) /\ a.head = r.head /\ a.tail = i /\ a.last = NextId(r.last)
      /\ i \in Places \ Active(r)
      /\ b.active /\ b.id = NextId(r.last) /\ ~b.ext /\ b.mos = 0 /\ b.activity = activity
      /\ \A j \in Places \ {i} : a.place[j] = r.place[j]
  BY AddRing
<1>2. IsMessage(b)
  BY <1>1 DEF IsRing
<1>3. AddAbout(r, activity, type, tid, name, data, qos, oneshot) = [a EXCEPT !.place[i] = c]
  BY <1>1 DEF AddAbout, IsRing
<1> HIDE DEF i, a, b
<1>4. /\ IsMessage(c) /\ c.active /\ c.type = type /\ c.data = data /\ c.id = NextId(r.last)
      /\ ~c.ext /\ c.mos = 0 /\ c.qos = qos /\ c.activity = activity /\ c.oneshot = oneshot
  BY <1>1, <1>2 DEF IsMessage, Fields
<1> HIDE DEF c
<1>5. LET n == [a EXCEPT !.place[i] = c] IN
        /\ IsRing(n)
        /\ n.head = a.head /\ n.tail = a.tail /\ n.last = a.last
        /\ n.place[i] = c
        /\ \A j \in Places \ {i} : n.place[j] = a.place[j]
  BY <1>1, <1>4, PlaceSet
<1> QED
  BY <1>1, <1>3, <1>4, <1>5 DEF i

----------------------------------------------------------------------------
(* Packets. A handler takes one away, a write adds it or does not.           *)
LEMMA PacketTaken ==
  ASSUME NEW air, NEW p
  PROVE  DOMAIN Without(air, p) \subseteq DOMAIN air
BY DEF Without, BagToSet, (-), SetToBag

LEMMA PacketWritten ==
  ASSUME NEW air, NEW p, NEW new \in Written(air, p)
  PROVE  DOMAIN new \subseteq DOMAIN air \cup {p}
BY DEF Written, BagToSet, (+), SetToBag

LEMMA NoPackets == DOMAIN EmptyBag = {}
BY DEF EmptyBag, SetToBag
====
